# TLA+ models of the MRPG server core

These are TLA+ specifications of the stateful core of the Teeworlds MRPG
server (`src/src/game/server/...`), with TLC configurations that check them.
Each module is translated from the C++ source. `PROJECT.json` has:

- `map`: the source lines each definition models;
- `runs`: what each run checks;
- `findings`: what the runs found;
- `hazards`: the hazards listed per source line.

## 1. The system

The game server runs one `CGS` per world on a single tick thread. The parts
under `src/` and how they interact:

| Part | Source | State | Operations |
|---|---|---|---|
| Clock / tick driver | outside `src/` (spec.md 4.1) | server tick | every tick calls each player's handlers |
| Async query gateway | outside `src/` (spec.md 4.2) | queue of submitted SQL | `Execute<SELECT>` synchronous; `Execute<INSERT/UPDATE>` queued, applied FIFO by a worker |
| Timed action | `mmocore/Cooldown.cpp`, `player.h:63` | `m_IsCooldownActive`, `m_Timer`, `m_StartTimer`, `m_Interrupted`, `m_Callback`, `m_StartPos` | `Start`, `Reset`, `Handler` (per tick) |
| Command dispatcher | `mmocore/CommandProcessor.cpp` | command table | `ChatCmd`, 17 chat handlers |
| Account progression | `Components/Accounts/AccountData.cpp` | level, exp, upgrades, daily chair gold, relations, prison seconds | `AddExperience`, `HandleChair`, `AddGold`, `SpendCurrency`, `IncreaseRelations`, `Imprison`, ... |
| Account relations | `AccountData.cpp:88-160` | cached house, group and guild pointers | `ReinitializeHouse/Group/Guild` |
| Skills | `Components/Skills/SkillData.cpp` | `m_Level`, selected emote, DB rows | `Upgrade`, `Use`, `SelectNextControlEmote` |
| Aethers | `Components/Aethers/AetherManager.cpp` | unlocked teleports per account | `UnlockLocation`, `OnInitAccount`, TELEPORT vote |
| Tutorial | `Components/Tutorial/TutorialManager.cpp` | `m_TutorialStep` | `HandleTutorial`, `EventChecker`; not modelled (section 7) |
| Votes, broadcasts | `gamecontext.h`, `player.h` (declarations only) | menus, optionals (static, shared by worlds), broadcast slots | spec.md 4.4 |
| Entities, controller, auction tax, ranks, tiles | `laser_orbite.cpp`, `path_finder.cpp`, `worldmodes/main.cpp`, `AuctionData.cpp`, headers | geometry, one-shot setup | not modelled; the path finder's kept `CPlayer` pointer is a hazard |

The parts interact in several ways:

- The tick drives the cooldown and chair handlers (and the tutorial, not modelled).
- Chat lines go through the dispatcher to handlers. These call the account, group, house and skill code.
- Every persistent change goes through the gateway. Its writes are asynchronous, but several readers (`CSkillData::Upgrade`, `CAetherManager::OnInitAccount`) use synchronous SELECTs. The interleaving of the two is the main source of hazards.

## 2. Modules

### TimedAction (abstract) and Cooldown

`TimedAction` is what spec.md 4.3 promises:

- a client has at most one live callback;
- a live callback either runs once or is discarded;
- one of the two eventually happens.

`Settle(Run, Drop)` settles several clients at once, because one server tick
runs every player's handler.

`Cooldown` models `CCooldown` for a set of clients.

- `cd[c]` holds the fields of `CCooldown`.
- `player[c]` abstracts what `Handler` reads: whether `GetPlayer(c, true, true)` finds the player, and whether `distance(m_StartPos, m_ViewPos) > 48`.

The actions:

- `Start(c, t)` and `Reset(c)` are the feature-code calls.
- `Handler(c)` is `CCooldown::Handler`, with its early returns in code order (`Orphaned`, `Completes`, `EndsInterrupted`, `ChecksDistance`).
- `Tick` runs every handler, then advances `Server()->Tick() % (TickSpeed/25)`.
- `Move`, `Vanish`, `Appear` and `Disconnect` are the environment.

`hist` is an observer. For each callback it records:

- its client and duration;
- the handler runs it has seen, saturating at `StepCap`;
- how often it fired;
- whether it was discarded;
- whether the player moved away while it was live.

`MC_Cooldown` instantiates `TimedAction` with a refinement mapping:

- `slot` is the callback of each active cooldown;
- `done` is the set of fired callbacks.

### SkillUpgrade

`SkillUpgrade` models `CSkillData::Upgrade` and `SelectNextControlEmote` against the gateway, and `Use` against the world's entity list. Its state:

- `level` is `m_Level`;
- `sp` is the skill points;
- `pending` is the gateway's FIFO of queued writes;
- `emote` is `m_SelectedEmoticion`;
- `rows` holds the Level and UsedByEmoticon columns of the matching `tw_accounts_skills` rows.

`Upgrade` is the whole method, in code order:

1. the cap guard;
2. `SpendCurrency`;
3. the synchronous SELECT, which sees `rows` only;
4. `UpgradeExisting`, or `LearnNew`, which also resets the emoticon to -1.

`SelectNextControlEmote` steps the emoticon, wraps at `NUM_EMOTICONS` to -1,
and queues the UPDATE of UsedByEmoticon (`NextEmote`). A new row gets the
column default `DefaultEmote`. The table's default is not under `src/`; it is
assumed to be -1. `MaxQueued` bounds the queue.

`ApplyWrite` is the gateway worker. It is spec-modelled, since the gateway is
not under `src/`. Whether the table has a unique key is not in the source, so
an INSERT that meets an existing row either duplicates it or fails.

`Use(c)` is `CSkillData::Use` of player `c`, the skill's owner ("self") or a
second player whose skill of the same ID is learned. `ents` is the world's list
of entities of the skill's type, first entity first, each with its owner and
whether it is marked for destruction.

- The early returns (no character, `m_Level <= 0`, failed mana check) change
  nothing, so they are stutters. Only `m_Level > 0` is a guard, because the
  model has `level`.
- For `SkillHeartTurret` and `SkillSleepyGravity`, `ResetFirst` is the loop: it
  walks from the first entity, skips other clients' entities, Resets the first
  of `c`'s and breaks. The new entity is then put at the front (`NewEntity`).
- `SkillAttackTeleport` and `SkillBlessingGodWar` create other entity types or
  restore ammo, none of it state here.
- `Expire` (an entity's lifespan ends) and `RemoveEntities` (the end of the
  world's tick) are the world, spec-modelled. Reset only marks an entity, and
  `CGameWorld::InsertEntity` puts new entities at the front of their list. Both
  are engine code outside `src/`, and the model assumes them.

### AccountProgress

`AccountProgress` models the progression methods of `CAccountData` for one account.

- `LevelUp` is the `while` loop of `AddExperience`. It is RECURSIVE, and it is checked against the closed form `ExpBelow`.
- `HandleChair` is the method on a tick where `Tick() % (TickSpeed*5) = 0`. It gives one experience through the whole `AddExperience`, then pays `clamp(1, 0, limit - today)`.
- `Imprison` kills the character and picks `CanSpawn(SPAWN_HUMAN_PRISON)` nondeterministically. Only the spawn branch sets and saves the sentence.
- `present` says the account has a live player. Every method returns at once on a null `m_pPlayer`, and nothing calls it for a player that has left.
- The account's row is state:
  - `rowStats` holds Level and Exp, written by SAVE_STATS: on the last level-up of `AddExperience`, and when `rand() % 5 == 0`;
  - `rowUpgrade` is written by SAVE_UPGRADES on a level-up;
  - `rowSocial` holds DailyChairGolds and PrisonSeconds, written by SAVE_SOCIAL_STATUS (`SaveSocialStatus`).
  - `SaveAccount` is outside `src/`. What each kind writes is read from the names and from the columns `Init` loads. Saves go through the gateway's FIFO queue ahead of a later login's SELECT, so the model treats a save as durable for the next `Load`.
- Logins:
  - `Detach`: the player leaves;
  - `UpdatePointer`: the player comes back to the account still in memory;
  - `Load`: a new login, where `CAccountData::Init` reads Level, Exp, Upgrade, PrisonSeconds and DailyChairGolds from the row. `Init` does not read `m_Relations`, which starts again from a new object's value, 0.
- `ChangePermission` and `Respawn` are the environment.
- Observers:
  - `earned` is the experience credited, and `savedEarned` is its value at the last SAVE_STATS;
  - `paidLimit` is the limit at the last chair payment;
  - `paidToday` is the chair gold paid since the daily reset. Relogs do not reset it;
  - `sentence` is the last sentence set.

### CommandDispatch

`CommandDispatch` models `CCommandProcessor`.

- `Commands` is the table registered by the constructor, with the parameter grammar of each command.
- `DispatchOutcome` and `ChatCmd` model `ChatCmd`. It looks the token up, runs the line through the console, and answers a parse error with the usage; an unknown token gets "not found".
- Each `ConChat*` or `ConGroup` operator is one handler. It keeps the handler's guards and its prefix matching (`pElem.compare(0, n, k)`), in code order.

Words are model strings for the classes of input the handlers tell apart.
`ParseArgs`, the console's parser, is spec-modelled (spec.md 4.5, 6). The rest
of the state:

- `ctx`: the client's situation (account login, server auth, character, house, guild, group, tutorial world);
- `doors`: the house doors that `/hdoor` changes;
- `last`: an observer of the last line's token, context and outcome.

Effects on components outside this module (login, guild creation, item use)
are recorded as outcomes.

### Aether

`Aether` models `CAetherManager` for one account across logins.

- The map is abstracted to spots. `Near(s)` is the set of aethers whose tile is at spot `s`.
- `TileEnter` is `OnHandleTile` on entering the tile. It runs the whole of `UnlockLocation`, which unlocks the lowest-ID aether in reach in memory, queues its INSERT and announces it. Then it rebuilds the menu with `ShowList`.
- `TileExit` rebuilds the menu without the list.
- `Teleport(o)` is the TELEPORT vote. It charges with `SpendCurrency`. Then it either changes world, or moves the character and rebuilds the votes. `GetCharacter()` is not checked for null.
- `Walk`, `Die` and `Respawn` are the player. A death does not rebuild the vote list the client holds.
- The gateway is spec-modelled:
  - `RequestLogin` queues the login query;
  - `Worker` finishes a queued request: the oldest one when `Pool` is FALSE (one worker, the order the other models use), any one when `Pool` is TRUE (spec.md 5's pool of workers, which may finish requests in any order);
  - `CompleteLogin` applies a login result on the tick thread, only if its session is current, and fills `unlocked` from the synchronous SELECT `OnInitAccount`;
  - `Disconnect` ends the session and drops the in-memory data.
- Observers: `inserts` counts INSERTs per aether, `told` is the set of announced unlocks, and `crashed` marks a null character dereference.
- `DeadVotes` says whether a vote can arrive while the player has no character. The vote dispatcher that would decide this is outside `src/`.

### AccountRelations

`AccountRelations` models the resolvers `ReinitializeHouse/Group/Guild` and
the commands that use their results.

- The resolvers are linear scans that keep the first match (`FirstID`). `Init_Account` calls all three.
- `ConChatDoorHouse`, `ConChatSellHouse` and `ConGroup` keep the handlers' guards on the cached `house` and `group`.
- The collections and their mutators are outside `src/` and are spec-modelled from spec.md 4.6: `Sell`, `BuyHouse`, `CreateGroup`, `Remove`, `JoinGroup`, `Kick`, `GuildJoin` and `GuildLeave`. A mutation by another player re-initializes every resident account it affects.
- Whether `Sell`, `Remove` and `CreateGroup` re-initialize the acting account themselves is not in the source. It is the constant `MutatorsReinitialize`.
- `misuse` is an observer: the commands that acted on a house or group that is not the account's.

## 3. Runs

| Run | Checks | Result |
|---|---|---|
| `cooldown` (`MC_Cooldown.cfg`) | `CallbackExactlyOnTime`, `TypeOK`, `TimedActionSpec` | passes, about 222k states, 1.5 min |
| `cooldown_interrupt` | `MovementInterruptsAction` | **violated** (finding 1) |
| `skill` (`MC_SkillUpgrade.cfg`) | `RowsMatchMemory`, `OneLiveEntityPerPlayer`, `TypeOK` | passes, about 180k states |
| `skill_paid` | `EveryPaidUpgradeCounts` | **violated** (finding 2) |
| `account` (`MC_AccountProgress.cfg`) | `LevelUpConsistent`, `ChairGoldWithinLimit`, `PrisonSurvivesRelog`, `TypeOK` | passes, about 38k states |
| `account_limit` | `ChairLimitAsCommented` | **violated** (finding 3) |
| `dispatch` (`MC_CommandDispatch.cfg`) | `HandlersCheckLogin` | passes, about 19.7k states, 1.3 min |
| `aether` (`MC_Aether.cfg`) | `UnlockSurvivesRelog`, `InsertedOnce`, `TypeOK` | passes, about 12.8k states |
| `aether_deadvote` | `NoCrashOnTeleport` | **violated** (finding 4) |
| `aether_pool` (`MC_Aether_pool.cfg`) | `UnlockSurvivesRelog` | **violated** (finding 6) |
| `relations` (`MC_AccountRelations.cfg`) | `RelationsFresh` | passes, about 8.4k states |
| `relations_stale` | `CommandsOnOwnRelations` | **violated** (finding 5) |

What the properties say:

- **CallbackExactlyOnTime**: a callback runs at most once, never after it was reset, replaced, interrupted or orphaned, and exactly on the handler run after its full countdown. Breaking it takes a Start, several ticks, and possibly a second Start, a disconnect or a move.
- **TimedActionSpec**: Cooldown refines TimedAction, including the liveness "every live callback eventually ends".
- **RowsMatchMemory**: once the gateway has drained, every stored row holds the in-memory level. A relog therefore reads back what the player had.
- **OneLiveEntityPerPlayer**: however many Uses of two players come between two ticks, each player has at most one turret not marked for destruction. The loop may meet an entity it marked earlier in the same tick, which is still in the list. It still resets the live one only because new entities go to the front. With new entities appended instead, two Uses in one tick leave two live turrets.
- **LevelUpConsistent**: experience is conserved across level-ups, the remainder is below the next requirement, and each level gives one upgrade point. The same holds for the row a relog reads back: the saved level is the current one, saved with its experience and upgrade points.
- **ChairGoldWithinLimit**: the chair gold paid since the daily reset never exceeds the limit in force at the last payment. This holds across relogs that reload `DailyChairGolds` and across changes of the permission item. Dropping the save in `HandleChair` breaks it: relog, then farm again.
- **PrisonSurvivesRelog**: while the account has a player, `m_PrisonSeconds` is the sentence last set. A relog through `Load` neither lifts nor shortens it.
- **HandlersCheckLogin** (spec.md 4.5): the dispatcher does not authorise, so every handler that acts on account data must check the login itself.
- **UnlockSurvivesRelog**: when the account is logged in, every aether it was told it unlocked is in memory. This holds even when the INSERT was still queued at logout, because the login query queues behind it in the FIFO. With a pool (`aether_pool`) it fails: finding 6.
- **InsertedOnce**: each aether is inserted at most once. The in-memory check of `UnlockLocation` must stay in step with the rows read back on login.
- **RelationsFresh**: after any sequence of buys, sells, joins, kicks and group removals by any account, each resident account's cached house, group and guild are what its resolvers would return now.
- **CommandsOnOwnRelations** (checked only in `relations_stale`): `/hdoor`, `/hsell` and `/group` only act on the account's own house and group.

Each property of a passing run has a mutant in `PROJECT.json`: a plausible
bug in the mapped code that TLC catches. For example, the completion branch
keeps the cooldown active, the UPDATE is formatted with the old level, the
level-up loop raises the level before subtracting, or `/useitem` loses its
`IsAuthed` check.

## 4. Findings

1. **Movement does not always interrupt a cooldown** (`Cooldown.cpp:78`). `Handler` checks the distance only on every `TickSpeed/25`-th tick, and not on the completion tick. In the trace, the player walks away after the last check and still gets the callback. spec.md 8 says movement beyond 48 units always interrupts the action.
2. **Double-paid skill upgrade** (`SkillData.cpp:114`). `Upgrade` reads the row with a synchronous SELECT, but the INSERT of the first upgrade is only queued. A second upgrade before the INSERT commits spends the skill points again and sets the level to 1 again.
3. **Daily chair limit vs its comment** (`AccountData.cpp:170`). The code returns `300 + minimum(item, config)`. The comment describes `300 + max(50*item, config)`.
4. **TELEPORT vote with no character** (`AetherManager.cpp:59`). The handler charges the price. For an aether in the player's world it then calls `GetCharacter()->ChangePosition` without a null check. A vote from the menu the client still holds after its character died dereferences nullptr. spec.md 7 says no error in the core is fatal. This assumes the vote dispatcher, outside `src/`, forwards such votes (`DeadVotes`).
5. **Stale house and group after the account's own mutation** (`CommandProcessor.cpp:280`). `/hsell` calls `Sell`, and `/group` calls `Remove` and `CreateGroup`, but neither handler re-runs the resolvers. spec.md 4.6 says the caller must. Unless those mutators, outside `src/`, do it themselves (`MutatorsReinitialize = FALSE`), `/hdoor` and `/hsell` work on a sold house, and `/group` acts on a group the account has left.

6. **Lost unlock under a pool of workers** (`AetherManager.cpp:30`). spec.md 5 runs queries on a pool of workers that may finish them in any order. On a relog, the login query can then complete before the old session's queued INSERT of an unlocked aether. `OnInitAccount`'s synchronous SELECT misses the row: the player was told the aether is unlocked and it is not, and entering the tile again queues a second INSERT. With one FIFO worker this cannot happen.

Finding 2 has a second consequence. The relearn also sets `m_SelectedEmoticion` to -1, while an emoticon UPDATE queued in between still reaches the row. The row and memory then disagree on the emoticon.

## 5. Bounds and why they suffice

- **Cooldown**: 2 clients, durations {0, 1, 2}, 2 Starts, TickSpeed 50 (so the distance check period is 2).
  - Two clients are enough for one tick to settle several actions.
  - Duration 2 spans a checked tick and an unchecked tick.
  - Two Starts allow a Start over an active action.
  - The violation run uses duration 2 only, so its trace is not the trivial duration-0 case.
- **SkillUpgrade**: max level 4, price 1, 6 points. This reaches upgrades past level 1 with writes still queued, and both INSERT outcomes. Up to 3 entities in the list allow two Uses in one tick over a turret from an earlier tick, or one with the other player's entity in between.
- **AccountProgress**: requirement `2*l` with rewards {1, 5} and at most 6 gold. A reward of 5 after one of 1 crosses two levels in a single call (the `while` loop runs twice) and leaves a remainder. The base limit is 2 with permission {0, 2} and config 1, so the limit can rise and fall around the gold already paid. Relogs are unbounded, but each only restores saved values, so the state space stays finite.
- **CommandDispatch**: all 18 chat commands plus one unknown token, 12 first words and 3 second words. They cover:
  - each prefix keyword, and a longer word it matches;
  - guild names of length 2, 3, 8 and 9;
  - an existing id and a non-existing number;
  - all 128 client contexts in the initial states.

- **Aether**: 4 aethers in two worlds, 5 spots, price 1 per world level, 3 gold, 2 sessions. Spot "gate" reaches two aethers, so one visit unlocks one and a second visit the other. "mill" is a second aether tile in the same world, which the dead-character trace needs. Two sessions give a relog with an INSERT still queued.
- **AccountRelations**: 2 accounts, 2 houses, 2 groups, 1 guild. Two of each make first-match order matter, and let one account act on another's relations.

## 6. Fairness

- `Cooldown` assumes `WF_vars(Tick)`: the server loop keeps ticking. Nothing else is assumed fair: players need not move, and feature code need not call.
- `SkillUpgrade` assumes `WF(ApplyWrite)`, and `Aether` assumes `WF(Worker)` and `WF(CompleteLogin)` (its runs check only invariants, so this only states the scheduling). The gateway's worker keeps draining its queue, and the tick thread keeps applying completions (spec.md 4.2).
- Players are never assumed fair.

## 7. What is not modelled, and the plan

Not modelled, and why:

- Rendering, chat text and broadcasts.
- Geometry (laser orbit, quest path finder).
- Map loading (`main.cpp`).
- The auction tax, a single expression over a helper outside `src/`.
- Headers without behaviour (guild ranks, tile handle).
- `discord_connect`, which exists only under `CONF_DISCORD`.
- The callback bodies of cooldowns, which are opaque feature code.

Also not modelled:

- Vote menus and optionals (spec.md 4.4). Only declarations are under `src/`, and spec.md's `Resolve(code)` does not match the front-only `std::queue` of the declaration.
- The `Cmask` 64-bit masks. Their bit operations need 64-bit integers, which are beyond TLC's integers.
- The effects of `CSkillData::Use` beyond the turret list: mana, the teleport entity, ammo. A turret whose owner has left still holds its deleted `CPlayer`, and the loop reads through it. Whether turrets destroy themselves then is decided outside `src/`.
- `m_Relations` across a relog. `Load` resets it, because `Init` does not read it. Whether another loader outside `src/` reads the Relations column is unknown, so this is a hazard in `PROJECT.json`, not a finding.
- The guild's share of `AddExperience`. It calls `CGuildData::AddExperience`, outside `src/`.
- The pool of several gateway workers, except in `Aether` (`Pool`). The other models use one FIFO worker.
- The tutorial (`CTutorialManager`). Which step types are loaded and which branch casts to which class is decided by the masks in `TutorialData.h`, outside `src/`; modelled from those, a cast or completion property would hold by construction.

Plan for later sittings, most important first:

1. **Votes and optionals** (spec.md 4.4), with the static `m_Optionals` shared by worlds.
2. **Gateway**: move `SkillUpgrade` onto the login-generation gateway of `Aether`.
