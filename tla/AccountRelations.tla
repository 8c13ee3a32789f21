--------------------------- MODULE AccountRelations ---------------------------
(***************************************************************************)
(* The account's weak references to its house, group and guild            *)
(* (CAccountData::m_pHouseData, m_pGroupData, m_pGuildData), set by the    *)
(* linear-scan resolvers ReinitializeHouse/Group/Guild                      *)
(* (src/.../Components/Accounts/AccountData.cpp) when the account is       *)
(* initialised, and used by the chat commands /hdoor, /hsell and /group    *)
(* (src/.../mmocore/CommandProcessor.cpp).                                  *)
(*                                                                         *)
(* The resident collections (CHouseData::Data(), GroupData::Data(),        *)
(* CGuildData::Data()) and their mutators (Sell, Buy, CreateGroup, Remove, *)
(* guild join/leave) live outside src/ and follow spec.md 4.6: a mutation  *)
(* is not observed by the resolver, its caller re-initializes.  Whether    *)
(* the mutators that the commands of src/ call re-initialize the acting    *)
(* account themselves is the constant MutatorsReinitialize: the commands  *)
(* of src/ never do.  Mutations by other players re-initialize every       *)
(* resident account they affect (spec.md 4.6).                             *)
(***************************************************************************)
EXTENDS Naturals, FiniteSets

CONSTANTS
    Accounts,              \* account IDs
    Houses,                \* house IDs, in the order of CHouseData::Data()
    Groups,                \* group IDs, the keys of GroupData::Data()
    Guilds,                \* guild IDs, in the order of CGuildData::Data()
    MutatorsReinitialize   \* Sell, CreateGroup and Remove re-initialize the caller

NoID == 0

VARIABLES
    resident,      \* accounts logged in (CAccountData with a player)
    houseOwner,    \* CHouseData::GetAccountID() per house
    groupAlive,    \* groups present in GroupData::Data()
    members,       \* GroupData::GetAccounts() per group
    guildMembers,  \* members with data in each guild's member container
    house,         \* m_pHouseData per account (a house ID or NoID)
    group,         \* m_pGroupData per account
    guild,         \* m_pGuildData per account
    misuse         \* observer: commands that acted on a relation not the account's

vars == <<resident, houseOwner, groupAlive, members, guildMembers, house, group,
          guild, misuse>>

TypeOK ==
    /\ resident \subseteq Accounts
    /\ houseOwner \in [Houses -> Accounts \cup {NoID}]
    /\ groupAlive \subseteq Groups /\ members \in [Groups -> SUBSET Accounts]
    /\ guildMembers \in [Guilds -> SUBSET Accounts]
    /\ house \in [Accounts -> Houses \cup {NoID}]
    /\ group \in [Accounts -> Groups \cup {NoID}]
    /\ guild \in [Accounts -> Guilds \cup {NoID}]
    /\ misuse \subseteq [cmd : {"hdoor", "hsell", "group"}, account : Accounts]

\* Each account owns at most one house and is in at most one group and
\* guild at the start; nobody is logged in.
Init ==
    /\ resident = {}
    /\ houseOwner \in {f \in [Houses -> Accounts \cup {NoID}] :
                          \A h1, h2 \in Houses : h1 # h2 /\ f[h1] # NoID => f[h1] # f[h2]}
    /\ groupAlive = {} /\ members = [g \in Groups |-> {}]
    /\ guildMembers \in {f \in [Guilds -> SUBSET Accounts] :
                            \A g1, g2 \in Guilds : g1 # g2 => f[g1] \cap f[g2] = {}}
    /\ house = [a \in Accounts |-> NoID]
    /\ group = [a \in Accounts |-> NoID]
    /\ guild = [a \in Accounts |-> NoID]
    /\ misuse = {}

\* First element, in ID order, of a set of IDs; NoID when it is empty.
FirstID(S) == IF S = {} THEN NoID ELSE CHOOSE x \in S : \A y \in S : x <= y

\* Mutation: the scan compares against the wrong field and takes the first
\* house that has any owner.
ReinitializeHouseAnyOwner(owners, a) == FirstID({h \in Houses : owners[h] # NoID})

\* ReinitializeHouse: the first house whose owner is the account, or none.
ReinitializeHouse(owners, a) == FirstID({h \in Houses : owners[h] = a})

\* ReinitializeGroup: the first group whose account set holds the account.
ReinitializeGroup(alive, accs, a) == FirstID({g \in alive : a \in accs[g]})

\* ReinitializeGuild(SetNull): the first guild with non-null member data for
\* the account; none when SetNull.
ReinitializeGuild(gm, a, SetNull) ==
    IF SetNull THEN NoID ELSE FirstID({g \in Guilds : a \in gm[g]})

\* Mutation: Init forgets to re-resolve the group.
InitNoGroup(a) ==
    /\ house' = [house EXCEPT ![a] = ReinitializeHouse(houseOwner, a)]
    /\ guild' = [guild EXCEPT ![a] = ReinitializeGuild(guildMembers, a, FALSE)]
    /\ UNCHANGED group

\* CAccountData::Init, once the account row is loaded: the scalar fields
\* (AccountProgress) and then the three resolvers.
Init_Account(a) ==
    /\ house' = [house EXCEPT ![a] = ReinitializeHouse(houseOwner, a)]
    /\ group' = [group EXCEPT ![a] = ReinitializeGroup(groupAlive, members, a)]
    /\ guild' = [guild EXCEPT ![a] = ReinitializeGuild(guildMembers, a, FALSE)]

Login(a) ==
    /\ a \notin resident
    /\ resident' = resident \cup {a}
    /\ Init_Account(a)
    /\ UNCHANGED <<houseOwner, groupAlive, members, guildMembers, misuse>>

Logout(a) ==
    /\ a \in resident
    /\ resident' = resident \ {a}
    /\ UNCHANGED <<houseOwner, groupAlive, members, guildMembers, house, group,
                   guild, misuse>>

(***************************************************************************)
(* Mutators outside src/.  Those the commands call re-initialize the       *)
(* caller only if MutatorsReinitialize; a mutation by another player       *)
(* re-initializes the resident accounts it affects.                        *)
(***************************************************************************)
\* Re-initialize the group of the accounts in S against the new collection.
RefreshGroup(S) ==
    group' = [a \in Accounts |->
                IF a \in S THEN ReinitializeGroup(groupAlive', members', a) ELSE group[a]]

\* The account's record in misuse when the relation it acts on is not its own.
Misuse(cmd, a, own) == misuse' = IF own THEN misuse ELSE misuse \cup {[cmd |-> cmd, account |-> a]}

\* CHouseData::Sell: the house has no owner any more.
Sell(a, h) ==
    /\ houseOwner' = [houseOwner EXCEPT ![h] = NoID]
    /\ house' = IF MutatorsReinitialize
                THEN [house EXCEPT ![a] = ReinitializeHouse(houseOwner', a)]
                ELSE house

\* GroupData::Remove: the account leaves; an empty group is erased.
Remove(g, a) ==
    /\ members' = [members EXCEPT ![g] = @ \ {a}]
    /\ groupAlive' = IF members'[g] = {} THEN groupAlive \ {g} ELSE groupAlive

\* CGroupManager::CreateGroup: a new group with the account as its member.
CreateGroup(a) ==
    \E g \in Groups \ groupAlive :
        /\ groupAlive' = groupAlive \cup {g}
        /\ members' = [members EXCEPT ![g] = {a}]
        /\ IF MutatorsReinitialize THEN RefreshGroup({a}) ELSE UNCHANGED group

\* The account buys a free house from the house menu.
BuyHouse(a, h) ==
    /\ a \in resident /\ house[a] = NoID /\ houseOwner[h] = NoID
    /\ houseOwner' = [houseOwner EXCEPT ![h] = a]
    /\ house' = [house EXCEPT ![a] = ReinitializeHouse(houseOwner', a)]
    /\ UNCHANGED <<resident, groupAlive, members, guildMembers, group, guild, misuse>>

\* The account accepts an invitation into a group from the group menu.
JoinGroup(a, g) ==
    /\ a \in resident /\ g \in groupAlive /\ a \notin members[g] /\ group[a] = NoID
    /\ members' = [members EXCEPT ![g] = @ \cup {a}]
    /\ UNCHANGED <<resident, houseOwner, groupAlive, guildMembers, house, guild, misuse>>
    /\ RefreshGroup({a})

\* Another member removes the account from the group, online or not.
Kick(g, a) ==
    /\ g \in groupAlive /\ a \in members[g] /\ members[g] # {a}
    /\ Remove(g, a)
    /\ RefreshGroup({a} \cap resident)
    /\ UNCHANGED <<resident, houseOwner, guildMembers, house, guild, misuse>>

\* Guild membership changes by the guild's own menus: the account joins a
\* guild, or leaves (ReinitializeGuild(true)).
GuildJoin(a, g) ==
    /\ \A x \in Guilds : a \notin guildMembers[x]
    /\ guildMembers' = [guildMembers EXCEPT ![g] = @ \cup {a}]
    /\ guild' = IF a \in resident
                THEN [guild EXCEPT ![a] = ReinitializeGuild(guildMembers', a, FALSE)]
                ELSE guild
    /\ UNCHANGED <<resident, houseOwner, groupAlive, members, house, group, misuse>>

GuildLeave(a, g) ==
    /\ a \in guildMembers[g]
    /\ guildMembers' = [guildMembers EXCEPT ![g] = @ \ {a}]
    /\ guild' = IF a \in resident THEN [guild EXCEPT ![a] = ReinitializeGuild(guildMembers', a, TRUE)]
                ELSE guild
    /\ UNCHANGED <<resident, houseOwner, groupAlive, members, house, group, misuse>>

(***************************************************************************)
(* The chat commands of CCommandProcessor that use the cached references.  *)
(* Their branches that only chat (no house, not in a group, usage) change  *)
(* nothing and are left out.                                               *)
(***************************************************************************)
\* /hdoor list|open_all|close_all|reverse_all|reverse: the doors of the
\* cached house.
ConChatDoorHouse(a) ==
    /\ a \in resident /\ house[a] # NoID
    /\ Misuse("hdoor", a, houseOwner[house[a]] = a)
    /\ UNCHANGED <<resident, houseOwner, groupAlive, members, guildMembers, house,
                   group, guild>>

\* /hsell: pHouse->Sell() on the cached house.
ConChatSellHouse(a) ==
    /\ a \in resident /\ house[a] # NoID
    /\ Misuse("hsell", a, houseOwner[house[a]] = a)
    /\ Sell(a, house[a])
    /\ UNCHANGED <<resident, groupAlive, members, guildMembers, group, guild>>

\* The cached group is the account's own: still resident and holding it.
OwnGroup(a) == group[a] \in groupAlive /\ a \in members[group[a]]

\* /group create | leave | list.  create calls CreateGroup without looking
\* at the cached group; leave and list act on the cached group.  A leave
\* through a reference to an erased group is undefined; it is recorded as
\* misuse and changes nothing else here.
ConGroup(a, elem) ==
    /\ a \in resident
    /\ \/ /\ elem = "create"
          /\ CreateGroup(a)
          /\ UNCHANGED misuse
       \/ /\ elem = "leave" /\ group[a] # NoID
          /\ Misuse("group", a, OwnGroup(a))
          /\ IF group[a] \in groupAlive
             THEN /\ Remove(group[a], a)
                  /\ IF MutatorsReinitialize THEN RefreshGroup({a}) ELSE UNCHANGED group
             ELSE UNCHANGED <<groupAlive, members, group>>
       \/ /\ elem = "list" /\ group[a] # NoID
          /\ Misuse("group", a, OwnGroup(a))
          /\ UNCHANGED <<groupAlive, members, group>>
    /\ UNCHANGED <<resident, houseOwner, guildMembers, house, guild>>

Next ==
    \/ \E a \in Accounts :
          \/ Login(a) \/ Logout(a)
          \/ ConChatDoorHouse(a) \/ ConChatSellHouse(a)
          \/ \E e \in {"create", "leave", "list"} : ConGroup(a, e)
          \/ \E h \in Houses : BuyHouse(a, h)
          \/ \E g \in Groups : JoinGroup(a, g) \/ Kick(g, a)
          \/ \E g \in Guilds : GuildJoin(a, g) \/ GuildLeave(a, g)

Spec == Init /\ [][Next]_vars

(***************************************************************************)
(* Properties                                                              *)
(***************************************************************************)

\* spec.md 4.6 and 8: the references are a materialized view of the
\* collections.  For every logged-in account the cached house, group and
\* guild are what the resolvers would find now, across logins, joins, kicks
\* by other members while offline, sells and group changes.
RelationsFresh ==
    \A a \in resident :
        /\ house[a] = ReinitializeHouse(houseOwner, a)
        /\ group[a] = ReinitializeGroup(groupAlive, members, a)
        /\ guild[a] = ReinitializeGuild(guildMembers, a, FALSE)

\* /hdoor, /hsell and /group leave|list only ever act on the house the
\* account owns and on a group that exists and holds the account.
CommandsOnOwnRelations ==
    misuse = {}

=============================================================================
