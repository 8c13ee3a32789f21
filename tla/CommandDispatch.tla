--------------------------- MODULE CommandDispatch ---------------------------
(***************************************************************************)
(* Chat command dispatch, CCommandProcessor                               *)
(* (src/src/game/server/mmocore/CommandProcessor.cpp): the command table  *)
(* registered by the constructor, ChatCmd's token lookup and usage reply, *)
(* and every chat handler's guards and branches, for one client.          *)
(*                                                                         *)
(* A chat line is "/" followed by a token and words.  Words are a small   *)
(* set of model strings standing for the classes the handlers tell apart; *)
(* argument parsing belongs to the console (not under src/) and is        *)
(* modelled from spec.md 4.5 and 6.  What a handler hands to another      *)
(* component (login, guild creation, item use, ...) is recorded as the    *)
(* line's outcome; the house doors and the world are kept as state.       *)
(***************************************************************************)
EXTENDS Naturals, Sequences, TLC

CONSTANTS
    Words,       \* words a player types
    WordLen(_),  \* length of a word in characters
    Numbers,     \* the words that are integers
    StartsWith(_, _), \* StartsWith(w, k): word w begins with k
    DoorIDs,     \* number words of the doors of the player's house
    KnownIDs,    \* number words that are item and skill ids
    SecondWords  \* words that follow a first word (ids, names)

\* The chat commands registered by CCommandProcessor::CCommandProcessor
\* (without CONF_DISCORD): name |-> parameter list.  "s" string, "i"
\* integer, "r" rest of the line; opt marks a "?" parameter.
P(t) == [type |-> t, opt |-> FALSE]
O(t) == [type |-> t, opt |-> TRUE]
Commands ==
    [c \in {"login", "register"} |-> <<P("s"), P("s")>>] @@
    [c \in {"gexit", "hsell", "pos", "tutorial", "cmdlist", "help", "rules"} |-> <<>>] @@
    [c \in {"gcreate", "voucher", "coupon"} |-> <<P("r")>>] @@
    [c \in {"sound", "useitem", "useskill"} |-> <<P("i")>>] @@
    ("hdoor" :> <<O("s"), O("i")>>) @@
    ("effect" :> <<P("s"), P("i")>>) @@
    ("group" :> <<O("s"), O("s")>>)

Tokens == DOMAIN Commands \cup {"nosuch"}
\* A line: a token and at most two words, the second one from SecondWords.
Lines == [token : Tokens,
          args : {<<>>} \cup {<<w>> : w \in Words}
                 \cup {<<w, v>> : w \in Words, v \in SecondWords}]

\* Text of the rest of the line from word i on (its length is what a "r"
\* parameter's handler checks).
RECURSIVE RestLen(_, _)
RestLen(ws, i) ==
    IF i > Len(ws) THEN 0
    ELSE WordLen(ws[i]) + (IF i < Len(ws) THEN 1 ELSE 0) + RestLen(ws, i + 1)

(***************************************************************************)
(* The console's argument parser (spec.md 4.5): walks the parameter list; *)
(* a missing required value is an error, an "i" value must be an integer, *)
(* "r" takes the rest of the line.  Returns TRUE when the line parses.    *)
(***************************************************************************)
RECURSIVE ParseArgs(_, _, _)
ParseArgs(ps, ws, i) ==
    IF i > Len(ps) THEN TRUE
    ELSE IF i > Len(ws) THEN ps[i].opt /\ ParseArgs(ps, ws, i + 1)
    ELSE IF ps[i].type = "r" THEN TRUE
    ELSE (ps[i].type = "i" => ws[i] \in Numbers) /\ ParseArgs(ps, ws, i + 1)

\* pResult->GetString / GetInteger of a missing argument.
Arg(ws, i) == IF i <= Len(ws) THEN ws[i] ELSE "none"

\* The chat handlers compare their element word by prefix:
\* pElem.compare(0, Len(k), k) = 0, i.e. the word starts with k.
Matches(w, k) == StartsWith(w, k)

VARIABLES
    ctx,     \* the issuing client: authed (account), admin (server auth),
             \* hasChar, house, guild, group, tutorial (in TUTORIAL_WORLD_ID)
    doors,   \* doors[n]: door n of the player's house is closed
    last     \* observer: token of the last line, whether the client was
             \* logged in, the outcome

vars == <<ctx, doors, last>>

CtxFields == {"authed", "admin", "hasChar", "house", "guild", "group", "tutorial"}
Contexts == [CtxFields -> BOOLEAN]

Outcomes ==
    {"None", "NotFound", "Usage", "Ignored", "Reply", "LoginAccount",
     "RegisterAccount", "GuildCreate", "list", "open_all", "close_all",
     "reverse_all", "reverse", "SellHouse", "CreateSound", "GiveEffect",
     "GroupCreate", "GroupLeave", "GroupList", "UseItem", "UseSkill",
     "UseVoucher", "ChangeWorld"}

TypeOK ==
    /\ ctx \in Contexts
    /\ doors \in [DoorIDs -> BOOLEAN]
    /\ last \in [token : Tokens, authed : BOOLEAN, out : Outcomes]

(***************************************************************************)
(* The chat handlers.  Each yields the outcome of the line; a plain        *)
(* "return" on a failed guard is "Ignored", a chat reply is "Reply".      *)
(* Every handler first fetches the player of the client's world, which    *)
(* exists for a client that chats.                                        *)
(***************************************************************************)
ConChatLogin(ws) ==
    IF ctx.authed THEN "Reply" ELSE "LoginAccount"

ConChatRegister(ws) ==
    IF ctx.authed THEN "Reply" ELSE "RegisterAccount"

\* The call to ExitGuild is commented out: the command does nothing.
ConChatGuildExit(ws) == "Ignored"

\* The name is copied into char[16] first; lengths past 15 still fail > 8.
ConChatGuildCreate(ws) ==
    CASE ~ctx.authed \/ ctx.guild                  -> "Ignored"
      [] RestLen(ws, 1) > 8 \/ RestLen(ws, 1) < 3   -> "Reply"
      [] OTHER                                     -> "GuildCreate"

\* /hdoor: list, open_all, close_all, reverse_all, then reverse <number>,
\* each matched by prefix in this order; anything else prints the help.
ConChatDoorHouse(ws) ==
    LET e == Arg(ws, 1) IN
    CASE ~ctx.authed                                      -> "Ignored"
      [] ~ctx.house                                       -> "Reply"
      [] Matches(e, "list")                               -> "list"
      [] Matches(e, "open_all")                           -> "open_all"
      [] Matches(e, "close_all")                          -> "close_all"
      [] Matches(e, "reverse_all")                        -> "reverse_all"
      [] Matches(e, "reverse") /\ Arg(ws, 2) \notin DoorIDs -> "Reply"
      [] Matches(e, "reverse")                            -> "reverse"
      [] OTHER                                            -> "Reply"

\* What the house's CHouseDoorsController does for each /hdoor outcome.
DoorsAfter(ws, out) ==
    CASE out = "open_all"    -> [n \in DoorIDs |-> FALSE]
      [] out = "close_all"   -> [n \in DoorIDs |-> TRUE]
      [] out = "reverse_all" -> [n \in DoorIDs |-> ~doors[n]]
      [] out = "reverse"     -> [doors EXCEPT ![Arg(ws, 2)] = ~@]
      [] OTHER               -> doors

ConChatSellHouse(ws) ==
    CASE ~ctx.authed -> "Ignored"
      [] ~ctx.house  -> "Reply"
      [] OTHER       -> "SellHouse"

\* pos and sound check the server's (admin) authentication, not the account.
ConChatPosition(ws) ==
    IF ~ctx.hasChar \/ ~ctx.admin THEN "Ignored" ELSE "Reply"

ConChatSound(ws) ==
    IF ~ctx.hasChar \/ ~ctx.admin THEN "Ignored" ELSE "CreateSound"

ConChatGiveEffect(ws) ==
    IF ctx.authed /\ ctx.admin THEN "GiveEffect" ELSE "Ignored"

\* GetPlayer(ClientID, true): only a logged-in player.  "create" does not
\* look at the player's current group.
ConGroup(ws) ==
    LET e == Arg(ws, 1) IN
    CASE ~ctx.authed                                  -> "Ignored"
      [] Matches(e, "create")                         -> "GroupCreate"
      [] Matches(e, "leave") /\ ~ctx.group            -> "Reply"
      [] Matches(e, "leave")                          -> "GroupLeave"
      [] Matches(e, "list") /\ ~ctx.group             -> "Reply"
      [] Matches(e, "list")                           -> "GroupList"
      [] OTHER                                        -> "Reply"

\* Mutation: /useitem without the IsAuthed check.
ConChatUseItemNoLogin(ws) ==
    IF Arg(ws, 1) \notin KnownIDs THEN "Reply" ELSE "UseItem"

\* useitem / useskill: the id must be a key of the item (skill) descriptions.
ConChatUseItem(ws) ==
    CASE ~ctx.authed                  -> "Ignored"
      [] Arg(ws, 1) \notin KnownIDs    -> "Reply"
      [] OTHER                        -> "UseItem"

ConChatUseSkill(ws) ==
    CASE ~ctx.authed                  -> "Ignored"
      [] Arg(ws, 1) \notin KnownIDs    -> "Reply"
      [] OTHER                        -> "UseSkill"

\* An "r" parameter always yields exactly one argument.
ConChatVoucher(ws) ==
    IF ~ctx.authed THEN "Ignored" ELSE "UseVoucher"

ConChatTutorial(ws) ==
    CASE ~ctx.authed  -> "Ignored"
      [] ctx.tutorial -> "Reply"
      [] OTHER        -> "ChangeWorld"

ConChatCmdList(ws) == "Reply"
ConChatRules(ws)   == "Reply"

\* The handler bound to each name.
Handle(c, ws) ==
    CASE c = "login"    -> ConChatLogin(ws)
      [] c = "register" -> ConChatRegister(ws)
      [] c = "gexit"    -> ConChatGuildExit(ws)
      [] c = "gcreate"  -> ConChatGuildCreate(ws)
      [] c = "hdoor"    -> ConChatDoorHouse(ws)
      [] c = "hsell"    -> ConChatSellHouse(ws)
      [] c = "pos"      -> ConChatPosition(ws)
      [] c = "sound"    -> ConChatSound(ws)
      [] c = "effect"   -> ConChatGiveEffect(ws)
      [] c = "group"    -> ConGroup(ws)
      [] c = "useitem"  -> ConChatUseItem(ws)
      [] c = "useskill" -> ConChatUseSkill(ws)
      [] c \in {"voucher", "coupon"} -> ConChatVoucher(ws)
      [] c = "tutorial" -> ConChatTutorial(ws)
      [] c \in {"cmdlist", "help"}   -> ConChatCmdList(ws)
      [] c = "rules"    -> ConChatRules(ws)

\* Mutation: a parse error is not reported (ErrorArgs read as 0) and the
\* handler runs on the malformed line.
DispatchOutcomeNoUsage(l) ==
    CASE l.token \notin DOMAIN Commands                  -> "NotFound"
      [] OTHER                                           -> Handle(l.token, l.args)

\* ChatCmd: look the token up among chat commands; run the line through the
\* console, and answer a parse error with the usage; else "not found".
DispatchOutcome(l) ==
    CASE l.token \notin DOMAIN Commands                  -> "NotFound"
      [] ~ParseArgs(Commands[l.token], l.args, 1)        -> "Usage"
      [] OTHER                                           -> Handle(l.token, l.args)

ChatCmd(l) ==
    LET out == DispatchOutcome(l) IN
    /\ last' = [token |-> l.token, authed |-> ctx.authed, out |-> out]
    /\ doors' = IF l.token = "hdoor" THEN DoorsAfter(l.args, out) ELSE doors
    /\ ctx' = IF out = "ChangeWorld" THEN [ctx EXCEPT !.tutorial = TRUE] ELSE ctx

\* The rest of the game changes one fact about the client between lines
\* (login, admin login, death, buying a house, joining a guild, ...).
ChangeContext(f) ==
    /\ ctx' = [ctx EXCEPT ![f] = ~@]
    /\ UNCHANGED <<doors, last>>

Init ==
    /\ ctx \in Contexts
    /\ doors \in [DoorIDs -> BOOLEAN]
    /\ last = [token |-> "nosuch", authed |-> FALSE, out |-> "None"]

Next ==
    \/ \E l \in Lines : ChatCmd(l)
    \/ \E f \in CtxFields : ChangeContext(f)

Spec == Init /\ [][Next]_vars

(***************************************************************************)
(* Properties                                                              *)
(***************************************************************************)

\* Outcomes that act on the player's account data.
AccountEffects ==
    {"GuildCreate", "list", "open_all", "close_all", "reverse_all", "reverse",
     "SellHouse", "GroupCreate", "GroupLeave", "GroupList", "UseItem",
     "UseSkill", "UseVoucher", "ChangeWorld", "GiveEffect"}

\* spec.md 4.5: the dispatcher does not authorise, so each handler must: no
\* line acts on account data unless the client is logged in, and login or
\* registration is only started for a client that is not.
HandlersCheckLogin ==
    /\ last.out \in AccountEffects => last.authed
    /\ last.out \in {"LoginAccount", "RegisterAccount"} => ~last.authed

=============================================================================
