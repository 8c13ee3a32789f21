------------------------- MODULE MC_CommandDispatch -------------------------
(***************************************************************************)
(* Words for CommandDispatch: the element words of /hdoor and /group, one *)
(* word each handler's prefix match takes although it is longer, short and *)
(* names around the 3-8 limit of /gcreate ("xy" 2, "1 1" 3, "longname" 8,*)
(* "close_all" 9 characters), a door/item id and a number that is neither.*)
(***************************************************************************)
EXTENDS CommandDispatch

MC_Words ==
    {"list", "listing", "open_all", "close_all", "reverse_all", "reverse",
     "create", "leave", "xy", "longname", "1", "99"}

MC_WordLen(w) ==
    CASE w = "list" -> 4 [] w = "listing" -> 7 [] w = "open_all" -> 8
      [] w = "close_all" -> 9 [] w = "reverse_all" -> 11 [] w = "reverse" -> 7
      [] w = "create" -> 6 [] w = "leave" -> 5 [] w = "xy" -> 2
      [] w = "longname" -> 8 [] w = "1" -> 1 [] w = "99" -> 2

\* Which of the handlers' keywords each word begins with.
MC_Prefixes ==
    {<<"list", "list">>, <<"listing", "list">>, <<"open_all", "open_all">>,
     <<"close_all", "close_all">>, <<"reverse_all", "reverse_all">>,
     <<"reverse_all", "reverse">>, <<"reverse", "reverse">>,
     <<"create", "create">>, <<"leave", "leave">>}
MC_StartsWith(w, k) == <<w, k>> \in MC_Prefixes

MC_Numbers  == {"1", "99"}
MC_DoorIDs  == {"1"}
MC_KnownIDs == {"1"}
MC_SecondWords == {"1", "99", "xy"}
=============================================================================
