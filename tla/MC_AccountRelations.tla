------------------------- MODULE MC_AccountRelations -------------------------
(* Model-checking instance of AccountRelations: two accounts, two houses  *)
(* (so a scan can find the wrong one), two group slots (so a second group  *)
(* can be created while the first lives) and one guild.                   *)
EXTENDS AccountRelations

MC_Accounts == {1, 2}
MC_Houses == {1, 2}
MC_Groups == {1, 2}
MC_Guilds == {1}

=============================================================================
