----------------------------- MODULE MCPmapSys ------------------------------
(***************************************************************************)
(* A small instance of PmapSys: two address spaces, three mappable pages   *)
(* of addresses behind two directory entries, one refused address of each  *)
(* kind.                                                                   *)
(***************************************************************************)
EXTENDS PmapSys

MCUserVa    == {<<0, 1>>, <<1, 0>>}
MCLowVa     == {<<0, 0>>}
MCEnvZone   == {<<1, 1>>}
MCPerms     == {{"PTE_R"}, {"PTE_R", "PTE_COW"}}
\* A word that would be a valid entry if it were read as one.
MCUserWords == {[pg |-> npage - 1, perm |-> {"PTE_R"}]}
=============================================================================
