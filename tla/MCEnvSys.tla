------------------------------ MODULE MCEnvSys ------------------------------
(***************************************************************************)
(* Two environments over five pages: enough for two directories, a table   *)
(* each, and a page both map, at the one address the kernel maps pages at. *)
(***************************************************************************)
EXTENDS EnvSys

MCUserVa    == {<<1, 1>>}
MCPerms     == {{"PTE_R"}}
MCUserWords == {[pg |-> npage - 1, perm |-> {"PTE_R"}]}
=============================================================================
