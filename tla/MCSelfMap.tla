----------------------------- MODULE MCSelfMap ------------------------------
(***************************************************************************)
(* Two environments that look at their own tables while the kernel maps    *)
(* and unmaps pages at two addresses, behind two directory entries.        *)
(***************************************************************************)
EXTENDS SelfMap

MCUserVa    == {<<0, 1>>, <<1, 0>>}
MCPerms     == {{"PTE_R"}}
MCUserWords == {[pg |-> npage - 1, perm |-> {"PTE_R"}]}
=============================================================================
