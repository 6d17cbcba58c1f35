------------------------------- MODULE MCTrap -------------------------------
(***************************************************************************)
(* Two environments, made one after the other, of four ASIDs.              *)
(***************************************************************************)
EXTENDS Trap

MCEnvNo == [e \in Env |-> e]
=============================================================================
