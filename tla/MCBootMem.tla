----------------------------- MODULE MCBootMem ------------------------------
(***************************************************************************)
(* Machines for BootMem: too small for the chunks up to roomy, an image    *)
(* that ends on a page and at every word of one, arrays of full pages, of  *)
(* a table's worth of pages, and in between.                               *)
(***************************************************************************)
EXTENDS BootMem

MCMachines ==
  [npage : 6 .. 16, end : 1 .. 9, envs : {1, 4, 7, 16}]
=============================================================================
