------------------------------ MODULE SelfMap -------------------------------
(***************************************************************************)
(* The window at UVPT: env_setup_vm makes a directory its own table there  *)
(* (lib/env.c), so do_refill, walking two levels as always, finds the      *)
(* directory and its tables as pages a program can look at.  The system of *)
(* PmapSys, with programs that access the window, too.                     *)
(*                                                                         *)
(* The walk for an address <<UVPT, i>> takes uvpt as the directory entry   *)
(* and word i of the directory as the table entry.  Where that is missing, *)
(* pageout makes a page and page_insert stores it through the self-map: it *)
(* becomes a page table.                                                   *)
(*                                                                         *)
(* Left out are the windows on the tables boot_pgdir has above UTOP, whose *)
(* entries have no PTE_R, and on the word at VPT.                          *)
(***************************************************************************)
EXTENDS PmapSys

CONSTANT UVPT       \* the directory's index for address UVPT

ASSUME SelfMapAssumption == UVPT \notin Idx

WindowVa == {UVPT} \X (Idx \cup {UVPT})

\* Word i of directory d, also at UVPT.
dword(d, i) == IF i = UVPT THEN uvpt[d] ELSE m.mem[d][i]

\* pgdir_walk: the slot in the table the self-map names, and what is there.
window_slot(va)   == <<uvpt[mCONTEXT].pg, PTX(va)>>
window_lookup(va) == dword(window_slot(va)[1], PTX(va))

\* Only programs use the window; before the first one runs there is none.
WindowMiss ==
  \E va \in WindowVa :
    /\ Ready /\ mCONTEXT # boot_pgdir /\ TlbHit(m, va) = {}
    /\ fault' = va
    /\ UNCHANGED <<m, dirs, uvpt, fresh, mCONTEXT, held, pinned, halted>>

\* do_refill, both levels valid.
WindowLoad ==
  /\ fault \in WindowVa /\ ~halted
  /\ window_lookup(fault) # Zero
  /\ \E old \in {{}} \cup {{e} : e \in m.tlb} :
       /\ Cardinality(m.tlb \ old) < TlbSize
       /\ LET w == window_lookup(fault)
          IN  m' = tlbwr(m, old, [va |-> fault, asid |-> m.asid, pg |-> w.pg,
                                  wr |-> writable(w.perm)])
  /\ fault' = NoFault
  /\ UNCHANGED <<dirs, uvpt, fresh, mCONTEXT, held, pinned, halted>>

slip_WindowPageout ==                        \* no pp_ref++ in page_insert
  /\ fault \in WindowVa /\ ~halted
  /\ window_lookup(fault) = Zero
  /\ IF page_alloc_fails(m)
     THEN halted' = TRUE /\ UNCHANGED <<m, pinned>>
     ELSE LET p == page_alloc_pp(m)
              a == tlb_invalidate(page_incref(page_alloc(m), p), fault)
          IN  /\ m' = store(a, window_slot(fault), [pg |-> p, perm |-> {"PTE_R"}])
              /\ pinned' = pinned \cup {p}
              /\ UNCHANGED halted
  /\ UNCHANGED <<dirs, uvpt, fresh, mCONTEXT, held, fault>>

\* do_refill, the second level missing.  UVPT lies above what pageout refuses;
\* page_insert finds the slot at once, so it cannot fail.
WindowPageout ==
  /\ fault \in WindowVa /\ ~halted
  /\ window_lookup(fault) = Zero
  /\ IF page_alloc_fails(m)
     THEN halted' = TRUE /\ UNCHANGED <<m, pinned>>
     ELSE LET p == page_alloc_pp(m)
              a == tlb_invalidate(page_incref(page_alloc(m), p), fault)
          IN  /\ m' = page_incref(store(a, window_slot(fault), [pg |-> p, perm |-> {"PTE_R"}]), p)
              /\ pinned' = pinned \cup {p}
              /\ UNCHANGED halted
  /\ UNCHANGED <<dirs, uvpt, fresh, mCONTEXT, held, fault>>

SelfMapNext ==
  \/ fault \notin WindowVa /\ Next
  \/ WindowMiss \/ WindowLoad \/ WindowPageout
  \/ PanicLoop

SelfMapSpec == Init /\ [][SelfMapNext]_vars
-----------------------------------------------------------------------------
\* What an environment sees through the window are its own directory and its
\* own tables as they are now, also when others ran in between and entries were
\* made or refilled meanwhile.
WindowTrue ==
  \A e \in m.tlb : PDX(e.va) = UVPT =>
    \E d \in dirs \ {boot_pgdir} :
      /\ e.asid = Asid(d)
      /\ e.pg = IF PTX(e.va) = UVPT THEN d ELSE m.mem[d][PTX(e.va)].pg
      /\ e.pg \in {d} \cup tables(m, {d})
=============================================================================
