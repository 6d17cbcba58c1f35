------------------------------ MODULE PmapSys -------------------------------
(***************************************************************************)
(* The memory manager at work: the page allocator and the page tables of   *)
(* Pmap under the calls its clients make, the refill handler, the TLB and  *)
(* the loads and stores of the running program.                            *)
(*                                                                         *)
(* The kernel runs with interrupts off, so a call is one step.  The refill *)
(* handler is a loop (`j 1b' in do_refill), and one turn of it is a step:  *)
(* `fault' holds the address it works for, and no client runs meanwhile.   *)
(*                                                                         *)
(* The clients keep the rules the code of lib/env.c keeps: a page is       *)
(* inserted or freed by whoever allocated it or while it is mapped, a page *)
(* of tables is touched through pmap.c only, and the tables edited are the *)
(* current ones or those of an environment that has not run yet.  Programs *)
(* store below UTOP only: what is mapped above (the self-map uvpt here,    *)
(* `pages' and `envs' in BootMem) is writable, and nothing would survive a *)
(* store there.  SelfMap has what programs that only look there do.        *)
(***************************************************************************)
EXTENDS Pmap

CONSTANTS
  NENV,       \* how many environments there may be
  TlbSize,    \* entries of the TLB
  UserVa,     \* addresses the kernel maps pages at
  Perms,      \* permissions it maps them with
  LowVa,      \* addresses below 0x10000: pageout refuses them
  EnvZone,    \* addresses above 0x7f400000 no boot segment maps: refused, too
  UserIdx,    \* where in their pages programs write ...
  UserWords,  \* ... and what
  NoFault     \* no refill in progress

ASSUME PmapSysAssumption ==
  /\ NENV \in Nat /\ TlbSize \in Nat \ {0}
  /\ UserVa \subseteq Va /\ LowVa \subseteq Va /\ EnvZone \subseteq Va
  /\ UserVa \cap (LowVa \cup EnvZone) = {}
  /\ Perms \subseteq SUBSET Flag /\ UserIdx \subseteq Idx /\ UserWords \subseteq Word
  /\ NoFault \notin Va

VARIABLES
  m,          \* page_free_list, pp_ref, memory, TLB and ASID (see Pmap)
  dirs,       \* the page directories: boot_pgdir and the env_pgdir's
  uvpt,       \* the word env_pgdir[PDX(UVPT)] of each env_pgdir
  fresh,      \* those of environments that have not run yet
  mCONTEXT,   \* the directory the refill handler walks
  held,       \* pages a caller got from page_alloc and has not mapped yet
  pinned,     \* pages pageout has counted once more than they are mapped
  fault,      \* the address the refill handler works for, or NoFault
  halted      \* the kernel is in panic's endless loop

vars == <<m, dirs, uvpt, fresh, mCONTEXT, held, pinned, fault, halted>>

boot_pgdir == 1      \* mips_vm_init takes it with `alloc', below freemem
Asid(d)    == IF d = boot_pgdir THEN 0 ELSE d

FreeSet     == {m.free[k] : k \in 1 .. Len(m.free)}
Tables      == tables(m, dirs)
DataPages   == data_pages(m, dirs)
Pointers(p) == pointers(m, dirs, p)

\* RAM when page_init is done.  boot_pgdir maps nothing below UTOP; the pages on
\* the free list are as the simulator leaves them.  Of page 0, which pgdir_walk's
\* slots for missing tables are in, it is an assumption: PTE_V is clear in each of
\* its words, also where code is put there.
boot_ram == [p \in AllPages |-> ZeroPage]

Init ==
  /\ m = [free |-> page_init_free, ref |-> page_init_ref,
          mem |-> boot_ram, tlb |-> {}, asid |-> 0]
  /\ dirs = {boot_pgdir} /\ uvpt = [d \in {} |-> Zero] /\ fresh = {} /\ mCONTEXT = boot_pgdir
  /\ held = {} /\ pinned = {}
  /\ fault = NoFault /\ halted = FALSE

Ready == fault = NoFault /\ ~halted

-----------------------------------------------------------------------------
(***************************************************************************)
(* Calls from the kernel.                                                  *)
(***************************************************************************)

\* page_alloc; with an empty free list it returns -E_NO_MEM and nothing changes.
PageAlloc ==
  /\ Ready /\ ~page_alloc_fails(m)
  /\ m' = page_alloc(m)
  /\ held' = held \cup {page_alloc_pp(m)}
  /\ UNCHANGED <<dirs, uvpt, fresh, mCONTEXT, pinned, fault, halted>>

\* page_free on a page not in use any more, or on one that still is.
PageFree ==
  \E pp \in held \cup DataPages :
    /\ Ready
    /\ m' = page_free(m, pp)
    /\ held' = held \ {pp}
    /\ UNCHANGED <<dirs, uvpt, fresh, mCONTEXT, pinned, fault, halted>>

\* Directories the kernel edits: the current one and those nobody has used.
Editable == fresh \cup {mCONTEXT}

\* page_insert.  The caller does not map a page more often than pp_ref counts.
PageInsert ==
  \E d \in Editable, pp \in held \cup DataPages, va \in UserVa, perm \in Perms :
    /\ Ready
    /\ m.ref[pp] < RefMax
    /\ m' = page_insert(m, d, pp, va, perm)
    /\ held' = IF page_insert_fails(m, d, pp, va) THEN held ELSE held \ {pp}
    /\ UNCHANGED <<dirs, uvpt, fresh, mCONTEXT, pinned, fault, halted>>

PageRemove ==
  \E d \in Editable, va \in UserVa :
    /\ Ready
    /\ m' = page_remove(m, d, va)
    /\ UNCHANGED <<dirs, uvpt, fresh, mCONTEXT, held, pinned, fault, halted>>

slip_EnvSetupVm ==                                        \* PADDR(boot_pgdir)
  /\ Ready /\ Cardinality(dirs) <= NENV
  /\ IF page_alloc_fails(m)
     THEN halted' = TRUE /\ UNCHANGED <<m, dirs, uvpt, fresh>>
     ELSE LET p == page_alloc_pp(m)
          IN  /\ m' = page_incref(page_alloc(m), p)
              /\ dirs' = dirs \cup {p}
              /\ uvpt' = [d \in dirs' \ {boot_pgdir} |->
                            IF d = p THEN [pg |-> boot_pgdir, perm |-> {"PTE_R"}] ELSE uvpt[d]]
              /\ fresh' = fresh \cup {p}
              /\ UNCHANGED halted
  /\ UNCHANGED <<mCONTEXT, held, pinned, fault>>

\* env_setup_vm: a cleared page becomes the directory of a new environment, and
\* its own table at UVPT, with PTE_V and PTE_R.  (The word at VPT has no PTE_V,
\* and the other ones above UTOP are boot_pgdir's.)
EnvSetupVm ==
  /\ Ready /\ Cardinality(dirs) <= NENV
  /\ IF page_alloc_fails(m)
     THEN halted' = TRUE /\ UNCHANGED <<m, dirs, uvpt, fresh>>
     ELSE LET p == page_alloc_pp(m)
          IN  /\ m' = page_incref(page_alloc(m), p)
              /\ dirs' = dirs \cup {p}
              /\ uvpt' = [d \in dirs' \ {boot_pgdir} |->
                            IF d = p THEN [pg |-> p, perm |-> {"PTE_R"}] ELSE uvpt[d]]
              /\ fresh' = fresh \cup {p}
              /\ UNCHANGED halted
  /\ UNCHANGED <<mCONTEXT, held, pinned, fault>>

slip_EnvRun ==                                            \* EntryHi not written
  \E d \in dirs \ {boot_pgdir} :
    /\ Ready
    /\ mCONTEXT' = d
    /\ fresh' = fresh \ {d}
    /\ UNCHANGED <<m, dirs, uvpt, held, pinned, fault, halted>>

\* The part of env_run that changes the address space: lcontext and EntryHi.
EnvRun ==
  \E d \in dirs \ {boot_pgdir} :
    /\ Ready
    /\ mCONTEXT' = d
    /\ m' = [m EXCEPT !.asid = Asid(d)]
    /\ fresh' = fresh \ {d}
    /\ UNCHANGED <<dirs, uvpt, held, pinned, fault, halted>>

-----------------------------------------------------------------------------
(***************************************************************************)
(* The running program and the refill handler.                             *)
(***************************************************************************)

\* An access the TLB cannot translate enters do_refill.
TlbMiss ==
  \E va \in UserVa \cup LowVa \cup EnvZone :
    /\ Ready /\ TlbHit(m, va) = {}
    /\ fault' = va
    /\ UNCHANGED <<m, dirs, uvpt, fresh, mCONTEXT, held, pinned, halted>>

\* A store the TLB allows writes the page the TLB names.
UserStore ==
  \E va \in UserVa, i \in UserIdx, w \in UserWords : \E e \in TlbHit(m, va) :
    /\ Ready /\ e.wr
    /\ m' = store(m, <<e.pg, i>>, w)
    /\ UNCHANGED <<dirs, uvpt, fresh, mCONTEXT, held, pinned, fault, halted>>

\* Both levels are valid: the entry goes into a slot of the TLB.
RefillLoad ==
  /\ fault # NoFault /\ ~halted
  /\ refill_finds(m, mCONTEXT, fault)
  /\ \E old \in {{}} \cup {{e} : e \in m.tlb} :
       /\ Cardinality(m.tlb \ old) < TlbSize
       /\ m' = tlbwr(m, old, refill_entry(m, mCONTEXT, fault))
  /\ fault' = NoFault
  /\ UNCHANGED <<dirs, uvpt, fresh, mCONTEXT, held, pinned, halted>>

\* What stops pageout.  `page_alloc(&p) < 0' compares an unsigned r and is never
\* true; p stays NULL and p->pp_ref++ faults at an address below 0x10000, where
\* the nested pageout panics.
pageout_panics == fault \in LowVa \/ fault \in EnvZone \/ page_alloc_fails(m)

slip_RefillPageout ==                       \* the page goes back when page_insert fails
  /\ fault # NoFault /\ ~halted
  /\ ~refill_finds(m, mCONTEXT, fault)
  /\ IF pageout_panics
     THEN halted' = TRUE /\ UNCHANGED <<m, pinned>>
     ELSE LET p == page_alloc_pp(m)
              a == page_incref(page_alloc(m), p)
          IN  /\ m' = IF page_insert_fails(a, mCONTEXT, p, fault)
                      THEN page_decref(a, p)
                      ELSE page_insert(a, mCONTEXT, p, fault, {"PTE_R"})
              /\ pinned' = IF page_insert_fails(a, mCONTEXT, p, fault) THEN pinned
                           ELSE pinned \cup {p}
              /\ UNCHANGED halted
  /\ UNCHANGED <<dirs, uvpt, fresh, mCONTEXT, held, fault>>

\* pageout, and back to the top of the handler.  page_insert's result is ignored.
RefillPageout ==
  /\ fault # NoFault /\ ~halted
  /\ ~refill_finds(m, mCONTEXT, fault)
  /\ IF pageout_panics
     THEN halted' = TRUE /\ UNCHANGED <<m, pinned>>
     ELSE LET p == page_alloc_pp(m)
          IN  /\ m' = page_insert(page_incref(page_alloc(m), p),
                                  mCONTEXT, p, fault, {"PTE_R"})
              /\ pinned' = pinned \cup {p}
              /\ UNCHANGED halted
  /\ UNCHANGED <<dirs, uvpt, fresh, mCONTEXT, held, fault>>

\* panic ends in for(;;).
PanicLoop == halted /\ UNCHANGED vars

Refill == RefillLoad \/ RefillPageout

Next ==
  \/ PageAlloc \/ PageFree \/ PageInsert \/ PageRemove
  \/ EnvSetupVm \/ EnvRun
  \/ TlbMiss \/ UserStore \/ RefillLoad \/ RefillPageout
  \/ PanicLoop

Spec == Init /\ [][Next]_vars

\* The handler runs with interrupts off and is not preempted.
FairSpec == Spec /\ WF_vars(Refill)
-----------------------------------------------------------------------------
(***************************************************************************)
(* Properties.                                                             *)
(***************************************************************************)

\* Types of the variables: mm/pmap.c:8-19 and the fields of struct Page.
TypeOK ==
  /\ m \in MemState
  /\ dirs \subseteq AllPages /\ uvpt \in [dirs \ {boot_pgdir} -> Pte] /\ fresh \subseteq dirs /\ mCONTEXT \in dirs
  /\ held \subseteq Page /\ pinned \subseteq Page
  /\ fault \in Va \cup {NoFault} /\ halted \in BOOLEAN

\* page_free_list holds each page once, and exactly the pages with a zero
\* pp_ref that no caller of page_alloc is holding: none of them is in use, and
\* none is lost.
FreeListExact ==
  /\ \A j, k \in 1 .. Len(m.free) : m.free[j] = m.free[k] => j = k
  /\ \A p \in Page : p \in FreeSet <=> m.ref[p] = 0 /\ p \notin held

\* pp_ref is the number of valid entries below UTOP that name the page, plus one
\* for a directory (env_setup_vm counts its pointer env_pgdir, and not the entry
\* at UVPT, which names it too), plus the one pageout adds beside page_insert's.
\* pmap.h calls it `the count of pointers (usually in page table entries) to this
\* page': with the last summand it is not, and the page is never free again.
RefCountExact ==
  \A p \in Page :
    m.ref[p] = Cardinality(Pointers(p)) + (IF p \in dirs THEN 1 ELSE 0)
                                        + (IF p \in pinned THEN 1 ELSE 0)

\* What directory d, taken as a table by the self-map, names below UTOP; and d.
Window(d) == {uvpt[d].pg} \cup
             {w.pg : w \in {m.mem[uvpt[d].pg][i] : i \in Idx} \ {Zero}}

\* The directories and tables form a forest: a table hangs off one directory
\* entry, is itself no directory, and is never mapped below UTOP or held by a
\* caller, so no store to an address below UTOP reaches it.  The self-map of
\* env_setup_vm does show them, but each address space its own only.
TablesPrivate ==
  /\ \A t \in Tables : \A r, s \in Pointers(t) : r = s
  /\ Tables \cap (dirs \cup DataPages \cup held) = {}
  /\ DataPages \cap (dirs \cup held) = {}
  /\ dirs \cap held = {}
  /\ \A c, d \in dirs \ {boot_pgdir} : c # d => Window(c) \cap Window(d) = {}
  /\ \A d \in dirs \ {boot_pgdir} : Window(d) = {d} \cup tables(m, {d})

\* An entry of the TLB is what the tables of its address space say now: same
\* page, and writable only where a store is allowed (PTE_R and not PTE_COW).
TlbCoherent ==
  \A e \in m.tlb : \E d \in dirs :
    /\ e.asid = Asid(d)
    /\ refill_finds(m, d, e.va)
    /\ LET w == page_lookup(m, d, e.va)
       IN  e.pg = w.pg /\ (e.wr <=> "PTE_R" \in w.perm /\ "PTE_COW" \notin w.perm)

\* A page page_alloc handed out is all zero until it is mapped, whatever the
\* programs that used it before left in it.  Page 0 stays as it was assumed to
\* be: no entry is ever stored through a slot pgdir_walk made of a missing table.
AllocatedPagesClear ==
  /\ \A p \in held : m.mem[p] = ZeroPage
  /\ \A i \in Idx : m.mem[LowPage][i] = Zero

\* The retry loop of do_refill ends: the address gets into the TLB or the
\* kernel panics, also when pageout could not insert the page it allocated.
RefillEnds == (fault # NoFault) ~> (fault = NoFault \/ halted)
-----------------------------------------------------------------------------
(***************************************************************************)
(* The refinement.                                                         *)
(***************************************************************************)

\* What the tables of directory d make of an address.
Translation(d, va) == IF refill_finds(m, d, va) THEN page_lookup(m, d, va) ELSE Zero
writable(perm)     == "PTE_R" \in perm /\ "PTE_COW" \notin perm

Abstract == INSTANCE AddrSpace WITH
  Root <- boot_pgdir, Perm <- SUBSET Flag, Writable <- writable, Clear <- Zero,
  FaultPerm <- {"PTE_R"}, Unmapped <- Zero,
  spaces  <- [d \in dirs |-> [va \in Va |-> Translation(d, va)]],
  current <- mCONTEXT,
  owned   <- held,
  content <- [p \in held \cup DataPages |-> m.mem[p]],
  stopped <- halted

\* pmap.c implements the promise of AddrSpace: an insertion happens whole or
\* (-E_NO_MEM) not at all, nothing but the named address changes, no page in use
\* is handed out again, and a store through the TLB is a store through the map.
ImplementsAddrSpace == Abstract!ASpec
=============================================================================
