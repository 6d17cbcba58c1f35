-------------------------------- MODULE Pmap --------------------------------
(***************************************************************************)
(* The physical page allocator and the two-level page tables of mm/pmap.c, *)
(* one operator per C function.  Each operator takes the memory-management *)
(* state `m' and returns the state the function leaves behind (and, where  *)
(* the function has one, its return value):                                *)
(*                                                                         *)
(*   m.free  page_free_list, as the sequence a traversal visits            *)
(*   m.ref   pages[p].pp_ref, an unsigned 16-bit field                     *)
(*   m.mem   the words of every physical page                              *)
(*   m.tlb   the valid entries of the TLB                                  *)
(*   m.asid  GET_ENV_ASID(curenv->env_id), or 0 while curenv is NULL       *)
(*                                                                         *)
(* A page is named by its physical page number.  A page has as many words  *)
(* as a directory or table has entries; a word with PTE_V clear is Zero.   *)
(* A virtual address is the pair <<PDX(va), PTX(va)>>; the addresses of    *)
(* the model are below UTOP, where every environment has its own tables.   *)
(***************************************************************************)
EXTENDS Integers, Sequences, FiniteSets

CONSTANTS
  npage,     \* number of physical pages
  nboot,     \* PADDR(freemem) / BY2PG when page_init runs: pages the kernel owns
  Idx,       \* indices of a directory, of a table, and of the words of a page
  RefMax,    \* the largest value of the u_short pp_ref (65535)
  Zero       \* a word with PTE_V clear

ASSUME PmapAssumption ==
  /\ npage \in Nat /\ nboot \in Nat /\ 1 < nboot /\ nboot < npage
  /\ IsFiniteSet(Idx)
  /\ RefMax \in Nat /\ 2 < RefMax

AllPages == 0 .. npage - 1
Page     == nboot .. npage - 1       \* the pages page_alloc deals in
LowPage  == 0                        \* the physical page at KADDR(0)

Flag == {"PTE_R", "PTE_COW"}         \* the flags refill and page_insert read
Pte  == [pg : Page, perm : SUBSET Flag]   \* below UTOP every entry names such a page
Word == Pte \cup {Zero}

ASSUME ZeroAssumption == Zero \notin Pte

Va       == Idx \X Idx
TlbEntry == [va : Va, asid : AllPages, pg : Page, wr : BOOLEAN]

\* The type of the state m.
MemState ==
  [free : Seq(Page), ref : [AllPages -> 0 .. RefMax],
   mem : [AllPages -> [Idx -> Word]], tlb : SUBSET TlbEntry, asid : AllPages]

ZeroPage == [i \in Idx |-> Zero]
PDX(va)  == va[1]
PTX(va)  == va[2]

\* pp_ref++ and pp_ref-- on an unsigned 16-bit field.
Inc(n) == IF n = RefMax THEN 0 ELSE n + 1
Dec(n) == IF n = 0 THEN RefMax ELSE n - 1

-----------------------------------------------------------------------------
(***************************************************************************)
(* The free list.                                                          *)
(***************************************************************************)

\* (Operators named slip_... are slips a programmer could make in the operator
\* that follows them; each breaks a property, and no specification uses them.)
slip_page_init_free == [k \in 1 .. npage - nboot + 1 |-> npage + 1 - k]   \* i <= npage
\* page_init inserts nboot .. npage-1 at the head one after the other.
page_init_free == [k \in 1 .. npage - nboot |-> npage - k]
page_init_ref  == [p \in AllPages |-> IF p < nboot THEN 1 ELSE 0]

\* The page LIST_FIRST finds, and the list and page contents after it was
\* removed and cleared.  The caller has to take the reference.
page_alloc_fails(m) == m.free = << >>
page_alloc_pp(m)    == Head(m.free)
slip_page_alloc(m) == [m EXCEPT !.free = Tail(@)]                    \* no bzero
page_alloc(m) ==
  [m EXCEPT !.free = Tail(@), !.mem[page_alloc_pp(m)] = ZeroPage]

slip_page_free(m, pp) == [m EXCEPT !.free = <<pp>> \o @]             \* pp_ref not read
page_free(m, pp) ==
  IF m.ref[pp] # 0 THEN m ELSE [m EXCEPT !.free = <<pp>> \o @]

page_incref(m, pp) == [m EXCEPT !.ref[pp] = Inc(@)]
page_decref(m, pp) == page_free([m EXCEPT !.ref[pp] = Dec(@)], pp)

-----------------------------------------------------------------------------
(***************************************************************************)
(* The TLB.  An entry is tagged with the ASID it was loaded under.         *)
(***************************************************************************)

slip_tlb_invalidate(m, va) == m                                      \* no tlb_out
\* tlb_out: probe for (va, current ASID) and overwrite the entry it finds.
tlb_invalidate(m, va) ==
  [m EXCEPT !.tlb = {e \in @ : ~(e.va = va /\ e.asid = m.asid)}]

TlbHit(m, va) == {e \in m.tlb : e.va = va /\ e.asid = m.asid}

-----------------------------------------------------------------------------
(***************************************************************************)
(* Page tables.  A slot <<t, i>> is the address of word i of page t.       *)
(***************************************************************************)

word(m, slot)       == m.mem[slot[1]][slot[2]]
store(m, slot, w)   == [m EXCEPT !.mem[slot[1]][slot[2]] = w]
pde(m, pgdir, va)   == m.mem[pgdir][PDX(va)]

\* pgdir_walk with create = 0.  When the directory entry is not valid it is a
\* zero word, and the slot returned is in the page at KADDR(0): never NULL.
walk(m, pgdir, va) ==
  <<IF pde(m, pgdir, va) = Zero THEN LowPage ELSE pde(m, pgdir, va).pg, PTX(va)>>

\* pgdir_walk with create = 1: a missing table is taken from the free list.
walk_create_fails(m, pgdir, va) ==
  pde(m, pgdir, va) = Zero /\ page_alloc_fails(m)
walk_create(m, pgdir, va) ==
  IF pde(m, pgdir, va) # Zero THEN m
  ELSE LET pp == page_alloc_pp(m)
       IN  page_incref(store(page_alloc(m), <<pgdir, PDX(va)>>,
                             [pg |-> pp, perm |-> {"PTE_R"}]), pp)

\* page_lookup returns NULL exactly when this word is Zero.
page_lookup(m, pgdir, va) == word(m, walk(m, pgdir, va))

page_remove(m, pgdir, va) ==
  LET w == page_lookup(m, pgdir, va)
  IN  IF w = Zero THEN m
      ELSE tlb_invalidate(store(page_decref(m, w.pg), walk(m, pgdir, va), Zero), va)

\* page_insert is the composition of its three parts: a rewrite in place when
\* `pp' is mapped at `va' already; otherwise the old mapping is removed and ...
insert_same(m, pgdir, pp, va) ==
  page_lookup(m, pgdir, va) # Zero /\ page_lookup(m, pgdir, va).pg = pp
slip_insert_rewrite(m, pgdir, pp, va, perm) ==                       \* pp_ref++ here, too
  page_incref(store(tlb_invalidate(m, va), walk(m, pgdir, va), [pg |-> pp, perm |-> perm]), pp)
insert_rewrite(m, pgdir, pp, va, perm) ==
  store(tlb_invalidate(m, va), walk(m, pgdir, va), [pg |-> pp, perm |-> perm])
insert_clear(m, pgdir, va) ==
  tlb_invalidate(page_remove(m, pgdir, va), va)
\* ... the new one written, with a table made for it if there was none.
insert_write(m, pgdir, pp, va, perm) ==
  LET c == walk_create(m, pgdir, va)
  IN  page_incref(store(c, walk(c, pgdir, va), [pg |-> pp, perm |-> perm]), pp)

page_insert_fails(m, pgdir, pp, va) ==
  ~insert_same(m, pgdir, pp, va) /\ walk_create_fails(insert_clear(m, pgdir, va), pgdir, va)
page_insert(m, pgdir, pp, va, perm) ==
  IF insert_same(m, pgdir, pp, va)
  THEN insert_rewrite(m, pgdir, pp, va, perm)
  ELSE LET r == insert_clear(m, pgdir, va)
       IN  IF walk_create_fails(r, pgdir, va) THEN r
           ELSE insert_write(r, pgdir, pp, va, perm)

-----------------------------------------------------------------------------
(***************************************************************************)
(* The refill handler, lib/genex.S do_refill.                              *)
(***************************************************************************)

\* Both words the handler loads have PTE_V set.
refill_finds(m, pgdir, va) ==
  pde(m, pgdir, va) # Zero /\ page_lookup(m, pgdir, va) # Zero

slip_refill_entry(m, pgdir, va) ==                                   \* PTE_COW not read
  LET w == page_lookup(m, pgdir, va)
  IN  [va |-> va, asid |-> m.asid, pg |-> w.pg, wr |-> "PTE_R" \in w.perm]

\* A copy-on-write entry is loaded without the hardware's write permission.
refill_entry(m, pgdir, va) ==
  LET w == page_lookup(m, pgdir, va)
  IN  [va |-> va, asid |-> m.asid, pg |-> w.pg,
       wr |-> "PTE_R" \in w.perm /\ "PTE_COW" \notin w.perm]

\* tlbwr: the entry overwrites a slot of the TLB; `old' is what the slot held.
tlbwr(m, old, e) == [m EXCEPT !.tlb = (@ \ old) \cup {e}]
-----------------------------------------------------------------------------
(***************************************************************************)
(* What the words mean, given the set D of page directories.               *)
(***************************************************************************)

tables(m, D)      == {word(m, s).pg : s \in {s \in D \X Idx : word(m, s) # Zero}}
live(m, D)        == D \cup tables(m, D)
data_pages(m, D)  == {word(m, s).pg : s \in {s \in tables(m, D) \X Idx : word(m, s) # Zero}}
\* The valid entries that name page p.
pointers(m, D, p) == {s \in live(m, D) \X Idx : word(m, s) # Zero /\ word(m, s).pg = p}
=============================================================================
