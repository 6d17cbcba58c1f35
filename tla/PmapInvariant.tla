--------------------------- MODULE PmapInvariant ----------------------------
(***************************************************************************)
(* The invariant of the memory manager, for every number of pages, every   *)
(* page size, every set of addresses and every program: the free list and  *)
(* the reference counts are exact, the page tables are private, the TLB    *)
(* agrees with them, and pages are handed out clear.                       *)
(*                                                                         *)
(* None of these is inductive by itself.  That a store leaves the tables   *)
(* alone needs the TLB to be right; that the TLB is right needs the tables *)
(* to form a forest; that a new table is nobody else's needs the counts    *)
(* and the free list.  So one invariant holds them all; its memory part    *)
(* is Good of PmapLemmas.                                                  *)
(***************************************************************************)
EXTENDS PmapSys, PmapLemmas

LEMMA BootPage == boot_pgdir \in AllPages /\ boot_pgdir \notin Page /\ boot_pgdir # LowPage
BY PmapAssumption DEF Page, AllPages, LowPage, boot_pgdir

-----------------------------------------------------------------------------
(***************************************************************************)
(* Type correctness.                                                       *)
(***************************************************************************)

LEMMA DataPagesType ==
  ASSUME TypeOK PROVE DataPages \subseteq Page /\ Tables \subseteq Page
<1>1. ASSUME NEW s \in AllPages \X Idx, word(m, s) # Zero PROVE word(m, s).pg \in Page
  BY <1>1 DEF TypeOK, MemState, word, Word, Pte
<1>2. Tables \subseteq Page
  BY <1>1 DEF Tables, tables, TypeOK
<1> QED
  BY <1>1, <1>2, PageFacts DEF DataPages, data_pages, Tables

LEMMA InitType == Init => TypeOK
<1> SUFFICES ASSUME Init PROVE TypeOK
  OBVIOUS
<1>1. page_init_free \in Seq(Page)
  BY PmapAssumption DEF page_init_free, Page
<1>2. page_init_ref \in [AllPages -> 0 .. RefMax]
  BY PmapAssumption DEF page_init_ref, AllPages
<1>3. [p \in AllPages |-> ZeroPage] \in [AllPages -> [Idx -> Word]]
  BY DEF ZeroPage, Word
<1>4. 0 \in AllPages
  BY PageFacts DEF LowPage
<1>5. uvpt \in [dirs \ {boot_pgdir} -> Pte]
  BY DEF Init
<1> QED
  BY <1>1, <1>2, <1>3, <1>4, <1>5, PageFacts, BootPage DEF Init, boot_ram, TypeOK, MemState

\* Every step keeps the types.
LEMMA StepType == TypeOK /\ [Next]_vars => TypeOK'
<1> SUFFICES ASSUME TypeOK, [Next]_vars PROVE TypeOK'
  OBVIOUS
<1> USE PageFacts
<1>m. m \in MemState /\ mCONTEXT \in AllPages
  BY DEF TypeOK
<1>v. UserVa \subseteq Va /\ LowVa \subseteq Va /\ EnvZone \subseteq Va
  BY PmapSysAssumption
<1>d. held \cup DataPages \subseteq Page /\ Editable \subseteq AllPages
  BY DataPagesType DEF TypeOK, Editable
<1>1. CASE PageAlloc
  BY <1>1, <1>m, AllocType DEF PageAlloc, TypeOK
<1>2. CASE PageFree
  BY <1>2, <1>m, <1>d, CountersType DEF PageFree, TypeOK
<1>3. CASE PageInsert
  <2>1. PICK d \in Editable, pp \in held \cup DataPages, va \in UserVa, perm \in Perms :
          /\ m' = page_insert(m, d, pp, va, perm)
          /\ held' \in SUBSET held
          /\ UNCHANGED <<dirs, uvpt, fresh, mCONTEXT, pinned, fault, halted>>
    BY <1>3 DEF PageInsert
  <2>2. perm \in SUBSET Flag
    BY PmapSysAssumption
  <2>3. m' \in MemState
    BY <2>1, <2>2, <1>m, <1>v, <1>d, InsertType
  <2> QED
    BY <2>1, <2>3 DEF TypeOK
<1>4. CASE PageRemove
  BY <1>4, <1>m, <1>v, <1>d, RemoveType DEF PageRemove, TypeOK
<1>5. CASE EnvSetupVm
  <2>1. CASE page_alloc_fails(m)
    BY <1>5, <2>1 DEF EnvSetupVm, TypeOK
  <2>2. CASE ~page_alloc_fails(m)
    <3> DEFINE p == page_alloc_pp(m)
    <3>1. page_incref(page_alloc(m), p) \in MemState /\ p \in Page
      BY <2>2, <1>m, AllocType, CountersType
    <3>2. [pg |-> p, perm |-> {"PTE_R"}] \in Pte
      BY <3>1 DEF Pte, Flag
    <3>3. uvpt' = [d \in (dirs \cup {p}) \ {boot_pgdir} |->
                     IF d = p THEN [pg |-> p, perm |-> {"PTE_R"}] ELSE uvpt[d]]
      BY <1>5, <2>2 DEF EnvSetupVm
    <3>4. uvpt' \in [(dirs \cup {p}) \ {boot_pgdir} -> Pte]
      BY <3>2, <3>3 DEF TypeOK
    <3>5. /\ m' \in MemState /\ dirs' = dirs \cup {p} /\ fresh' = fresh \cup {p}
          /\ UNCHANGED <<mCONTEXT, held, pinned, fault, halted>>
      BY <1>5, <2>2, <3>1 DEF EnvSetupVm
    <3> QED
      BY <3>1, <3>4, <3>5 DEF TypeOK
  <2> QED
    BY <2>1, <2>2
<1>6. CASE EnvRun
  BY <1>6, <1>m DEF EnvRun, TypeOK, MemState, Asid, LowPage
<1>7. CASE TlbMiss
  BY <1>7, <1>v DEF TlbMiss, TypeOK
<1>8. CASE UserStore
  <2>1. PICK va \in UserVa, i \in UserIdx, w \in UserWords, e \in m.tlb :
          /\ m' = store(m, <<e.pg, i>>, w)
          /\ UNCHANGED <<dirs, uvpt, fresh, mCONTEXT, held, pinned, fault, halted>>
    BY <1>8 DEF UserStore, TlbHit
  <2>2. <<e.pg, i>> \in AllPages \X Idx /\ w \in Word
    BY <2>1, <1>m, PmapSysAssumption DEF MemState, TlbEntry
  <2> QED
    BY <2>1, <2>2, <1>m, StoreType DEF TypeOK
<1>9. CASE RefillLoad
  <2> DEFINE e == refill_entry(m, mCONTEXT, fault)
  <2>1. fault \in Va
    BY <1>9 DEF RefillLoad, TypeOK
  <2>2. page_lookup(m, mCONTEXT, fault) \in Pte
    BY <1>9, <1>m, <2>1, WalkType DEF RefillLoad, refill_finds, Word
  <2>3. e \in TlbEntry
    BY <2>1, <2>2, <1>m DEF refill_entry, TlbEntry, Pte, MemState
  <2>4. m' \in MemState
    BY <1>9, <2>3, <1>m DEF RefillLoad, tlbwr, MemState
  <2> QED
    BY <1>9, <2>4 DEF RefillLoad, TypeOK
<1>10. CASE RefillPageout
  <2>1. CASE pageout_panics
    BY <1>10, <2>1 DEF RefillPageout, TypeOK
  <2>2. CASE ~pageout_panics
    <3> DEFINE p == page_alloc_pp(m)
               a == page_incref(page_alloc(m), p)
    <3>1. a \in MemState /\ p \in Page
      BY <2>2, <1>m, AllocType, CountersType DEF pageout_panics
    <3>2. fault \in Va /\ {"PTE_R"} \in SUBSET Flag
      BY <1>10 DEF RefillPageout, TypeOK, Flag
    <3>3. page_insert(a, mCONTEXT, p, fault, {"PTE_R"}) \in MemState
      BY <3>1, <3>2, <1>m, InsertType
    <3> QED
      BY <1>10, <2>2, <3>1, <3>3 DEF RefillPageout, TypeOK
  <2> QED
    BY <2>1, <2>2
<1>11. CASE PanicLoop
  BY <1>11 DEF PanicLoop, vars, TypeOK
<1>12. CASE UNCHANGED vars
  BY <1>12 DEF vars, TypeOK
<1> QED
  BY <1>1, <1>2, <1>3, <1>4, <1>5, <1>6, <1>7, <1>8, <1>9, <1>10, <1>11, <1>12 DEF Next

\* The variables keep their types, whatever the clients and programs do: in
\* particular a counter stays within its 16 bits, and only pages above the
\* kernel's get on the free list.
THEOREM TypeCorrect == Spec => []TypeOK
<1> QED
  BY InitType, StepType, PTL DEF Spec

-----------------------------------------------------------------------------
(***************************************************************************)
(* The TLB.                                                                *)
(***************************************************************************)

\* TLB entry t is what directory d says.
Match(x, t, d) ==
  LET w == page_lookup(x, d, t.va) IN
  /\ t.asid = Asid(d) /\ w # Zero /\ t.pg = w.pg
  /\ t.wr <=> "PTE_R" \in w.perm /\ "PTE_COW" \notin w.perm

\* ... of the directories some environment has run with.
Coherent(x, D, F) == \A t \in x.tlb : \E d \in D \ F : Match(x, t, d)

LEMMA AsidInjective ==
  \A d, e \in AllPages \ {LowPage} : Asid(d) = Asid(e) => d = e
BY DEF Asid, LowPage

\* An edit of the current directory, or of one that has not run, keeps it right.
LEMMA EditedCoherent ==
  ASSUME NEW x \in MemState, NEW D \in SUBSET (AllPages \ {LowPage}), NEW F,
         Coherent(x, D, F), NEW y, NEW d \in D, NEW va \in Va,
         Edited(x, y, D, d, va), d \in F \/ x.asid = Asid(d)
  PROVE  Coherent(y, D, F)
<1> SUFFICES ASSUME NEW t \in y.tlb PROVE \E e \in D \ F : Match(y, t, e)
  BY DEF Coherent
<1>1. t \in x.tlb /\ t.va \in Va
  BY DEF Edited, MemState, TlbEntry
<1>2. PICK e \in D \ F : Match(x, t, e)
  BY <1>1 DEF Coherent
<1>3. e # d \/ t.va # va
  BY <1>2, AsidInjective DEF Edited, Match
<1>4. page_lookup(y, e, t.va) = page_lookup(x, e, t.va)
  BY <1>1, <1>3 DEF Edited
<1> QED
  BY <1>2, <1>4 DEF Match

LEMMA SameLookupCoherent ==
  ASSUME NEW x \in MemState, NEW D, NEW F, Coherent(x, D, F), NEW y,
         y.tlb \subseteq x.tlb,
         \A d \in D, va \in Va : page_lookup(y, d, va) = page_lookup(x, d, va)
  PROVE  Coherent(y, D, F)
<1> SUFFICES ASSUME NEW t \in y.tlb PROVE \E e \in D \ F : Match(y, t, e)
  BY DEF Coherent
<1>1. t \in x.tlb /\ t.va \in Va
  BY DEF MemState, TlbEntry
<1>2. PICK e \in D \ F : Match(x, t, e)
  BY <1>1 DEF Coherent
<1> QED
  BY <1>1, <1>2 DEF Match

\* The maps are made of the words of directories, tables and the page at KADDR(0).
LEMMA SameWordsLookup ==
  ASSUME NEW x, NEW D, NEW H, NEW P, Good(x, D, H, P), NEW y,
         \A q \in live(x, D) \cup {LowPage} : y.mem[q] = x.mem[q]
  PROVE  \A d \in D, va \in Va : page_lookup(y, d, va) = page_lookup(x, d, va)
<1> SUFFICES ASSUME NEW d \in D, NEW va \in Va
             PROVE  page_lookup(y, d, va) = page_lookup(x, d, va)
  OBVIOUS
<1>1. pde(y, d, va) = pde(x, d, va)
  BY DEF pde, live
<1>2. walk(y, d, va) = walk(x, d, va)
  BY <1>1 DEF walk
<1>3. walk(x, d, va)[1] \in live(x, D) \cup {LowPage}
  <2>1. CASE pde(x, d, va) = Zero
    BY <2>1 DEF walk
  <2>2. CASE pde(x, d, va) # Zero
    BY <2>2, Lookup DEF live
  <2> QED
    BY <2>1, <2>2
<1> QED
  BY <1>2, <1>3 DEF page_lookup, word

\* page_alloc changes no map.
LEMMA AllocKeepsMaps ==
  ASSUME NEW x, NEW D, NEW H, NEW P, Good(x, D, H, P), ~page_alloc_fails(x)
  PROVE  LET y == page_alloc(x) IN
         /\ y.tlb = x.tlb /\ y.asid = x.asid
         /\ page_alloc_pp(x) \notin H /\ page_alloc_pp(x) \notin D
         /\ \A d \in D, va \in Va : page_lookup(y, d, va) = page_lookup(x, d, va)
<1> DEFINE y  == page_alloc(x)
           pp == page_alloc_pp(x)
<1>1. /\ x \in MemState /\ pp \in Page /\ pp \in Freed(x)
      /\ y.tlb = x.tlb /\ y.asid = x.asid /\ y.mem = [x.mem EXCEPT ![pp] = ZeroPage]
  <2>1. x \in MemState /\ pp \in Page
    BY AllocType DEF Good
  <2>2. pp \in Freed(x)
    BY <2>1 DEF page_alloc_fails, page_alloc_pp, Freed, MemState
  <2>3. y.tlb = x.tlb /\ y.asid = x.asid /\ y.mem = [x.mem EXCEPT ![pp] = ZeroPage]
    BY <2>1 DEF page_alloc, MemState
  <2> QED
    BY <2>1, <2>2, <2>3
<1>2. x.ref[pp] = 0 /\ pp \notin H
  BY <1>1 DEF Good, ListExact
<1>3. pp \notin live(x, D)
  BY <1>1, <1>2, CountZero DEF live
<1>4. \A q \in live(x, D) \cup {LowPage} : y.mem[q] = x.mem[q]
  BY <1>1, <1>3, LiveType, PageFacts DEF MemState, Good, Sets
<1>5. \A d \in D, va \in Va : page_lookup(y, d, va) = page_lookup(x, d, va)
  BY <1>4, SameWordsLookup
<1> QED
  BY <1>1, <1>2, <1>3, <1>5 DEF live

-----------------------------------------------------------------------------
(***************************************************************************)
(* The inductive invariant.                                                *)
(***************************************************************************)

IInv ==
  /\ TypeOK
  /\ Good(m, dirs, held, pinned)
  /\ Coherent(m, dirs, fresh)
  /\ m.asid = Asid(mCONTEXT) /\ mCONTEXT \notin fresh

LEMMA InitIInv == Init => IInv
<1> SUFFICES ASSUME Init PROVE IInv
  OBVIOUS
<1>t. TypeOK
  BY InitType
<1>1. /\ m \in MemState /\ m.free = page_init_free /\ m.ref = page_init_ref
      /\ m.mem = [p \in AllPages |-> ZeroPage] /\ m.tlb = {} /\ m.asid = 0
      /\ dirs = {boot_pgdir} /\ fresh = {} /\ mCONTEXT = boot_pgdir
      /\ held = {} /\ pinned = {}
  BY <1>t DEF Init, boot_ram, TypeOK
<1>2. \A s \in AllPages \X Idx : word(m, s) = Zero
  BY <1>1 DEF word, ZeroPage
<1>3. tables(m, dirs) = {}
  BY <1>1, <1>2, PageFacts, BootPage DEF tables
<1>4. data_pages(m, dirs) = {}
  BY <1>3 DEF data_pages
<1>5. \A p : pointers(m, dirs, p) = {}
  BY <1>3, <1>4, PointedTo
<1>6. CountExact(m, dirs, pinned)
  <2>1. \A p \in Page : m.ref[p] = 0
    BY <1>1, PmapAssumption, PageFacts DEF page_init_ref, Page
  <2>2. \A p \in Page : Cardinality(pointers(m, dirs, p)) = 0
    BY <1>5, FS_EmptySet
  <2> QED
    BY <1>1, <2>1, <2>2, PageFacts, BootPage DEF CountExact
<1>7. ListExact(m, held)
  <2>1. m.free = [k \in 1 .. npage - nboot |-> npage - k]
    BY <1>1 DEF page_init_free
  <2>2. Len(m.free) = npage - nboot
    BY <2>1, PmapAssumption
  <2>3. \A j, k \in 1 .. Len(m.free) : m.free[j] = m.free[k] => j = k
    BY <2>1, <2>2, PmapAssumption
  <2>4. ASSUME NEW p \in Page PROVE p \in Freed(m) /\ m.ref[p] = 0
    <3>1. npage - p \in 1 .. Len(m.free) /\ m.free[npage - p] = p
      BY <2>1, <2>2, PmapAssumption DEF Page
    <3>2. m.ref[p] = 0
      BY <1>1, PmapAssumption, PageFacts DEF page_init_ref, Page
    <3> QED
      BY <3>1, <3>2 DEF Freed
  <2> QED
    BY <1>1, <2>3, <2>4 DEF ListExact
<1>8. Forest(m, dirs, held)
  BY <1>1, <1>3, <1>4 DEF Forest
<1>9. Clear(m, held)
  BY <1>1, PageFacts DEF Clear, ZeroPage
<1>10. Sets(dirs, held, pinned)
  BY <1>1, PageFacts, BootPage DEF Sets
<1> QED
  BY <1>t, <1>1, <1>6, <1>7, <1>8, <1>9, <1>10 DEF IInv, Good, Coherent, Asid

\* Every step keeps the invariant.
LEMMA StepIInv == IInv /\ [Next]_vars => IInv'
<1> SUFFICES ASSUME IInv, [Next]_vars PROVE IInv'
  OBVIOUS
<1>t. TypeOK'
  BY StepType DEF IInv
<1>g. /\ Good(m, dirs, held, pinned) /\ Coherent(m, dirs, fresh)
      /\ m.asid = Asid(mCONTEXT) /\ mCONTEXT \notin fresh
      /\ m \in MemState /\ dirs \in SUBSET (AllPages \ {LowPage})
      /\ mCONTEXT \in dirs /\ fresh \subseteq dirs
      /\ fault \in Va \cup {NoFault} /\ UserVa \subseteq Va
  BY PmapSysAssumption DEF IInv, TypeOK, Good, Sets
<1>e. \A d \in Editable : d \in dirs /\ (d \in fresh \/ m.asid = Asid(d))
  BY <1>g DEF Editable
<1>p. \A p \in held \cup DataPages :
        p \in Page /\ p \notin live(m, dirs) /\ (p \in held \/ m.ref[p] # 0)
  <2>1. \A p \in held : p \in Page /\ p \notin live(m, dirs)
    BY <1>g, HeldFacts
  <2>2. \A p \in data_pages(m, dirs) : p \in Page
    BY <1>g, LiveType, PageFacts
  <2>3. \A p \in data_pages(m, dirs) : p \notin live(m, dirs) /\ m.ref[p] # 0
    BY <1>g, <2>2, CountZero DEF Good, Forest, live
  <2> QED
    BY <2>1, <2>2, <2>3 DEF DataPages
<1>1. CASE PageAlloc
  <2> DEFINE pp == page_alloc_pp(m)
  <2>1. /\ ~page_alloc_fails(m) /\ m' = page_alloc(m) /\ held' = held \cup {pp}
        /\ UNCHANGED <<dirs, fresh, mCONTEXT, pinned>>
    BY <1>1 DEF PageAlloc
  <2>2. Good(m', dirs, held \cup {pp}, pinned)
    BY <1>g, <2>1, GoodAlloc
  <2>3. /\ m'.tlb = m.tlb /\ m'.asid = m.asid
        /\ \A d \in dirs, va \in Va : page_lookup(m', d, va) = page_lookup(m, d, va)
    BY <1>g, <2>1, AllocKeepsMaps
  <2>4. Coherent(m', dirs, fresh)
    BY <1>g, <2>3, SameLookupCoherent
  <2> QED
    BY <1>t, <1>g, <2>1, <2>2, <2>3, <2>4 DEF IInv
<1>2. CASE PageFree
  <2>1. PICK pp \in held \cup DataPages :
          /\ m' = page_free(m, pp) /\ held' = held \ {pp}
          /\ UNCHANGED <<dirs, fresh, mCONTEXT, pinned>>
    BY <1>2 DEF PageFree
  <2>2. CASE pp \in held
    <3>1. Good(m', dirs, held', pinned)
      BY <1>g, <2>1, <2>2, GoodFree
    <3>2. m'.tlb = m.tlb /\ m'.asid = m.asid /\ m'.mem = m.mem
      BY <1>g, <2>1 DEF page_free, MemState
    <3>3. Coherent(m', dirs, fresh)
      BY <1>g, <3>2, SameMem, SameLookupCoherent
    <3> QED
      BY <1>t, <1>g, <2>1, <3>1, <3>2, <3>3 DEF IInv
  <2>3. CASE pp \notin held
    BY <1>t, <1>g, <1>p, <2>1, <2>3 DEF IInv, page_free
  <2> QED
    BY <2>2, <2>3
<1>3. CASE PageInsert
  <2>1. PICK d \in Editable, pp \in held \cup DataPages, va \in UserVa, perm \in Perms :
          /\ m.ref[pp] < RefMax
          /\ m' = page_insert(m, d, pp, va, perm)
          /\ held' = IF page_insert_fails(m, d, pp, va) THEN held ELSE held \ {pp}
          /\ UNCHANGED <<dirs, fresh, mCONTEXT, pinned>>
    BY <1>3 DEF PageInsert
  <2>2. perm \in SUBSET Flag /\ va \in Va /\ d \in dirs
    BY <1>g, <1>e, PmapSysAssumption
  <2>3. Good(m', dirs, held', pinned) /\ Edited(m, m', dirs, d, va)
    BY <1>g, <1>p, <2>1, <2>2, InsertGood
  <2>4. Coherent(m', dirs, fresh)
    BY <1>g, <1>e, <2>2, <2>3, EditedCoherent
  <2>5. m'.asid = m.asid
    BY <2>3 DEF Edited
  <2> QED
    BY <1>t, <1>g, <2>1, <2>3, <2>4, <2>5 DEF IInv
<1>4. CASE PageRemove
  <2>1. PICK d \in Editable, va \in UserVa :
          /\ m' = page_remove(m, d, va)
          /\ UNCHANGED <<dirs, fresh, mCONTEXT, held, pinned>>
    BY <1>4 DEF PageRemove
  <2>2. va \in Va /\ d \in dirs
    BY <1>g, <1>e
  <2>3. Good(m', dirs, held, pinned) /\ (m' = m \/ Edited(m, m', dirs, d, va))
    BY <1>g, <2>1, <2>2, RemoveGood
  <2>4. Coherent(m', dirs, fresh) /\ m'.asid = m.asid
    <3>1. CASE m' = m
      BY <1>g, <3>1
    <3>2. CASE Edited(m, m', dirs, d, va)
      <4>1. Coherent(m', dirs, fresh)
        BY <1>g, <1>e, <2>2, <3>2, EditedCoherent
      <4> QED
        BY <3>2, <4>1 DEF Edited
    <3> QED
      BY <2>3, <3>1, <3>2
  <2> QED
    BY <1>t, <1>g, <2>1, <2>3, <2>4 DEF IInv
<1>5. CASE EnvSetupVm
  <2>1. CASE page_alloc_fails(m)
    BY <1>5, <1>t, <1>g, <2>1 DEF EnvSetupVm, IInv
  <2>2. CASE ~page_alloc_fails(m)
    <3> DEFINE p == page_alloc_pp(m)
               a == page_alloc(m)
    <3>1. /\ m' = page_incref(a, p) /\ dirs' = dirs \cup {p} /\ fresh' = fresh \cup {p}
          /\ UNCHANGED <<mCONTEXT, held, pinned>>
      BY <1>5, <2>2 DEF EnvSetupVm
    <3>2. Good(a, dirs, held \cup {p}, pinned)
      BY <1>g, <2>2, GoodAlloc
    <3>3. /\ a.tlb = m.tlb /\ a.asid = m.asid /\ p \notin held /\ p \notin dirs
          /\ \A d \in dirs, va \in Va : page_lookup(a, d, va) = page_lookup(m, d, va)
      BY <1>g, <2>2, AllocKeepsMaps
    <3>4. a \in MemState /\ p \in Page /\ a.ref[p] = 0
      BY <3>2, HeldFacts DEF Good
    <3> HIDE DEF a, p
    <3>5. Good(m', dirs \cup {p}, (held \cup {p}) \ {p}, pinned)
      BY <3>1, <3>2, GoodDirectory
    <3>6. m'.mem = a.mem /\ m'.tlb = a.tlb /\ m'.asid = a.asid
      BY <3>1, <3>4, IncrefFacts, PmapAssumption
    <3>7. \A d \in dirs, va \in Va : page_lookup(m', d, va) = page_lookup(m, d, va)
      BY <3>3, <3>6, SameMem
    <3>8. Coherent(m', dirs, fresh)
      BY <1>g, <3>3, <3>6, <3>7, SameLookupCoherent
    <3>9. Coherent(m', dirs \cup {p}, fresh \cup {p})
      BY <3>3, <3>8 DEF Coherent
    <3>10. (held \cup {p}) \ {p} = held
      BY <3>3
    <3> QED
      BY <1>t, <1>g, <3>1, <3>3, <3>5, <3>6, <3>9, <3>10 DEF IInv
  <2> QED
    BY <2>1, <2>2
<1>6. CASE EnvRun
  <2>1. PICK d \in dirs :
          /\ mCONTEXT' = d /\ m' = [m EXCEPT !.asid = Asid(d)] /\ fresh' = fresh \ {d}
          /\ UNCHANGED <<dirs, held, pinned>>
    BY <1>6 DEF EnvRun
  <2>2. /\ m'.free = m.free /\ m'.ref = m.ref /\ m'.mem = m.mem /\ m'.tlb = m.tlb
        /\ m'.asid = Asid(d)
    BY <1>g, <2>1 DEF MemState
  <2>3. Good(m', dirs, held, pinned)
    BY <1>t, <1>g, <2>2, GoodTlb DEF TypeOK
  <2>4. Coherent(m', dirs, fresh)
    BY <1>g, <2>2, SameMem, SameLookupCoherent
  <2>5. Coherent(m', dirs, fresh \ {d})
    BY <2>4 DEF Coherent
  <2> QED
    BY <1>t, <2>1, <2>2, <2>3, <2>5 DEF IInv
<1>7. CASE TlbMiss
  BY <1>7, <1>t, <1>g DEF TlbMiss, IInv
<1>8. CASE UserStore
  <2>1. PICK va \in UserVa, i \in UserIdx, w \in UserWords, t \in m.tlb :
          /\ m' = store(m, <<t.pg, i>>, w)
          /\ UNCHANGED <<dirs, fresh, mCONTEXT, held, pinned>>
    BY <1>8 DEF UserStore, TlbHit
  <2>2. i \in Idx /\ w \in Word
    BY PmapSysAssumption
  <2>3. t.pg \in data_pages(m, dirs)
    <3>1. PICK d \in dirs : page_lookup(m, d, t.va) # Zero /\ t.pg = page_lookup(m, d, t.va).pg
      BY <1>g DEF Coherent, Match
    <3>2. t.va \in Va
      BY <1>g DEF MemState, TlbEntry
    <3>3. pde(m, d, t.va) # Zero
      BY <1>g, <3>1, <3>2, Lookup
    <3>4. walk(m, d, t.va) \in tables(m, dirs) \X Idx
      BY <1>g, <3>2, <3>3, Lookup
    <3> QED
      BY <3>1, <3>4 DEF page_lookup, data_pages
  <2>4. /\ Good(m', dirs, held, pinned)
        /\ \A q \in live(m, dirs) : m'.mem[q] = m.mem[q]
    BY <1>g, <2>1, <2>2, <2>3, GoodUserStore
  <2>5. /\ m'.tlb = m.tlb /\ m'.asid = m.asid /\ m'.mem[LowPage] = m.mem[LowPage]
    <3>1. t.pg \in AllPages /\ t.pg # LowPage
      BY <1>g, <2>3, LiveType, PageFacts
    <3> QED
      BY <1>g, <2>1, <2>2, <3>1, StoreFacts, PageFacts
  <2>6. \A d \in dirs, va_1 \in Va : page_lookup(m', d, va_1) = page_lookup(m, d, va_1)
    BY <1>g, <2>4, <2>5, SameWordsLookup
  <2>7. Coherent(m', dirs, fresh)
    BY <1>g, <2>5, <2>6, SameLookupCoherent
  <2> QED
    BY <1>t, <1>g, <2>1, <2>4, <2>5, <2>7 DEF IInv
<1>9. CASE RefillLoad
  <2> DEFINE t == refill_entry(m, mCONTEXT, fault)
  <2>1. PICK old : m' = tlbwr(m, old, t)
    BY <1>9 DEF RefillLoad
  <2>2. /\ fault \in Va /\ refill_finds(m, mCONTEXT, fault)
        /\ UNCHANGED <<dirs, fresh, mCONTEXT, held, pinned>>
    BY <1>9, <1>g DEF RefillLoad
  <2>3. /\ m'.free = m.free /\ m'.ref = m.ref /\ m'.mem = m.mem /\ m'.asid = m.asid
        /\ m'.tlb = (m.tlb \ old) \cup {t}
    BY <1>g, <2>1 DEF tlbwr, MemState
  <2>4. Good(m', dirs, held, pinned)
    BY <1>t, <1>g, <2>2, <2>3, GoodTlb DEF TypeOK
  <2>5. Match(m, t, mCONTEXT)
    <3>1. page_lookup(m, mCONTEXT, fault) # Zero
      BY <1>g, <2>2, Lookup
    <3> QED
      BY <1>g, <3>1 DEF Match, refill_entry
  <2>6. \A d, va : page_lookup(m', d, va) = page_lookup(m, d, va)
    BY <2>3, SameMem
  <2> HIDE DEF t
  <2>7. \A u \in m'.tlb : u \in m.tlb \/ u = t
    BY <2>3
  <2>8. Coherent(m', dirs, fresh)
    BY <1>g, <2>5, <2>6, <2>7 DEF Coherent, Match
  <2> QED
    BY <1>t, <1>g, <2>2, <2>3, <2>4, <2>8 DEF IInv
<1>10. CASE RefillPageout
  <2>1. CASE pageout_panics
    BY <1>10, <1>t, <1>g, <2>1 DEF RefillPageout, IInv
  <2>2. CASE ~pageout_panics
    <3> DEFINE p == page_alloc_pp(m)
               a == page_alloc(m)
               b == page_incref(a, p)
               perm == {"PTE_R"}
    <3>1. /\ m' = page_insert(b, mCONTEXT, p, fault, perm)
          /\ pinned' = pinned \cup {p} /\ UNCHANGED <<dirs, fresh, mCONTEXT, held>>
          /\ ~page_alloc_fails(m) /\ fault \in Va
      BY <1>10, <1>g, <2>2 DEF RefillPageout, pageout_panics
    <3>2. Good(a, dirs, held \cup {p}, pinned)
      BY <1>g, <3>1, GoodAlloc
    <3>3. /\ a.tlb = m.tlb /\ a.asid = m.asid /\ p \notin held
          /\ \A d \in dirs, va \in Va : page_lookup(a, d, va) = page_lookup(m, d, va)
      BY <1>g, <3>1, AllocKeepsMaps
    <3>4. a \in MemState /\ p \in Page /\ a.ref[p] = 0 /\ p \notin live(a, dirs)
      BY <3>2, HeldFacts DEF Good
    <3> HIDE DEF a, p
    <3>5. Good(b, dirs, (held \cup {p}) \ {p}, pinned \cup {p}) /\ b.ref[p] = 1
      BY <3>2, GoodPin
    <3>6. b.mem = a.mem /\ b.tlb = a.tlb /\ b.asid = a.asid
      BY <3>4, IncrefFacts, PmapAssumption
    <3>7. (held \cup {p}) \ {p} = held /\ held \ {p} = held
      BY <3>3
    <3> HIDE DEF b
    <3>8. p \notin live(b, dirs)
      BY <3>4, <3>6, SameMem
    <3>9. Coherent(b, dirs, fresh)
      <4>1. \A d \in dirs, va \in Va : page_lookup(b, d, va) = page_lookup(m, d, va)
        BY <3>3, <3>6, SameMem
      <4> QED
        BY <1>g, <3>3, <3>6, <4>1, SameLookupCoherent
    <3>10. perm \in SUBSET Flag
      BY DEF Flag
    <3> HIDE DEF perm
    <3>11. Good(m', dirs, held, pinned') /\ Edited(b, m', dirs, mCONTEXT, fault)
      <4>1. Good(b, dirs, held, pinned') /\ b.ref[p] # 0 /\ b.ref[p] < RefMax
        BY <3>1, <3>5, <3>7, PmapAssumption
      <4>2. /\ Good(m', dirs, IF page_insert_fails(b, mCONTEXT, p, fault)
                              THEN held ELSE held \ {p}, pinned')
            /\ Edited(b, m', dirs, mCONTEXT, fault)
        BY <1>g, <3>1, <3>4, <3>8, <3>10, <4>1, InsertGood
      <4> QED
        BY <3>7, <4>2
    <3>12. Coherent(m', dirs, fresh)
      <4>1. b \in MemState /\ b.asid = Asid(mCONTEXT)
        BY <1>g, <3>3, <3>5, <3>6 DEF Good
      <4> QED
        BY <1>g, <3>1, <3>9, <3>11, <4>1, EditedCoherent
    <3>13. m'.asid = m.asid
      BY <3>3, <3>6, <3>11 DEF Edited
    <3> QED
      BY <1>t, <1>g, <3>1, <3>11, <3>12, <3>13 DEF IInv
  <2> QED
    BY <2>1, <2>2
<1>11. CASE PanicLoop
  BY <1>11, <1>t, <1>g DEF PanicLoop, vars, IInv
<1>12. CASE UNCHANGED vars
  BY <1>12, <1>t, <1>g DEF vars, IInv
<1> QED
  BY <1>1, <1>2, <1>3, <1>4, <1>5, <1>6, <1>7, <1>8, <1>9, <1>10, <1>11, <1>12 DEF Next

LEMMA Invariant == Spec => []IInv
<1> QED
  BY InitIInv, StepIInv, PTL DEF Spec

-----------------------------------------------------------------------------
(***************************************************************************)
(* What follows from it.                                                   *)
(***************************************************************************)

\* page_free_list holds each free page once and nothing else, through every
\* interleaving of calls, refills and address-space switches (page_alloc,
\* page_free, page_decref).
THEOREM FreeListCorrect == Spec => []FreeListExact
<1>1. IInv => FreeListExact
  BY DEF IInv, Good, ListExact, Freed, FreeListExact, FreeSet
<1> QED
  BY <1>1, Invariant, PTL

\* pp_ref counts the entries that name a page, the directory's own reference
\* and the surplus one of pageout, and never wraps (page_insert, page_remove,
\* pgdir_walk, env_setup_vm, pageout).
THEOREM RefCountCorrect == Spec => []RefCountExact
<1>1. IInv => RefCountExact
  BY DEF IInv, Good, CountExact, RefCountExact, Pointers
<1> QED
  BY <1>1, Invariant, PTL

\* Whatever runs, the word at UVPT is what env_setup_vm made it.
SelfMapped == uvpt = [d \in dirs \ {boot_pgdir} |-> [pg |-> d, perm |-> {"PTE_R"}]]

LEMMA SelfMapKept == Spec => []SelfMapped
<1>1. Init => SelfMapped
  BY DEF Init, SelfMapped
<1>2. ASSUME SelfMapped, [Next]_vars PROVE SelfMapped'
  <2>1. CASE EnvSetupVm /\ ~page_alloc_fails(m)
    BY <1>2, <2>1 DEF EnvSetupVm, SelfMapped
  <2>2. CASE UNCHANGED <<dirs, uvpt>>
    BY <1>2, <2>2 DEF SelfMapped
  <2> QED
    BY <1>2, <2>1, <2>2
    DEF Next, vars, PageAlloc, PageFree, PageInsert, PageRemove, EnvSetupVm, EnvRun, TlbMiss,
        UserStore, RefillLoad, RefillPageout, PanicLoop
<1> QED
  BY <1>1, <1>2, PTL DEF Spec

\* Directories and tables are a forest no mapping below UTOP reaches, and the
\* self-map, which does reach them, shows an address space none but its own
\* (pgdir_walk with create = 1, page_insert, env_setup_vm).
THEOREM TablesCorrect == Spec => []TablesPrivate
<1>1. ASSUME IInv, SelfMapped PROVE TablesPrivate
  <2>f. /\ \A t \in Tables : \A r, s \in Pointers(t) : r = s
        /\ Tables \cap (dirs \cup DataPages \cup held) = {}
        /\ DataPages \cap (dirs \cup held) = {}
        /\ dirs \cap held = {}
    BY <1>1 DEF IInv, Good, Forest, Tables, DataPages, Pointers
  <2>1. ASSUME NEW d \in dirs \ {boot_pgdir} PROVE Window(d) = {d} \cup tables(m, {d})
    <3>1. uvpt[d].pg = d
      BY <1>1 DEF SelfMapped
    <3>2. tables(m, {d}) = {w.pg : w \in {m.mem[d][i] : i \in Idx} \ {Zero}}
      <4>1. ASSUME NEW s \in {s \in {d} \X Idx : word(m, s) # Zero}
            PROVE  word(m, s) \in {m.mem[d][i] : i \in Idx} \ {Zero}
        BY <4>1 DEF word
      <4>2. ASSUME NEW i \in Idx, m.mem[d][i] # Zero
            PROVE  /\ <<d, i>> \in {s \in {d} \X Idx : word(m, s) # Zero}
                   /\ word(m, <<d, i>>) = m.mem[d][i]
        BY <4>2 DEF word
      <4>3. tables(m, {d}) \subseteq {w.pg : w \in {m.mem[d][i] : i \in Idx} \ {Zero}}
        BY <4>1 DEF tables
      <4>4. ASSUME NEW i \in Idx, m.mem[d][i] # Zero PROVE m.mem[d][i].pg \in tables(m, {d})
        BY <4>2, <4>4 DEF tables
      <4> QED
        BY <4>3, <4>4
    <3> QED
      BY <3>1, <3>2 DEF Window
  <2>2. ASSUME NEW c \in dirs \ {boot_pgdir}, NEW d \in dirs \ {boot_pgdir}, c # d,
               NEW p \in Window(c) \cap Window(d)
        PROVE  FALSE
    <3>1. \A e \in dirs : tables(m, {e}) \subseteq Tables
      BY DEF Tables, tables
    <3>2. p \in tables(m, {c}) /\ p \in tables(m, {d})
      BY <2>1, <2>2, <2>f, <3>1
    <3>3. ASSUME NEW e \in dirs, p \in tables(m, {e})
          PROVE  \E i \in Idx : <<e, i>> \in Pointers(p)
      <4>1. PICK s \in {e} \X Idx : word(m, s) # Zero /\ p = word(m, s).pg
        BY <3>3 DEF tables
      <4>2. PICK i \in Idx : s = <<e, i>>
        BY <4>1
      <4>3. s \in live(m, dirs) \X Idx
        BY <4>1 DEF live
      <4> QED
        BY <4>1, <4>2, <4>3 DEF Pointers, pointers
    <3>4. PICK i \in Idx, j \in Idx : <<c, i>> \in Pointers(p) /\ <<d, j>> \in Pointers(p)
      BY <3>2, <3>3
    <3>5. p \in Tables
      BY <3>1, <3>2
    <3>6. <<c, i>> = <<d, j>>
      BY <2>f, <3>4, <3>5
    <3> QED
      BY <2>2, <3>6
  <2> QED
    BY <2>f, <2>1, <2>2 DEF TablesPrivate
<1> QED
  BY <1>1, Invariant, SelfMapKept, PTL

\* The TLB holds nothing the tables do not say now: every edit of a table is
\* followed by the right tlb_invalidate (page_insert, page_remove, tlb_out).
THEOREM TlbCorrect == Spec => []TlbCoherent
<1>1. ASSUME IInv PROVE TlbCoherent
  <2> SUFFICES ASSUME NEW e \in m.tlb
               PROVE  \E d \in dirs :
                        /\ e.asid = Asid(d)
                        /\ refill_finds(m, d, e.va)
                        /\ LET w == page_lookup(m, d, e.va)
                           IN  e.pg = w.pg /\ (e.wr <=> "PTE_R" \in w.perm /\ "PTE_COW" \notin w.perm)
    BY DEF TlbCoherent
  <2>1. PICK d \in dirs : Match(m, e, d)
    BY <1>1 DEF IInv, Coherent
  <2>2. e.va \in Va
    BY <1>1 DEF IInv, Good, MemState, TlbEntry
  <2>3. refill_finds(m, d, e.va)
    BY <1>1, <2>1, <2>2, Lookup DEF IInv, Match
  <2> QED
    BY <2>1, <2>3 DEF Match
<1> QED
  BY <1>1, Invariant, PTL

\* page_alloc hands out zero pages, and the page at KADDR(0) that pgdir_walk
\* falls back on stays zero, whatever programs store.
THEOREM ClearCorrect == Spec => []AllocatedPagesClear
<1>1. IInv => AllocatedPagesClear
  BY DEF IInv, Good, Clear, AllocatedPagesClear
<1> QED
  BY <1>1, Invariant, PTL

-----------------------------------------------------------------------------
(***************************************************************************)
(* The memory manager implements AddrSpace.  The abstract variables are    *)
(* state functions of the concrete ones: the maps the tables make, the     *)
(* pages held, the contents of the pages held or mapped.  With the         *)
(* invariant on both sides of a step, every action is an abstract one or   *)
(* changes no abstract variable.                                           *)
(***************************************************************************)
(***************************************************************************)
(* The abstract state, as a function of the memory-management state x, the *)
(* directories D and the held pages H.                                     *)
(***************************************************************************)

maps(x, D)        == [d \in D |-> [va \in Va |-> page_lookup(x, d, va)]]
contents(x, D, H) == [p \in H \cup data_pages(x, D) |-> x.mem[p]]

\* The variables of AddrSpace as PmapSys instantiates them.
spacesNow  == [d \in dirs |-> [va \in Va |-> Translation(d, va)]]
contentNow == [p \in held \cup DataPages |-> m.mem[p]]

\* The pages some map of `sp' names, AddrSpace's Mapped.
Named(sp) == {sp[x[1]][x[2]].pg : x \in {x \in (DOMAIN sp) \X Va : sp[x[1]][x[2]] # Zero}}

\* AddrSpace's Become, over these state functions.
Become(sp, ow) ==
  /\ held' = ow /\ spacesNow' = sp
  /\ contentNow' = [p \in ow \cup Named(sp) |->
                      IF p \in DOMAIN contentNow THEN contentNow[p] ELSE [i \in Idx |-> Zero]]

\* What it asks of the contents, between two such states.
Becomes(x, D, H, y, E, G) ==
  contents(y, E, G) =
    [p \in G \cup Named(maps(y, E)) |->
       IF p \in DOMAIN contents(x, D, H) THEN contents(x, D, H)[p]
       ELSE [i \in Idx |-> Zero]]

\* A page some table maps is mapped at some address.
LEMMA MappedAt ==
  ASSUME NEW x, NEW D, NEW p \in data_pages(x, D)
  PROVE  \E d \in D, va \in Va : page_lookup(x, d, va) # Zero /\ page_lookup(x, d, va).pg = p
<1>1. PICK s \in tables(x, D) \X Idx : word(x, s) # Zero /\ word(x, s).pg = p
  BY DEF data_pages
<1>2. PICK r \in D \X Idx : word(x, r) # Zero /\ word(x, r).pg = s[1]
  BY <1>1 DEF tables
<1> DEFINE va == <<r[2], s[2]>>
<1>3. va \in Va /\ r[1] \in D /\ PDX(va) = r[2] /\ PTX(va) = s[2] /\ s = <<s[1], s[2]>>
  BY DEF Va, PDX, PTX
<1> HIDE DEF va
<1>4. pde(x, r[1], va) # Zero /\ pde(x, r[1], va).pg = s[1]
  BY <1>2, <1>3 DEF pde, word
<1>5. walk(x, r[1], va) = s
  BY <1>3, <1>4 DEF walk
<1>6. page_lookup(x, r[1], va) = word(x, s)
  BY <1>5 DEF page_lookup
<1> QED
  BY <1>1, <1>3, <1>6

\* The pages the tables map are the pages the maps name.
LEMMA NamedPages ==
  ASSUME NEW x, NEW D, NEW H, NEW P, Good(x, D, H, P)
  PROVE  /\ Named(maps(x, D)) = data_pages(x, D)
         /\ \A d \in D, va \in Va :
              page_lookup(x, d, va) # Zero => page_lookup(x, d, va).pg \in data_pages(x, D)
<1>1. ASSUME NEW d \in D, NEW va \in Va, page_lookup(x, d, va) # Zero
      PROVE  page_lookup(x, d, va).pg \in data_pages(x, D)
  <2>1. pde(x, d, va) # Zero
    BY <1>1, Lookup
  <2>2. walk(x, d, va) \in tables(x, D) \X Idx
    BY <2>1, Lookup
  <2> QED
    BY <1>1, <2>2 DEF page_lookup, data_pages
<1>3. Named(maps(x, D)) \subseteq data_pages(x, D)
  BY <1>1 DEF Named, maps
<1>4. ASSUME NEW p \in data_pages(x, D) PROVE p \in Named(maps(x, D))
  <2>1. PICK d \in D, va \in Va : page_lookup(x, d, va) # Zero
                                  /\ page_lookup(x, d, va).pg = p
    BY MappedAt
  <2>2. <<d, va>> \in (DOMAIN maps(x, D)) \X Va /\ maps(x, D)[d][va] = page_lookup(x, d, va)
    BY DEF maps
  <2> DEFINE sp == maps(x, D)
             u  == <<d, va>>
  <2>3. u \in (DOMAIN sp) \X Va /\ sp[u[1]][u[2]] # Zero /\ sp[u[1]][u[2]].pg = p
    BY <2>1, <2>2
  <2> HIDE DEF sp, u
  <2>4. p \in Named(sp)
    BY <2>3 DEF Named
  <2> QED
    BY <2>4 DEF sp
<1> QED
  BY <1>1, <1>3, <1>4

\* What a step does to the contents: pages that were in use keep theirs, the
\* others are clear.
LEMMA ContentsBecome ==
  ASSUME NEW x, NEW D, NEW H, NEW P, Good(x, D, H, P),
         NEW y, NEW E, NEW G, NEW Q, Good(y, E, G, Q),
         \A p \in G \cup data_pages(y, E) :
           y.mem[p] = IF p \in H \cup data_pages(x, D) THEN x.mem[p] ELSE ZeroPage
  PROVE  Becomes(x, D, H, y, E, G)
<1>1. Named(maps(y, E)) = data_pages(y, E)
  BY NamedPages
<1> QED
  BY <1>1 DEF Becomes, contents, ZeroPage

\* The abstract variables in a state of the invariant.
LEMMA AbstractState ==
  ASSUME NEW x, NEW D, NEW H, NEW P, Good(x, D, H, P)
  PROVE  [d \in D |-> [va \in Va |-> IF refill_finds(x, d, va) THEN page_lookup(x, d, va)
                                     ELSE Zero]] = maps(x, D)
<1>1. \A d \in D, va \in Va :
        (IF refill_finds(x, d, va) THEN page_lookup(x, d, va) ELSE Zero)
          = page_lookup(x, d, va)
  BY Lookup
<1> QED
  BY <1>1 DEF maps

\* Good on both sides of a step, and what the abstract variables are there.
LEMMA Now ==
  ASSUME IInv
  PROVE  /\ Good(m, dirs, held, pinned) /\ m \in MemState
         /\ spacesNow = maps(m, dirs) /\ contentNow = contents(m, dirs, held)
         /\ mCONTEXT \in dirs /\ DataPages = data_pages(m, dirs)
<1>1. Good(m, dirs, held, pinned) /\ m \in MemState /\ mCONTEXT \in dirs
  BY DEF IInv, Good, TypeOK
<1>2. spacesNow = maps(m, dirs)
  BY <1>1, AbstractState DEF spacesNow, Translation
<1> QED
  BY <1>1, <1>2 DEF contentNow, contents, DataPages

LEMMA NowPrimed ==
  ASSUME IInv'
  PROVE  /\ Good(m', dirs', held', pinned') /\ m' \in MemState
         /\ spacesNow' = maps(m', dirs') /\ contentNow' = contents(m', dirs', held')
<1>1. Good(m', dirs', held', pinned') /\ m' \in MemState
  BY DEF IInv, Good
<1>2. spacesNow' = maps(m', dirs')
  BY <1>1, AbstractState DEF spacesNow, Translation
<1> QED
  BY <1>1, <1>2 DEF contentNow, contents, DataPages

LEMMA BecomeNow ==
  ASSUME IInv, IInv', Becomes(m, dirs, held, m', dirs', held')
  PROVE  Become(spacesNow', held')
<1>1. /\ spacesNow' = maps(m', dirs') /\ contentNow' = contents(m', dirs', held')
      /\ contentNow = contents(m, dirs, held)
  BY Now, NowPrimed
<1> QED
  BY <1>1 DEF Becomes, Become

\* A step that keeps the maps, the held pages and their contents changes nothing
\* a client of AddrSpace can see.
LEMMA Stutter ==
  ASSUME IInv, IInv', dirs' = dirs, held' = held, mCONTEXT' = mCONTEXT, halted' = halted,
         \A d \in dirs, va \in Va : page_lookup(m', d, va) = page_lookup(m, d, va),
         \A p \in held \cup data_pages(m, dirs) : m'.mem[p] = m.mem[p]
  PROVE  UNCHANGED <<spacesNow, mCONTEXT, held, contentNow, halted>>
<1>1. /\ spacesNow' = maps(m', dirs') /\ contentNow' = contents(m', dirs', held')
      /\ spacesNow = maps(m, dirs) /\ contentNow = contents(m, dirs, held)
      /\ Good(m, dirs, held, pinned) /\ Good(m', dirs', held', pinned')
  BY Now, NowPrimed
<1>2. maps(m', dirs') = maps(m, dirs)
  BY DEF maps
<1>3. data_pages(m', dirs') = data_pages(m, dirs)
  BY <1>1, <1>2, NamedPages
<1> QED
  BY <1>1, <1>2, <1>3 DEF contents

\* The page page_alloc takes from the list is in no map and nobody's, and the
\* only one whose contents change; taking a reference changes none.
LEMMA Allocated ==
  ASSUME NEW x, NEW D, NEW H, NEW P, Good(x, D, H, P), ~page_alloc_fails(x)
  PROVE  LET p == page_alloc_pp(x)
             a == page_alloc(x)
             b == page_incref(a, p) IN
         /\ p \in Page /\ p \notin H \cup D \cup data_pages(x, D) \cup P
         /\ a \in MemState /\ Good(a, D, H \cup {p}, P)
         /\ a.mem[p] = ZeroPage /\ \A q \in AllPages : q # p => a.mem[q] = x.mem[q]
         /\ \A d \in D, va \in Va : page_lookup(a, d, va) = page_lookup(x, d, va)
         /\ b.mem = a.mem /\ b.ref[p] = 1
<1> DEFINE p == page_alloc_pp(x)
           a == page_alloc(x)
           b == page_incref(a, p)
<1>1. /\ x \in MemState /\ a \in MemState /\ p \in Page
  BY AllocType DEF Good
<1>2. a.mem = [x.mem EXCEPT ![p] = ZeroPage]
  BY <1>1 DEF page_alloc, MemState
<1>3. p \notin H /\ \A d \in D, va \in Va : page_lookup(a, d, va) = page_lookup(x, d, va)
  BY AllocKeepsMaps
<1>4. Good(a, D, H \cup {p}, P)
  BY GoodAlloc
<1>5. p \in Freed(x)
  BY <1>1 DEF page_alloc_fails, page_alloc_pp, Freed, MemState
<1>6. x.ref[p] = 0
  BY <1>1, <1>5 DEF Good, ListExact
<1> HIDE DEF a, p
<1>7. p \notin tables(x, D) \cup data_pages(x, D) \cup D \cup P
  BY <1>1, <1>6, CountZero
<1>8. a.mem[p] = ZeroPage /\ \A q \in AllPages : q # p => a.mem[q] = x.mem[q]
  BY <1>1, <1>2, PageFacts DEF MemState
<1>9. a.ref[p] = 0
  BY <1>4, HeldFacts
<1>10. b.mem = a.mem /\ b.ref[p] = 1
  BY <1>1, <1>9, IncrefFacts, PmapAssumption
<1> QED
  BY <1>1, <1>3, <1>4, <1>7, <1>8, <1>10 DEF a, p

-----------------------------------------------------------------------------
(***************************************************************************)
(* Every step is a step of AddrSpace, or none.                             *)
(***************************************************************************)

avarsNow == <<spacesNow, mCONTEXT, held, contentNow, halted>>

InUseNow == held \cup Named(spacesNow) \cup DOMAIN spacesNow

\* The actions of AddrSpace over spacesNow and contentNow.
LEMMA AllocForm ==
  ASSUME NEW p \in Page \ InUseNow, Become(spacesNow, held \cup {p}),
         UNCHANGED <<mCONTEXT, halted>>
  PROVE  Abstract!Alloc
BY DEF Become, Named, InUseNow, spacesNow, contentNow, Abstract!Alloc, Abstract!InUse,
       Abstract!Mapped, Abstract!Become, Abstract!Contents

LEMMA FreeForm ==
  ASSUME NEW p \in held, Become(spacesNow, held \ {p}), UNCHANGED <<mCONTEXT, halted>>
  PROVE  Abstract!Free
BY DEF Become, Named, spacesNow, contentNow, Abstract!Free,
       Abstract!Mapped, Abstract!Become, Abstract!Contents

LEMMA MapForm ==
  (\E d \in DOMAIN spacesNow, va \in Va :
     /\ UNCHANGED <<mCONTEXT, halted>>
     /\ \E perm \in SUBSET Flag, p \in held \cup Named(spacesNow) :
          /\ spacesNow'[d][va] = [pg |-> p, perm |-> perm]
          /\ Become([spacesNow EXCEPT ![d][va] = [pg |-> p, perm |-> perm]], held \ {p}))
  => Abstract!Map
BY DEF Become, Named, spacesNow, contentNow, Abstract!Map,
       Abstract!Mapped, Abstract!Become, Abstract!Contents

LEMMA UnmapForm ==
  ASSUME NEW d \in DOMAIN spacesNow, NEW va \in Va,
         Become([spacesNow EXCEPT ![d][va] = Zero], held), UNCHANGED <<mCONTEXT, halted>>
  PROVE  Abstract!Unmap
BY DEF Become, Named, spacesNow, contentNow, Abstract!Unmap,
       Abstract!Mapped, Abstract!Become, Abstract!Contents

LEMMA NewSpaceForm ==
  ASSUME NEW p \in Page \ InUseNow,
         Become([t \in DOMAIN spacesNow \cup {p} |->
                   IF t = p THEN [va \in Va |-> Zero] ELSE spacesNow[t]], held),
         UNCHANGED <<mCONTEXT, halted>>
  PROVE  Abstract!NewSpace
BY DEF Become, Named, InUseNow, spacesNow, contentNow, Abstract!NewSpace, Abstract!InUse,
       Abstract!Mapped, Abstract!Become, Abstract!Contents

LEMMA DemandForm ==
  ASSUME NEW va \in Va, NEW p \in Page \ InUseNow, spacesNow[mCONTEXT][va] = Zero,
         Become([spacesNow EXCEPT ![mCONTEXT][va] = [pg |-> p, perm |-> {"PTE_R"}]], held),
         UNCHANGED <<mCONTEXT, halted>>
  PROVE  Abstract!Demand
BY DEF Become, Named, InUseNow, spacesNow, contentNow, Abstract!Demand, Abstract!InUse,
       Abstract!Mapped, Abstract!Become, Abstract!Contents

LEMMA StoreForm ==
  (\E va \in Va, i \in Idx, w \in Word :
     LET e == spacesNow[mCONTEXT][va]
     IN  /\ e # Zero /\ writable(e.perm)
         /\ contentNow' = [contentNow EXCEPT ![e.pg][i] = w]
         /\ UNCHANGED <<spacesNow, mCONTEXT, held, halted>>)
  => Abstract!Store
BY DEF spacesNow, contentNow, Abstract!Store

LEMMA AllocStep ==
  ASSUME IInv, IInv', PageAlloc PROVE Abstract!Alloc
<1> DEFINE p == page_alloc_pp(m)
<1>1. /\ ~page_alloc_fails(m) /\ m' = page_alloc(m) /\ held' = held \cup {p}
      /\ UNCHANGED <<dirs, mCONTEXT, halted>>
  BY DEF PageAlloc
<1>2. /\ Good(m, dirs, held, pinned) /\ Good(m', dirs', held', pinned')
      /\ spacesNow = maps(m, dirs) /\ spacesNow' = maps(m', dirs')
  BY Now, NowPrimed
<1>3. /\ p \in Page /\ p \notin held \cup dirs \cup data_pages(m, dirs)
      /\ m'.mem[p] = ZeroPage /\ \A q \in AllPages : q # p => m'.mem[q] = m.mem[q]
      /\ \A d \in dirs, va \in Va : page_lookup(m', d, va) = page_lookup(m, d, va)
  BY <1>1, <1>2, Allocated
<1> HIDE DEF p
<1>4. maps(m', dirs') = maps(m, dirs)
  BY <1>1, <1>3 DEF maps
<1>5. data_pages(m', dirs') = data_pages(m, dirs) /\ Named(spacesNow) = data_pages(m, dirs)
  BY <1>2, <1>4, NamedPages
<1>6. held \cup data_pages(m, dirs) \subseteq AllPages
  BY <1>2, LiveType, PageFacts DEF Good, Sets
<1>7. Becomes(m, dirs, held, m', dirs', held')
  BY <1>1, <1>2, <1>3, <1>5, <1>6, ContentsBecome
<1>8. Become(spacesNow, held \cup {p})
  BY <1>1, <1>2, <1>4, <1>7, BecomeNow DEF Become
<1>9. p \in Page \ InUseNow
  BY <1>2, <1>3, <1>5 DEF maps, InUseNow
<1> QED
  BY <1>1, <1>8, <1>9, AllocForm

LEMMA FreeStep ==
  ASSUME IInv, IInv', PageFree PROVE Abstract!Free \/ UNCHANGED avarsNow
<1>1. PICK pp \in held \cup DataPages :
        /\ m' = page_free(m, pp) /\ held' = held \ {pp}
        /\ UNCHANGED <<dirs, mCONTEXT, halted>>
  BY DEF PageFree
<1>2. /\ Good(m, dirs, held, pinned) /\ Good(m', dirs', held', pinned')
      /\ spacesNow = maps(m, dirs) /\ spacesNow' = maps(m', dirs') /\ m \in MemState
      /\ DataPages = data_pages(m, dirs)
  BY Now, NowPrimed
<1>3. m'.mem = m.mem
  BY <1>1, <1>2 DEF page_free, MemState
<1>4. \A d \in dirs, va \in Va : page_lookup(m', d, va) = page_lookup(m, d, va)
  BY <1>3, SameMem
<1>5. CASE pp \in held
  <2>1. maps(m', dirs') = maps(m, dirs)
    BY <1>1, <1>4 DEF maps
  <2>2. data_pages(m', dirs') = data_pages(m, dirs)
    BY <1>2, <2>1, NamedPages
  <2>3. Becomes(m, dirs, held, m', dirs', held')
    BY <1>1, <1>2, <1>3, <2>2, ContentsBecome
  <2>4. Become(spacesNow, held \ {pp})
    BY <1>1, <1>2, <2>1, <2>3, BecomeNow DEF Become
  <2> QED
    BY <1>1, <1>5, <2>4, FreeForm
<1>6. CASE pp \notin held
  BY <1>1, <1>3, <1>4, <1>6, Stutter DEF avarsNow
<1> QED
  BY <1>5, <1>6

\* The pages a client may map.
LEMMA Insertable ==
  ASSUME NEW x, NEW D, NEW H, NEW P, Good(x, D, H, P), NEW p \in H \cup data_pages(x, D)
  PROVE  p \in Page /\ p \in AllPages /\ p \notin live(x, D) /\ (p \in H \/ x.ref[p] # 0)
<1>1. CASE p \in H
  BY <1>1, HeldFacts, PageFacts
<1>2. CASE p \in data_pages(x, D)
  <2>1. p \in Page
    BY <1>2, LiveType DEF Good, Sets
  <2> QED
    BY <1>2, <2>1, CountZero, PageFacts DEF Good, Forest, live
<1> QED
  BY <1>1, <1>2

\* One entry edited: the maps of the directory change there and nowhere else.
LEMMA EditedMaps ==
  ASSUME NEW x, NEW y, NEW D, NEW d \in D, NEW va \in Va, Edited(x, y, D, d, va)
  PROVE  maps(y, D) = [maps(x, D) EXCEPT ![d][va] = page_lookup(y, d, va)]
<1> DEFINE w == page_lookup(y, d, va)
<1>1. \A e \in D, u \in Va : page_lookup(y, e, u) = IF e = d /\ u = va THEN w
                                                    ELSE page_lookup(x, e, u)
  BY DEF Edited
<1>2. \A e \in D : [u \in Va |-> page_lookup(y, e, u)] =
                     IF e = d THEN [[u \in Va |-> page_lookup(x, e, u)] EXCEPT ![va] = w]
                     ELSE [u \in Va |-> page_lookup(x, e, u)]
  BY <1>1
<1> QED
  BY <1>2 DEF maps

\* ... and the pages they name are those of before, and the new one.
LEMMA EditedNamed ==
  ASSUME NEW x, NEW y, NEW D, NEW H, NEW P, Good(x, D, H, P), NEW G, NEW Q,
         Good(y, D, G, Q), NEW d \in D, NEW va \in Va, Edited(x, y, D, d, va)
  PROVE  \A q \in data_pages(y, D) :
           q \in data_pages(x, D) \/ (page_lookup(y, d, va) # Zero
                                      /\ q = page_lookup(y, d, va).pg)
<1> SUFFICES ASSUME NEW q \in data_pages(y, D), q \notin data_pages(x, D)
             PROVE  page_lookup(y, d, va) # Zero /\ q = page_lookup(y, d, va).pg
  OBVIOUS
<1>1. PICK e \in D, u \in Va : page_lookup(y, e, u) # Zero /\ page_lookup(y, e, u).pg = q
  BY MappedAt
<1>2. e = d /\ u = va
  <2> SUFFICES ASSUME e # d \/ u # va PROVE FALSE
    OBVIOUS
  <2>1. page_lookup(x, e, u) = page_lookup(y, e, u)
    BY DEF Edited
  <2> QED
    BY <1>1, <2>1, NamedPages
<1> QED
  BY <1>1, <1>2

LEMMA InsertStep ==
  ASSUME IInv, IInv', PageInsert PROVE Abstract!Map \/ UNCHANGED avarsNow
<1>1. PICK d \in Editable, pp \in held \cup DataPages, va \in UserVa, perm \in Perms :
        /\ m.ref[pp] < RefMax
        /\ m' = page_insert(m, d, pp, va, perm)
        /\ held' = IF page_insert_fails(m, d, pp, va) THEN held ELSE held \ {pp}
        /\ UNCHANGED <<dirs, mCONTEXT, halted>>
  BY DEF PageInsert
<1>2. /\ Good(m, dirs, held, pinned) /\ Good(m', dirs, held', pinned')
      /\ spacesNow = maps(m, dirs) /\ spacesNow' = maps(m', dirs)
      /\ DataPages = data_pages(m, dirs) /\ m \in MemState
  BY <1>1, Now, NowPrimed
<1>3. perm \in SUBSET Flag /\ va \in Va /\ d \in dirs
  BY PmapSysAssumption DEF Editable, IInv, TypeOK
<1>4. pp \in Page /\ pp \notin live(m, dirs) /\ (pp \in held \/ m.ref[pp] # 0)
  BY <1>2, Insertable
<1> DEFINE f == page_insert_fails(m, d, pp, va)
           w == [pg |-> pp, perm |-> perm]
           y == page_insert(m, d, pp, va, perm)
<1>y. /\ Good(y, dirs, IF f THEN held ELSE held \ {pp}, pinned) /\ Edited(m, y, dirs, d, va)
      /\ page_lookup(y, d, va) = IF f THEN page_lookup(m, d, va) ELSE w
      /\ f => y.mem = m.mem
      /\ \A q \in AllPages \ (live(m, dirs) \cup live(y, dirs)) : y.mem[q] = m.mem[q]
      /\ \A q \in live(y, dirs) \ live(m, dirs) :
           ~f /\ pde(m, d, va) = Zero /\ q = pde(y, d, va).pg
      /\ y.ref[pp] = m.ref[pp] \/ (~f /\ y.ref[pp] = m.ref[pp] + 1)
  BY <1>1, <1>2, <1>3, <1>4, InsertGood
<1>m. m' = y
  BY <1>1
<1> HIDE DEF f, w, y
<1>5. /\ Edited(m, m', dirs, d, va)
      /\ page_lookup(m', d, va) = IF f THEN page_lookup(m, d, va) ELSE w
      /\ f => m'.mem = m.mem
      /\ \A q \in AllPages \ (live(m, dirs) \cup live(m', dirs)) : m'.mem[q] = m.mem[q]
  BY <1>m, <1>y
<1> USE DEF w
<1>6. CASE f
  <2>1. \A e \in dirs, u \in Va : page_lookup(m', e, u) = page_lookup(m, e, u)
    BY <1>5, <1>6, SameMem
  <2>2. held' = held
    BY <1>1, <1>6 DEF f
  <2> QED
    BY <1>1, <1>5, <1>6, <2>1, <2>2, Stutter DEF avarsNow
<1>7. CASE ~f
  <2>1. held' = held \ {pp} /\ page_lookup(m', d, va) = w /\ w # Zero /\ w.pg = pp
    BY <1>1, <1>3, <1>4, <1>5, <1>7, ZeroAssumption DEF f, Pte
  <2>2. spacesNow' = [spacesNow EXCEPT ![d][va] = w]
    <3>1. maps(m', dirs) = [maps(m, dirs) EXCEPT ![d][va] = page_lookup(m', d, va)]
      BY <1>3, <1>5, EditedMaps
    <3> QED
      BY <1>2, <2>1, <3>1
  <2>3. \A q \in data_pages(m', dirs) : q \in data_pages(m, dirs) \/ q = pp
    BY <1>2, <1>3, <1>5, <2>1, EditedNamed
  <2>4. ASSUME NEW q \in held' \cup data_pages(m', dirs)
        PROVE  q \in held \cup data_pages(m, dirs) /\ m'.mem[q] = m.mem[q]
    <3>1. q \in held \cup data_pages(m, dirs)
      BY <1>2, <2>1, <2>3, <2>4
    <3>2. q \in AllPages /\ q \notin live(m, dirs)
      BY <1>2, <3>1, Insertable
    <3>3. q \notin live(m', dirs)
      BY <1>2, <2>4, Insertable
    <3> QED
      BY <1>5, <3>1, <3>2, <3>3
  <2>5. Becomes(m, dirs, held, m', dirs', held')
    BY <1>1, <1>2, <2>4, ContentsBecome
  <2>6. Become([spacesNow EXCEPT ![d][va] = w], held \ {pp})
    BY <2>1, <2>2, <2>5, BecomeNow DEF Become
  <2>7. pp \in held \cup Named(spacesNow) /\ d \in DOMAIN spacesNow
    BY <1>2, <1>3, NamedPages DEF maps
  <2>8. spacesNow'[d][va] = w
    BY <1>2, <1>3, <2>1 DEF maps
  <2> QED
    BY <1>1, <1>3, <2>6, <2>7, <2>8, MapForm
<1> QED
  BY <1>6, <1>7

LEMMA RemoveStep ==
  ASSUME IInv, IInv', PageRemove PROVE Abstract!Unmap
<1>1. PICK d \in Editable, va \in UserVa :
        m' = page_remove(m, d, va) /\ UNCHANGED <<dirs, held, mCONTEXT, halted>>
  BY DEF PageRemove
<1>2. /\ Good(m, dirs, held, pinned) /\ Good(m', dirs, held, pinned')
      /\ spacesNow = maps(m, dirs) /\ spacesNow' = maps(m', dirs)
  BY <1>1, Now, NowPrimed
<1>3. va \in Va /\ d \in dirs
  BY PmapSysAssumption DEF Editable, IInv, TypeOK
<1>4. /\ page_lookup(m', d, va) = Zero
      /\ page_lookup(m, d, va) = Zero => m' = m
      /\ page_lookup(m, d, va) # Zero => Edited(m, m', dirs, d, va)
  BY <1>1, <1>2, <1>3, RemoveGood
<1>5. /\ spacesNow' = [spacesNow EXCEPT ![d][va] = Zero]
      /\ \A q \in data_pages(m', dirs) : q \in data_pages(m, dirs)
  <2>1. CASE page_lookup(m, d, va) = Zero
    <3> DEFINE g == [u \in Va |-> page_lookup(m, d, u)]
    <3>1. [g EXCEPT ![va] = Zero] = g
      BY <1>3, <2>1
    <3>2. maps(m, dirs)[d] = g
      BY <1>3 DEF maps
    <3>3. maps(m, dirs) = [maps(m, dirs) EXCEPT ![d] = g]
      BY <1>3, <3>2 DEF maps
    <3> HIDE DEF g
    <3>4. maps(m, dirs) = [maps(m, dirs) EXCEPT ![d][va] = Zero]
      BY <3>1, <3>2, <3>3
    <3>5. m' = m
      BY <1>4, <2>1
    <3>6. spacesNow' = [spacesNow EXCEPT ![d][va] = Zero]
      BY <1>2, <3>4, <3>5
    <3> QED
      BY <3>5, <3>6
  <2>2. CASE page_lookup(m, d, va) # Zero
    <3>0. maps(m', dirs) = [maps(m, dirs) EXCEPT ![d][va] = page_lookup(m', d, va)]
      <4>1. Edited(m, m', dirs, d, va)
        BY <1>4, <2>2
      <4> QED
        BY <1>3, <4>1, EditedMaps
    <3>1. page_lookup(m', d, va) = Zero
      BY <1>4
    <3>2. spacesNow' = [spacesNow EXCEPT ![d][va] = Zero]
      BY <1>2, <3>0, <3>1
    <3> QED
      BY <1>2, <1>3, <1>4, <2>2, <3>2, EditedNamed
  <2> QED
    BY <2>1, <2>2
<1>6. ASSUME NEW q \in held \cup data_pages(m', dirs)
      PROVE  q \in held \cup data_pages(m, dirs) /\ m'.mem[q] = m.mem[q]
  <2>1. q \in held \cup data_pages(m, dirs)
    BY <1>5
  <2>2. q \in AllPages /\ q \notin tables(m, dirs)
    BY <1>2, <2>1, Insertable DEF live
  <2> QED
    BY <1>1, <1>2, <1>3, <2>1, <2>2, RemoveMemory
<1>7. Becomes(m, dirs, held, m', dirs', held')
  BY <1>1, <1>2, <1>6, ContentsBecome
<1>8. Become([spacesNow EXCEPT ![d][va] = Zero], held)
  BY <1>1, <1>5, <1>7, BecomeNow DEF Become
<1>9. d \in DOMAIN spacesNow
  BY <1>2, <1>3 DEF maps
<1> QED
  BY <1>1, <1>3, <1>8, <1>9, UnmapForm

LEMMA SetupStep ==
  ASSUME IInv, IInv', EnvSetupVm, ~page_alloc_fails(m) PROVE Abstract!NewSpace
<1> DEFINE p == page_alloc_pp(m)
           a == page_alloc(m)
<1>1. m' = page_incref(a, p) /\ dirs' = dirs \cup {p} /\ UNCHANGED <<mCONTEXT, held, halted>>
  BY DEF EnvSetupVm
<1>2. /\ Good(m, dirs, held, pinned) /\ Good(m', dirs', held, pinned')
      /\ spacesNow = maps(m, dirs) /\ spacesNow' = maps(m', dirs')
  BY <1>1, Now, NowPrimed
<1>3. /\ p \in Page /\ p \notin held \cup dirs \cup data_pages(m, dirs)
      /\ a.mem[p] = ZeroPage /\ \A q \in AllPages : q # p => a.mem[q] = m.mem[q]
      /\ \A d \in dirs, va \in Va : page_lookup(a, d, va) = page_lookup(m, d, va)
      /\ page_incref(a, p).mem = a.mem
  BY <1>2, Allocated
<1> HIDE DEF p, a
<1>4. m'.mem = a.mem
  BY <1>1, <1>3
<1>5. \A d \in dirs, va \in Va : page_lookup(m', d, va) = page_lookup(m, d, va)
  BY <1>3, <1>4, SameMem
<1>6. ASSUME NEW va \in Va PROVE page_lookup(m', p, va) = Zero
  <2>1. PDX(va) \in Idx /\ p \in dirs'
    BY <1>1 DEF Va, PDX
  <2>2. pde(m', p, va) = Zero
    BY <1>3, <1>4, <2>1 DEF pde, ZeroPage
  <2> QED
    BY <1>2, <2>1, <2>2, Lookup
<1>7. maps(m', dirs') = [t \in DOMAIN spacesNow \cup {p} |->
                           IF t = p THEN [va \in Va |-> Zero] ELSE spacesNow[t]]
  BY <1>1, <1>2, <1>3, <1>5, <1>6 DEF maps
<1>8. ASSUME NEW q \in data_pages(m', dirs') PROVE q \in data_pages(m, dirs)
  <2>1. PICK d \in dirs', va \in Va : page_lookup(m', d, va) # Zero
                                      /\ page_lookup(m', d, va).pg = q
    BY MappedAt
  <2>2. d \in dirs
    BY <1>1, <1>6, <2>1
  <2> QED
    BY <1>2, <1>5, <2>1, <2>2, NamedPages
<1>9. ASSUME NEW q \in held' \cup data_pages(m', dirs')
      PROVE  q \in held \cup data_pages(m, dirs) /\ m'.mem[q] = m.mem[q]
  <2>1. q \in held \cup data_pages(m, dirs)
    BY <1>1, <1>8
  <2>2. q \in AllPages /\ q # p
    BY <1>2, <1>3, <2>1, Insertable
  <2> QED
    BY <1>3, <1>4, <2>1, <2>2
<1>10. Becomes(m, dirs, held, m', dirs', held')
  BY <1>1, <1>2, <1>9, ContentsBecome
<1>11. Become([t \in DOMAIN spacesNow \cup {p} |->
                 IF t = p THEN [va \in Va |-> Zero] ELSE spacesNow[t]], held)
  BY <1>1, <1>2, <1>7, <1>10, BecomeNow DEF Become
<1>12. p \in Page \ InUseNow
  BY <1>2, <1>3, NamedPages DEF InUseNow, maps
<1> QED
  BY <1>1, <1>11, <1>12, NewSpaceForm

LEMMA RunStep ==
  ASSUME IInv, IInv', EnvRun PROVE Abstract!Switch
<1>1. PICK d \in dirs : /\ mCONTEXT' = d /\ m' = [m EXCEPT !.asid = Asid(d)]
                        /\ UNCHANGED <<dirs, held, halted>>
  BY DEF EnvRun
<1>2. /\ Good(m, dirs, held, pinned) /\ Good(m', dirs', held', pinned') /\ m \in MemState
      /\ spacesNow = maps(m, dirs) /\ spacesNow' = maps(m', dirs')
      /\ contentNow = contents(m, dirs, held) /\ contentNow' = contents(m', dirs', held')
  BY Now, NowPrimed
<1>3. m'.mem = m.mem
  BY <1>1, <1>2 DEF MemState
<1>s. \A c, va : page_lookup(m', c, va) = page_lookup(m, c, va)
  BY <1>3, SameMem
<1>4. maps(m', dirs') = maps(m, dirs)
  BY <1>1, <1>s DEF maps
<1>5. data_pages(m', dirs') = data_pages(m, dirs)
  BY <1>2, <1>4, NamedPages
<1>6. spacesNow' = spacesNow /\ contentNow' = contentNow
  BY <1>1, <1>2, <1>3, <1>4, <1>5 DEF contents
<1>7. d \in DOMAIN spacesNow
  BY <1>2 DEF maps
<1> QED
  BY <1>1, <1>6, <1>7 DEF Abstract!Switch, spacesNow, contentNow

LEMMA StoreStep ==
  ASSUME IInv, IInv', UserStore PROVE Abstract!Store
<1>1. PICK va \in UserVa, i \in UserIdx, w \in UserWords, t \in m.tlb :
        /\ t \in TlbHit(m, va) /\ t.wr /\ m' = store(m, <<t.pg, i>>, w)
        /\ UNCHANGED <<dirs, mCONTEXT, held, halted>>
  BY DEF UserStore, TlbHit
<1>2. /\ Good(m, dirs, held, pinned) /\ Good(m', dirs', held', pinned') /\ m \in MemState
      /\ spacesNow = maps(m, dirs) /\ spacesNow' = maps(m', dirs') /\ mCONTEXT \in dirs
      /\ contentNow = contents(m, dirs, held) /\ contentNow' = contents(m', dirs', held')
  BY Now, NowPrimed
<1>3. va \in Va /\ i \in Idx /\ w \in Word
  BY PmapSysAssumption
<1>4. t \in m.tlb /\ t.va = va /\ t.asid = Asid(mCONTEXT)
  BY <1>1 DEF TlbHit, IInv
<1>5. PICK d \in dirs : Match(m, t, d)
  BY <1>4 DEF IInv, Coherent
<1>6. d = mCONTEXT
  BY <1>2, <1>4, <1>5, AsidInjective DEF Match, Good, Sets
<1> DEFINE e == page_lookup(m, mCONTEXT, va)
<1>7. e # Zero /\ t.pg = e.pg /\ writable(e.perm)
  BY <1>1, <1>4, <1>5, <1>6 DEF Match, writable
<1>8. e = spacesNow[mCONTEXT][va] /\ e.pg \in data_pages(m, dirs)
  BY <1>2, <1>3, <1>7, NamedPages DEF maps
<1> HIDE DEF e
<1>9. /\ \A q \in live(m, dirs) : m'.mem[q] = m.mem[q]
  BY <1>1, <1>2, <1>3, <1>7, <1>8, GoodUserStore
<1>10. e.pg \in AllPages /\ e.pg \in Page
  BY <1>2, <1>8, Insertable
<1>11. m'.mem = [m.mem EXCEPT ![e.pg][i] = w]
  BY <1>1, <1>2, <1>7 DEF store, MemState
<1>12. m'.mem[LowPage] = m.mem[LowPage]
  BY <1>2, <1>10, <1>11, PageFacts DEF MemState
<1>13. \A c \in dirs, u \in Va : page_lookup(m', c, u) = page_lookup(m, c, u)
  BY <1>2, <1>9, <1>12, SameWordsLookup
<1>14. maps(m', dirs') = maps(m, dirs)
  BY <1>1, <1>13 DEF maps
<1>15. data_pages(m', dirs') = data_pages(m, dirs)
  BY <1>2, <1>14, NamedPages
<1>16. contentNow' = [contentNow EXCEPT ![e.pg][i] = w]
  <2>1. held \cup data_pages(m, dirs) \subseteq AllPages
    BY <1>2, Insertable
  <2>2. \A q \in AllPages : m'.mem[q] = IF q = e.pg THEN [m.mem[q] EXCEPT ![i] = w]
                                        ELSE m.mem[q]
    BY <1>2, <1>10, <1>11 DEF MemState
  <2>3. contents(m', dirs', held') =
          [q \in held \cup data_pages(m, dirs) |->
             IF q = e.pg THEN [m.mem[q] EXCEPT ![i] = w] ELSE m.mem[q]]
    BY <1>1, <1>15, <2>1, <2>2 DEF contents
  <2>4. [contents(m, dirs, held) EXCEPT ![e.pg][i] = w] =
          [q \in held \cup data_pages(m, dirs) |->
             IF q = e.pg THEN [m.mem[q] EXCEPT ![i] = w] ELSE m.mem[q]]
    BY <1>8 DEF contents
  <2> QED
    BY <1>2, <2>3, <2>4
<1> QED
  BY <1>1, <1>2, <1>3, <1>7, <1>8, <1>14, <1>16, StoreForm

LEMMA PageoutStep ==
  ASSUME IInv, IInv', RefillPageout, ~pageout_panics
  PROVE  Abstract!Demand \/ UNCHANGED avarsNow
<1> DEFINE p    == page_alloc_pp(m)
           a    == page_alloc(m)
           b    == page_incref(a, p)
           perm == {"PTE_R"}
           w    == [pg |-> p, perm |-> perm]
           f    == page_insert_fails(b, mCONTEXT, p, fault)
<1>1. /\ m' = page_insert(b, mCONTEXT, p, fault, perm)
      /\ ~page_alloc_fails(m) /\ ~refill_finds(m, mCONTEXT, fault)
      /\ UNCHANGED <<dirs, mCONTEXT, held, halted>>
  BY DEF RefillPageout, pageout_panics
<1>2. /\ Good(m, dirs, held, pinned) /\ Good(m', dirs, held, pinned') /\ m \in MemState
      /\ spacesNow = maps(m, dirs) /\ spacesNow' = maps(m', dirs) /\ mCONTEXT \in dirs
  BY <1>1, Now, NowPrimed
<1>3. fault \in Va
  BY DEF RefillPageout, IInv, TypeOK
<1>4. /\ p \in Page /\ p \notin held \cup dirs \cup data_pages(m, dirs) \cup pinned
      /\ a \in MemState /\ Good(a, dirs, held \cup {p}, pinned)
      /\ a.mem[p] = ZeroPage /\ \A q \in AllPages : q # p => a.mem[q] = m.mem[q]
      /\ \A d \in dirs, va \in Va : page_lookup(a, d, va) = page_lookup(m, d, va)
      /\ b.mem = a.mem /\ b.ref[p] = 1
  BY <1>1, <1>2, Allocated
<1> HIDE DEF p, a
<1>5. Good(b, dirs, (held \cup {p}) \ {p}, pinned \cup {p})
  BY <1>4, GoodPin
<1>6. (held \cup {p}) \ {p} = held
  BY <1>4
<1>7. Good(b, dirs, held, pinned \cup {p})
  BY <1>5, <1>6
<1>8. p \notin live(b, dirs) /\ p \notin live(a, dirs)
  <2>1. p \notin live(a, dirs)
    BY <1>4, HeldFacts
  <2> QED
    BY <1>4, <2>1, SameMem
<1>9. \A d \in dirs, va \in Va : page_lookup(b, d, va) = page_lookup(m, d, va)
  BY <1>4, SameMem
<1>10. perm \in SUBSET Flag /\ w # Zero /\ w.pg = p /\ b.ref[p] # 0 /\ b.ref[p] < RefMax
  BY <1>4, ZeroAssumption, PmapAssumption DEF Flag, Pte
<1> HIDE DEF b, f
<1>11. /\ Edited(b, m', dirs, mCONTEXT, fault)
       /\ page_lookup(m', mCONTEXT, fault) = IF f THEN page_lookup(b, mCONTEXT, fault) ELSE w
       /\ f => m'.mem = b.mem
       /\ \A q \in AllPages \ (live(b, dirs) \cup live(m', dirs)) : m'.mem[q] = b.mem[q]
  <2> HIDE DEF perm
  <2> QED
    BY <1>1, <1>2, <1>3, <1>4, <1>7, <1>8, <1>10, InsertGood DEF f
<1>12. data_pages(b, dirs) = data_pages(m, dirs)
  <2>1. maps(b, dirs) = maps(m, dirs)
    BY <1>9 DEF maps
  <2> QED
    BY <1>2, <1>7, <2>1, NamedPages
<1>13. CASE f
  <2>1. \A e \in dirs, u \in Va : page_lookup(m', e, u) = page_lookup(m, e, u)
    BY <1>9, <1>11, <1>13, SameMem
  <2>2. ASSUME NEW q \in held \cup data_pages(m, dirs) PROVE m'.mem[q] = m.mem[q]
    <3>1. q \in AllPages /\ q # p
      BY <1>2, <1>4, Insertable
    <3> QED
      BY <1>4, <1>11, <1>13, <3>1
  <2> QED
    BY <1>1, <2>1, <2>2, Stutter DEF avarsNow
<1>14. CASE ~f
  <2>1. page_lookup(m', mCONTEXT, fault) = w
    BY <1>11, <1>14
  <2>2. spacesNow' = [spacesNow EXCEPT ![mCONTEXT][fault] = w]
    <3>1. maps(m', dirs) = [maps(b, dirs) EXCEPT ![mCONTEXT][fault] =
                              page_lookup(m', mCONTEXT, fault)]
      BY <1>2, <1>3, <1>11, EditedMaps
    <3>2. maps(b, dirs) = maps(m, dirs)
      BY <1>9 DEF maps
    <3> HIDE DEF w
    <3> QED
      BY <1>2, <2>1, <3>1, <3>2
  <2>3. \A q \in data_pages(m', dirs) : q \in data_pages(m, dirs) \/ q = p
    <3>1. \A q \in data_pages(m', dirs) :
            q \in data_pages(b, dirs) \/ q = page_lookup(m', mCONTEXT, fault).pg
      BY <1>2, <1>3, <1>7, <1>11, EditedNamed
    <3> QED
      BY <1>10, <1>12, <2>1, <3>1
  <2>4. ASSUME NEW q \in held' \cup data_pages(m', dirs)
        PROVE  m'.mem[q] = IF q \in held \cup data_pages(m, dirs) THEN m.mem[q]
                           ELSE ZeroPage
    <3>1. q \in held \cup data_pages(m, dirs) \/ q = p
      BY <1>1, <2>3
    <3>2. q \in AllPages /\ q \notin live(m', dirs)
      BY <1>1, <1>2, Insertable
    <3>3. q \notin live(b, dirs)
      <4>1. CASE q = p
        BY <1>8, <4>1
      <4>2. CASE q \in held \cup data_pages(b, dirs)
        BY <1>7, <4>2, Insertable
      <4> QED
        BY <1>12, <3>1, <4>1, <4>2
    <3>4. m'.mem[q] = a.mem[q]
      BY <1>4, <1>11, <3>2, <3>3
    <3> QED
      BY <1>4, <3>1, <3>2, <3>4
  <2>5. Becomes(m, dirs, held, m', dirs', held')
    BY <1>1, <1>2, <2>4, ContentsBecome
  <2>6. Become([spacesNow EXCEPT ![mCONTEXT][fault] = w], held)
    BY <1>1, <2>2, <2>5, BecomeNow DEF Become
  <2>7. p \in Page \ InUseNow
    BY <1>2, <1>4, NamedPages DEF InUseNow, maps
  <2>8. spacesNow[mCONTEXT][fault] = Zero
    BY <1>1, <1>2, <1>3, Lookup DEF maps
  <2> QED
    BY <1>1, <1>3, <2>6, <2>7, <2>8, DemandForm
<1> QED
  BY <1>13, <1>14

-----------------------------------------------------------------------------
(***************************************************************************)
(* The theorem.                                                            *)
(***************************************************************************)

LEMMA InitRefines == Init => Abstract!AInit
<1> SUFFICES ASSUME Init PROVE Abstract!AInit
  OBVIOUS
<1>1. IInv
  BY InitIInv
<1>2. /\ dirs = {boot_pgdir} /\ held = {} /\ mCONTEXT = boot_pgdir /\ halted = FALSE
      /\ m.mem = [p \in AllPages |-> ZeroPage]
  BY <1>1 DEF Init, boot_ram
<1>3. Good(m, dirs, held, pinned) /\ boot_pgdir \in AllPages
  BY <1>1, BootPage DEF IInv
<1>4. ASSUME NEW va \in Va PROVE Translation(boot_pgdir, va) = Zero
  <2>1. PDX(va) \in Idx
    BY DEF Va, PDX
  <2>2. pde(m, boot_pgdir, va) = Zero
    BY <1>2, <1>3, <2>1 DEF pde, ZeroPage
  <2> QED
    BY <2>2 DEF Translation, refill_finds
<1>5. spacesNow = [s \in {boot_pgdir} |-> [va \in Va |-> Zero]]
  BY <1>2, <1>4 DEF spacesNow
<1>6. DataPages = {}
  <2>1. tables(m, dirs) = {}
    BY <1>2, <1>3 DEF tables, word, ZeroPage
  <2> QED
    BY <2>1 DEF DataPages, data_pages
<1>7. contentNow = [p \in {} |-> Zero]
  BY <1>2, <1>6 DEF contentNow
<1> QED
  BY <1>2, <1>5, <1>7 DEF Abstract!AInit, spacesNow, contentNow

LEMMA StepRefines ==
  IInv /\ IInv' /\ [Next]_vars => [Abstract!ANext]_(Abstract!avars)
<1> SUFFICES ASSUME IInv, IInv', [Next]_vars
             PROVE  Abstract!ANext \/ UNCHANGED avarsNow
  BY DEF avarsNow, spacesNow, contentNow, Abstract!avars
<1>1. CASE PageAlloc
  BY <1>1, AllocStep DEF PageAlloc, Ready, Abstract!ANext
<1>2. CASE PageFree
  BY <1>2, FreeStep DEF PageFree, Ready, Abstract!ANext
<1>3. CASE PageInsert
  BY <1>3, InsertStep DEF PageInsert, Ready, Abstract!ANext
<1>4. CASE PageRemove
  BY <1>4, RemoveStep DEF PageRemove, Ready, Abstract!ANext
<1>s. ASSUME halted' = TRUE, ~halted, UNCHANGED <<m, dirs, mCONTEXT, held>>
      PROVE  Abstract!ANext
  <2>1. UNCHANGED <<spacesNow, contentNow>>
    BY <1>s DEF spacesNow, contentNow, Translation, DataPages
  <2> QED
    BY <1>s, <2>1 DEF Abstract!ANext, Abstract!Stop, spacesNow, contentNow
<1>5. CASE EnvSetupVm
  <2>1. CASE page_alloc_fails(m)
    BY <1>5, <1>s, <2>1 DEF EnvSetupVm, Ready
  <2>2. CASE ~page_alloc_fails(m)
    BY <1>5, <2>2, SetupStep DEF EnvSetupVm, Ready, Abstract!ANext
  <2> QED
    BY <2>1, <2>2
<1>6. CASE EnvRun
  BY <1>6, RunStep DEF EnvRun, Ready, Abstract!ANext
<1>7. CASE TlbMiss
  BY <1>7, Stutter DEF TlbMiss, avarsNow
<1>8. CASE UserStore
  BY <1>8, StoreStep DEF UserStore, Ready, Abstract!ANext
<1>9. CASE RefillLoad
  <2>1. m'.mem = m.mem /\ UNCHANGED <<dirs, mCONTEXT, held, halted>>
    BY <1>9, Now DEF RefillLoad, tlbwr, MemState
  <2> QED
    BY <2>1, SameMem, Stutter DEF avarsNow
<1>10. CASE RefillPageout
  <2>1. CASE pageout_panics
    BY <1>10, <1>s, <2>1 DEF RefillPageout
  <2>2. CASE ~pageout_panics
    BY <1>10, <2>2, PageoutStep DEF RefillPageout, Abstract!ANext
  <2> QED
    BY <2>1, <2>2
<1>11. CASE PanicLoop \/ UNCHANGED vars
  BY <1>11, Stutter DEF PanicLoop, vars, avarsNow
<1> QED
  BY <1>1, <1>2, <1>3, <1>4, <1>5, <1>6, <1>7, <1>8, <1>9, <1>10, <1>11 DEF Next

\* mm/pmap.c keeps the promise of AddrSpace: page_insert happens whole or not at
\* all, page_remove and page_free change the one address or page they name,
\* page_alloc hands out clear pages nobody uses, and what the running program
\* stores through the TLB lands in the page its own map names.
THEOREM AddrSpaceImplemented == Spec => ImplementsAddrSpace
<1> QED
  BY InitRefines, StepRefines, Invariant, PTL
  DEF Spec, ImplementsAddrSpace, Abstract!ASpec
=============================================================================
