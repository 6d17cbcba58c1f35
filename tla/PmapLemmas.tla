---------------------------- MODULE PmapLemmas -----------------------------
(***************************************************************************)
(* What the functions of Pmap do, for every number of pages, every page    *)
(* size and every address: each keeps the types, and each leads from a     *)
(* good state to a good one.  Good is stated of any state x, directories   *)
(* D, held pages H and pinned pages P: the free list and the reference     *)
(* counts are exact, the page tables form a forest, and held pages are     *)
(* clear.                                                                  *)
(***************************************************************************)
EXTENDS Pmap, FiniteSetTheorems, TLAPS

-----------------------------------------------------------------------------
(***************************************************************************)
(* The functions of Pmap keep the types.                                   *)
(***************************************************************************)

LEMMA PageFacts ==
  /\ Page \subseteq AllPages /\ LowPage \in AllPages /\ LowPage \notin Page
BY PmapAssumption DEF Page, AllPages, LowPage

\* pp_ref++ and pp_ref-- stay within 16 bits.
LEMMA CountType ==
  \A n \in 0 .. RefMax : Inc(n) \in 0 .. RefMax /\ Dec(n) \in 0 .. RefMax
BY PmapAssumption DEF Inc, Dec

LEMMA AllocType ==
  ASSUME NEW x \in MemState, ~page_alloc_fails(x)
  PROVE  page_alloc(x) \in MemState /\ page_alloc_pp(x) \in Page
<1>1. page_alloc_pp(x) \in Page /\ Tail(x.free) \in Seq(Page)
  BY DEF page_alloc_fails, page_alloc_pp, MemState
<1>2. ZeroPage \in [Idx -> Word]
  BY DEF ZeroPage, Word
<1> QED
  BY <1>1, <1>2, PageFacts DEF page_alloc, MemState

LEMMA StoreType ==
  ASSUME NEW x \in MemState, NEW s \in AllPages \X Idx, NEW w \in Word
  PROVE  store(x, s, w) \in MemState
BY DEF store, MemState

LEMMA CountersType ==
  ASSUME NEW x \in MemState, NEW pp \in Page
  PROVE  /\ page_free(x, pp) \in MemState
         /\ page_incref(x, pp) \in MemState
         /\ page_decref(x, pp) \in MemState
<1>1. ASSUME NEW y \in MemState PROVE page_free(y, pp) \in MemState
  <2>1. <<pp>> \o y.free \in Seq(Page)
    BY DEF MemState
  <2> QED
    BY <2>1 DEF page_free, MemState
<1>2. page_incref(x, pp) \in MemState /\ [x EXCEPT !.ref[pp] = Dec(@)] \in MemState
  BY CountType, PageFacts DEF page_incref, MemState
<1> QED
  BY <1>1, <1>2 DEF page_decref

LEMMA InvalidateType ==
  ASSUME NEW x \in MemState, NEW va \in Va
  PROVE  tlb_invalidate(x, va) \in MemState
BY DEF tlb_invalidate, MemState

LEMMA WalkType ==
  ASSUME NEW x \in MemState, NEW d \in AllPages, NEW va \in Va
  PROVE  /\ walk(x, d, va) \in AllPages \X Idx
         /\ page_lookup(x, d, va) \in Word
         /\ pde(x, d, va) \in Word
<1>1. PDX(va) \in Idx /\ PTX(va) \in Idx
  BY DEF PDX, PTX, Va
<1>2. pde(x, d, va) \in Word
  BY <1>1 DEF pde, MemState
<1>3. walk(x, d, va) \in AllPages \X Idx
  BY <1>1, <1>2, PageFacts DEF walk, Word, Pte
<1> QED
  BY <1>2, <1>3 DEF page_lookup, word, MemState

LEMMA CreateType ==
  ASSUME NEW x \in MemState, NEW d \in AllPages, NEW va \in Va,
         ~walk_create_fails(x, d, va)
  PROVE  walk_create(x, d, va) \in MemState
<1>1. CASE pde(x, d, va) # Zero
  BY <1>1 DEF walk_create
<1>2. CASE pde(x, d, va) = Zero
  <2> DEFINE pp == page_alloc_pp(x)
             w  == [pg |-> pp, perm |-> {"PTE_R"}]
  <2>1. page_alloc(x) \in MemState /\ pp \in Page
    BY <1>2, AllocType DEF walk_create_fails
  <2>2. w \in Word /\ <<d, PDX(va)>> \in AllPages \X Idx
    BY <2>1 DEF Word, Pte, Flag, PDX, Va
  <2>3. store(page_alloc(x), <<d, PDX(va)>>, w) \in MemState
    BY <2>1, <2>2, StoreType
  <2> QED
    BY <1>2, <2>1, <2>3, CountersType DEF walk_create
<1> QED
  BY <1>1, <1>2

LEMMA RemoveType ==
  ASSUME NEW x \in MemState, NEW d \in AllPages, NEW va \in Va
  PROVE  page_remove(x, d, va) \in MemState
<1> DEFINE w == page_lookup(x, d, va)
<1>1. CASE w = Zero
  BY <1>1 DEF page_remove
<1>2. CASE w # Zero
  <2>1. w.pg \in Page
    BY <1>2, WalkType DEF Word, Pte
  <2>2. page_decref(x, w.pg) \in MemState
    BY <2>1, CountersType
  <2>3. store(page_decref(x, w.pg), walk(x, d, va), Zero) \in MemState
    BY <2>2, WalkType, StoreType DEF Word
  <2> QED
    BY <1>2, <2>3, InvalidateType DEF page_remove
<1> QED
  BY <1>1, <1>2

LEMMA InsertType ==
  ASSUME NEW x \in MemState, NEW d \in AllPages, NEW pp \in Page,
         NEW va \in Va, NEW perm \in SUBSET Flag
  PROVE  page_insert(x, d, pp, va, perm) \in MemState
<1> DEFINE w == [pg |-> pp, perm |-> perm]
           r == insert_clear(x, d, va)
           c == walk_create(r, d, va)
<1>1. w \in Word
  BY DEF Word, Pte
<1>2. insert_rewrite(x, d, pp, va, perm) \in MemState
  BY <1>1, InvalidateType, WalkType, StoreType DEF insert_rewrite
<1>3. r \in MemState
  BY RemoveType, InvalidateType DEF insert_clear
<1>4. ASSUME ~walk_create_fails(r, d, va)
      PROVE  insert_write(r, d, pp, va, perm) \in MemState
  <2>1. c \in MemState
    BY <1>3, <1>4, CreateType
  <2>2. store(c, walk(c, d, va), w) \in MemState
    BY <1>1, <2>1, WalkType, StoreType
  <2> QED
    BY <2>2, CountersType DEF insert_write
<1> QED
  BY <1>2, <1>3, <1>4 DEF page_insert

-----------------------------------------------------------------------------
(***************************************************************************)
(* Good states.                                                            *)
(***************************************************************************)

Freed(x) == {x.free[k] : k \in 1 .. Len(x.free)}

ListExact(x, H) ==
  /\ \A j, k \in 1 .. Len(x.free) : x.free[j] = x.free[k] => j = k
  /\ \A p \in Page : p \in Freed(x) <=> x.ref[p] = 0 /\ p \notin H

CountExact(x, D, P) ==
  \A p \in Page :
    x.ref[p] = Cardinality(pointers(x, D, p)) + (IF p \in D THEN 1 ELSE 0)
                                              + (IF p \in P THEN 1 ELSE 0)

Forest(x, D, H) ==
  /\ \A t \in tables(x, D) : \A r, s \in pointers(x, D, t) : r = s
  /\ tables(x, D) \cap (D \cup data_pages(x, D) \cup H) = {}
  /\ data_pages(x, D) \cap (D \cup H) = {}
  /\ D \cap H = {}

Clear(x, H) ==
  /\ \A p \in H : x.mem[p] = ZeroPage
  /\ \A i \in Idx : x.mem[LowPage][i] = Zero

Sets(D, H, P) ==
  /\ D \subseteq AllPages \ {LowPage} /\ H \subseteq Page /\ P \subseteq Page
  /\ P \cap H = {}

Good(x, D, H, P) ==
  /\ x \in MemState /\ Sets(D, H, P)
  /\ ListExact(x, H) /\ CountExact(x, D, P) /\ Forest(x, D, H) /\ Clear(x, H)

-----------------------------------------------------------------------------
(***************************************************************************)
(* What Good says of single pages.                                         *)
(***************************************************************************)

LEMMA SlotFinite ==
  ASSUME NEW S \in SUBSET (AllPages \X Idx)
  PROVE  IsFiniteSet(S) /\ Cardinality(S) \in Nat
<1>1. IsFiniteSet(AllPages)
  BY FS_Interval, PmapAssumption DEF AllPages
<1>2. IsFiniteSet(AllPages \X Idx)
  BY <1>1, FS_Product, PmapAssumption
<1>3. IsFiniteSet(S)
  BY <1>2, FS_Subset
<1> QED
  BY <1>3, FS_CardinalityType

LEMMA LiveType ==
  ASSUME NEW x \in MemState, NEW D \in SUBSET AllPages
  PROVE  /\ tables(x, D) \subseteq Page /\ data_pages(x, D) \subseteq Page
         /\ live(x, D) \subseteq AllPages
         /\ \A p : pointers(x, D, p) \in SUBSET (AllPages \X Idx)
<1>1. ASSUME NEW s \in AllPages \X Idx, word(x, s) # Zero PROVE word(x, s).pg \in Page
  BY <1>1 DEF MemState, word, Word, Pte
<1>2. tables(x, D) \subseteq Page
  BY <1>1 DEF tables
<1>3. data_pages(x, D) \subseteq Page
  BY <1>1, <1>2, PageFacts DEF data_pages
<1>4. live(x, D) \subseteq AllPages
  BY <1>2, PageFacts DEF live
<1> QED
  BY <1>2, <1>3, <1>4 DEF pointers

\* A page has a pointer exactly when it is a table or mapped.
LEMMA PointedTo ==
  ASSUME NEW x, NEW D, NEW p
  PROVE  pointers(x, D, p) = {} <=> p \notin tables(x, D) \cup data_pages(x, D)
<1>1. ASSUME NEW s \in pointers(x, D, p) PROVE p \in tables(x, D) \cup data_pages(x, D)
  BY <1>1 DEF pointers, live, tables, data_pages
<1>2. ASSUME p \in tables(x, D) PROVE pointers(x, D, p) # {}
  BY <1>2 DEF pointers, live, tables
<1>3. ASSUME p \in data_pages(x, D) PROVE pointers(x, D, p) # {}
  BY <1>3 DEF pointers, live, data_pages
<1> QED
  BY <1>1, <1>2, <1>3

LEMMA CountZero ==
  ASSUME NEW x, NEW D, NEW H, NEW P, Good(x, D, H, P), NEW p \in Page
  PROVE  x.ref[p] = 0 <=> p \notin tables(x, D) \cup data_pages(x, D) \cup D \cup P
<1>1. IsFiniteSet(pointers(x, D, p)) /\ Cardinality(pointers(x, D, p)) \in Nat
  BY LiveType, SlotFinite DEF Good, Sets
<1>2. Cardinality(pointers(x, D, p)) = 0 <=> pointers(x, D, p) = {}
  BY <1>1, FS_EmptySet
<1>3. x.ref[p] = Cardinality(pointers(x, D, p)) + (IF p \in D THEN 1 ELSE 0)
                                                + (IF p \in P THEN 1 ELSE 0)
  BY DEF Good, CountExact
<1> QED
  BY <1>1, <1>2, <1>3, PointedTo

LEMMA HeldFacts ==
  ASSUME NEW x, NEW D, NEW H, NEW P, Good(x, D, H, P), NEW p \in H
  PROVE  /\ p \in Page /\ x.ref[p] = 0 /\ x.mem[p] = ZeroPage
         /\ p \notin live(x, D) \cup data_pages(x, D) \cup P
<1>1. p \notin live(x, D) \cup data_pages(x, D) \cup P /\ p \in Page /\ x.mem[p] = ZeroPage
  BY DEF Good, Sets, Forest, Clear, live
<1> QED
  BY <1>1, CountZero DEF live

-----------------------------------------------------------------------------
(***************************************************************************)
(* States that agree on the words of directories and tables.               *)
(***************************************************************************)

LEMMA SameWords ==
  ASSUME NEW x, NEW y, NEW D, \A q \in live(x, D) : y.mem[q] = x.mem[q]
  PROVE  /\ tables(y, D) = tables(x, D) /\ data_pages(y, D) = data_pages(x, D)
         /\ live(y, D) = live(x, D)
         /\ \A p : pointers(y, D, p) = pointers(x, D, p)
<1>1. \A s \in live(x, D) \X Idx : word(y, s) = word(x, s)
  BY DEF word
<1>2. tables(y, D) = tables(x, D)
  BY <1>1 DEF tables, live
<1>3. live(y, D) = live(x, D)
  BY <1>2 DEF live
<1>4. data_pages(y, D) = data_pages(x, D)
  BY <1>1, <1>2 DEF data_pages, live
<1> QED
  BY <1>1, <1>2, <1>3, <1>4 DEF pointers

-----------------------------------------------------------------------------
(***************************************************************************)
(* What an update of a counter or of one word changes.                     *)
(***************************************************************************)

LEMMA IncrefFacts ==
  ASSUME NEW x \in MemState, NEW pp \in Page, x.ref[pp] < RefMax
  PROVE  LET y == page_incref(x, pp) IN
         /\ y \in MemState
         /\ y.free = x.free /\ y.mem = x.mem /\ y.tlb = x.tlb /\ y.asid = x.asid
         /\ \A p \in Page : y.ref[p] = IF p = pp THEN x.ref[p] + 1 ELSE x.ref[p]
<1> DEFINE y == page_incref(x, pp)
<1>1. y \in MemState
  BY CountersType
<1>2. /\ y.free = x.free /\ y.mem = x.mem /\ y.tlb = x.tlb /\ y.asid = x.asid
      /\ y.ref = [x.ref EXCEPT ![pp] = Inc(@)]
  BY DEF page_incref, MemState
<1>3. Inc(x.ref[pp]) = x.ref[pp] + 1
  BY PmapAssumption, PageFacts DEF Inc, MemState
<1> QED
  BY <1>1, <1>2, <1>3, PageFacts DEF MemState

LEMMA DecrefFacts ==
  ASSUME NEW x \in MemState, NEW pp \in Page, x.ref[pp] # 0
  PROVE  LET y == page_decref(x, pp) IN
         /\ y \in MemState
         /\ y.mem = x.mem /\ y.tlb = x.tlb /\ y.asid = x.asid
         /\ y.free = IF x.ref[pp] = 1 THEN <<pp>> \o x.free ELSE x.free
         /\ \A p \in Page : y.ref[p] = IF p = pp THEN x.ref[p] - 1 ELSE x.ref[p]
<1> DEFINE d == [x EXCEPT !.ref[pp] = Dec(@)]
           y == page_decref(x, pp)
<1>1. y \in MemState
  BY CountersType
<1>2. /\ d.free = x.free /\ d.mem = x.mem /\ d.tlb = x.tlb /\ d.asid = x.asid
      /\ d.ref = [x.ref EXCEPT ![pp] = Dec(@)]
  BY DEF MemState
<1>3. Dec(x.ref[pp]) = x.ref[pp] - 1 /\ x.ref[pp] \in Int
  BY PageFacts DEF Dec, MemState
<1>4. d.ref[pp] = x.ref[pp] - 1
  BY <1>2, <1>3, PageFacts DEF MemState
<1>5. /\ y.ref = d.ref /\ y.mem = d.mem /\ y.tlb = d.tlb /\ y.asid = d.asid
      /\ y.free = IF d.ref[pp] = 0 THEN <<pp>> \o d.free ELSE d.free
  <2>1. CASE d.ref[pp] = 0
    <3>1. y = [d EXCEPT !.free = <<pp>> \o @]
      BY <2>1 DEF page_decref, page_free
    <3> QED
      BY <2>1, <3>1 DEF MemState
  <2>2. CASE d.ref[pp] # 0
    BY <2>2 DEF page_decref, page_free
  <2> QED
    BY <2>1, <2>2
<1> QED
  BY <1>1, <1>2, <1>3, <1>4, <1>5, PageFacts DEF MemState

LEMMA StoreFacts ==
  ASSUME NEW x \in MemState, NEW s \in AllPages \X Idx, NEW w \in Word
  PROVE  LET y == store(x, s, w) IN
         /\ y \in MemState
         /\ y.free = x.free /\ y.ref = x.ref /\ y.tlb = x.tlb /\ y.asid = x.asid
         /\ \A r \in AllPages \X Idx : word(y, r) = IF r = s THEN w ELSE word(x, r)
         /\ \A q \in AllPages : q # s[1] => y.mem[q] = x.mem[q]
<1> DEFINE y == store(x, s, w)
<1>1. y \in MemState
  BY StoreType
<1>2. /\ y.free = x.free /\ y.ref = x.ref /\ y.tlb = x.tlb /\ y.asid = x.asid
      /\ y.mem = [x.mem EXCEPT ![s[1]][s[2]] = w]
  BY DEF store, MemState
<1>3. \A r \in AllPages \X Idx : r = <<r[1], r[2]>> /\ r[1] \in AllPages /\ r[2] \in Idx
  OBVIOUS
<1>4. ASSUME NEW r \in AllPages \X Idx PROVE word(y, r) = IF r = s THEN w ELSE word(x, r)
  BY <1>2, <1>3 DEF word, MemState
<1> QED
  BY <1>1, <1>2, <1>4 DEF MemState

-----------------------------------------------------------------------------
(***************************************************************************)
(* The functions of Pmap lead from Good to Good.                           *)
(***************************************************************************)

\* Good does not depend on the TLB.
LEMMA GoodTlb ==
  ASSUME NEW x, NEW D, NEW H, NEW P, Good(x, D, H, P),
         NEW y \in MemState, y.free = x.free, y.ref = x.ref, y.mem = x.mem
  PROVE  Good(y, D, H, P)
<1>1. /\ tables(y, D) = tables(x, D) /\ data_pages(y, D) = data_pages(x, D)
      /\ \A p : pointers(y, D, p) = pointers(x, D, p)
  BY SameWords
<1> QED
  BY <1>1 DEF Good, ListExact, CountExact, Forest, Clear, Freed

LEMMA GoodAlloc ==
  ASSUME NEW x, NEW D, NEW H, NEW P, Good(x, D, H, P), ~page_alloc_fails(x)
  PROVE  Good(page_alloc(x), D, H \cup {page_alloc_pp(x)}, P)
<1> DEFINE pp == page_alloc_pp(x)
           y  == page_alloc(x)
<1>x. x \in MemState /\ y \in MemState /\ pp \in Page
  BY AllocType DEF Good
<1>1. /\ y.free = Tail(x.free) /\ y.ref = x.ref
      /\ y.mem = [x.mem EXCEPT ![pp] = ZeroPage]
  BY <1>x DEF page_alloc, MemState
<1>2. /\ Len(x.free) \in Nat /\ Len(x.free) > 0 /\ pp = x.free[1]
      /\ Len(y.free) = Len(x.free) - 1
      /\ \A k \in 1 .. Len(y.free) : y.free[k] = x.free[k + 1]
  BY <1>x, <1>1 DEF page_alloc_fails, page_alloc_pp, MemState
<1>3. x.ref[pp] = 0 /\ pp \notin H
  BY <1>x, <1>2 DEF Good, ListExact, Freed
<1>4. pp \notin live(x, D) \cup data_pages(x, D) \cup P
  BY <1>x, <1>3, CountZero DEF live
<1>5. /\ tables(y, D) = tables(x, D) /\ data_pages(y, D) = data_pages(x, D)
      /\ \A p : pointers(y, D, p) = pointers(x, D, p)
  <2>1. \A q \in live(x, D) : y.mem[q] = x.mem[q]
    BY <1>x, <1>1, <1>4, LiveType DEF MemState, Good, Sets
  <2> QED
    BY <2>1, SameWords
<1>6. ListExact(y, H \cup {pp})
  <2>1. \A j, k \in 1 .. Len(y.free) : y.free[j] = y.free[k] => j = k
    BY <1>2 DEF Good, ListExact
  <2>2. \A k \in 1 .. Len(y.free) : y.free[k] # pp
    BY <1>2 DEF Good, ListExact
  <2>3. Freed(y) = Freed(x) \ {pp}
    <3>1. ASSUME NEW p \in Freed(x), p # pp PROVE p \in Freed(y)
      <4>1. PICK k \in 1 .. Len(x.free) : p = x.free[k]
        BY DEF Freed
      <4>2. k # 1 /\ k - 1 \in 1 .. Len(y.free) /\ y.free[k - 1] = p
        BY <1>2, <3>1, <4>1
      <4> QED
        BY <4>2 DEF Freed
    <3>2. Freed(y) \subseteq Freed(x)
      BY <1>2 DEF Freed
    <3> QED
      BY <2>2, <3>1, <3>2 DEF Freed
  <2> QED
    BY <1>1, <2>1, <2>3 DEF Good, ListExact
<1>7. CountExact(y, D, P)
  BY <1>1, <1>5 DEF Good, CountExact
<1>8. Forest(y, D, H \cup {pp})
  BY <1>4, <1>5 DEF Good, Forest, live
<1>9. Clear(y, H \cup {pp})
  BY <1>1, <1>x, PageFacts DEF Good, Clear, MemState, Sets
<1>10. Sets(D, H \cup {pp}, P)
  BY <1>x, <1>4 DEF Good, Sets
<1> QED
  BY <1>x, <1>6, <1>7, <1>8, <1>9, <1>10 DEF Good

\* LIST_INSERT_HEAD of a page that is not on the list.
LEMMA Pushed ==
  ASSUME NEW x \in MemState, NEW y \in MemState, NEW pp \in Page,
         y.free = <<pp>> \o x.free, pp \notin Freed(x),
         \A j, k \in 1 .. Len(x.free) : x.free[j] = x.free[k] => j = k
  PROVE  /\ \A j, k \in 1 .. Len(y.free) : y.free[j] = y.free[k] => j = k
         /\ Freed(y) = Freed(x) \cup {pp}
<1>2. /\ Len(x.free) \in Nat /\ Len(y.free) = Len(x.free) + 1 /\ y.free[1] = pp
      /\ \A k \in 2 .. Len(y.free) : y.free[k] = x.free[k - 1]
  BY DEF MemState
<1>3. ASSUME NEW j \in 1 .. Len(y.free), NEW k \in 1 .. Len(y.free), y.free[j] = y.free[k]
      PROVE  j = k
  <2>0. \A i \in 2 .. Len(y.free) : y.free[i] \in Freed(x)
    BY <1>2 DEF Freed
  <2>1. CASE j = 1 /\ k # 1
    BY <1>2, <1>3, <2>0, <2>1
  <2>2. CASE j # 1 /\ k = 1
    BY <1>2, <1>3, <2>0, <2>2
  <2>3. CASE j # 1 /\ k # 1
    <3>1. j - 1 \in 1 .. Len(x.free) /\ k - 1 \in 1 .. Len(x.free)
      BY <1>2, <2>3
    <3>2. x.free[j - 1] = x.free[k - 1]
      BY <1>2, <1>3, <2>3
    <3>3. j - 1 = k - 1
      BY <3>1, <3>2
    <3> QED
      BY <1>2, <3>3
  <2> QED
    BY <2>1, <2>2, <2>3
<1>4. Freed(y) = Freed(x) \cup {pp}
  <2>1. ASSUME NEW k \in 1 .. Len(x.free) PROVE x.free[k] \in Freed(y)
    <3>1. k + 1 \in 2 .. Len(y.free) /\ y.free[k + 1] = x.free[k]
      BY <1>2
    <3> QED
      BY <1>2, <3>1 DEF Freed
  <2>2. ASSUME NEW k \in 1 .. Len(y.free) PROVE y.free[k] \in Freed(x) \cup {pp}
    <3>1. CASE k = 1
      BY <1>2, <3>1
    <3>2. CASE k # 1
      BY <1>2, <3>2 DEF Freed
    <3> QED
      BY <3>1, <3>2
  <2>3. pp \in Freed(y)
    BY <1>2 DEF Freed
  <2> QED
    BY <2>1, <2>2, <2>3 DEF Freed
<1> QED
  BY <1>3, <1>4

\* page_free on a page its caller holds.
LEMMA GoodFree ==
  ASSUME NEW x, NEW D, NEW H, NEW P, Good(x, D, H, P), NEW pp \in H
  PROVE  Good(page_free(x, pp), D, H \ {pp}, P)
<1> DEFINE y == page_free(x, pp)
<1>x. x \in MemState /\ y \in MemState /\ pp \in Page /\ x.ref[pp] = 0
  BY HeldFacts, CountersType DEF Good
<1>1. y.free = <<pp>> \o x.free /\ y.ref = x.ref /\ y.mem = x.mem
  BY <1>x DEF page_free, MemState
<1>2. pp \notin Freed(x)
  BY <1>x DEF Good, ListExact
<1>4. ListExact(y, H \ {pp})
  <2>1. /\ \A j, k \in 1 .. Len(y.free) : y.free[j] = y.free[k] => j = k
        /\ Freed(y) = Freed(x) \cup {pp}
    BY <1>x, <1>1, <1>2, Pushed DEF Good, ListExact
  <2> QED
    BY <1>x, <1>1, <2>1 DEF Good, ListExact
<1>5. /\ tables(y, D) = tables(x, D) /\ data_pages(y, D) = data_pages(x, D)
      /\ \A p : pointers(y, D, p) = pointers(x, D, p)
  BY <1>1, SameWords
<1> QED
  BY <1>x, <1>1, <1>4, <1>5 DEF Good, Sets, CountExact, Forest, Clear

\* pageout's own pp_ref++ on the page it allocated.
LEMMA GoodPin ==
  ASSUME NEW x, NEW D, NEW H, NEW P, Good(x, D, H, P), NEW pp \in H
  PROVE  /\ Good(page_incref(x, pp), D, H \ {pp}, P \cup {pp})
         /\ page_incref(x, pp).ref[pp] = 1
<1> DEFINE y == page_incref(x, pp)
<1>x. x \in MemState /\ pp \in Page /\ x.ref[pp] = 0
  BY HeldFacts DEF Good
<1>1. /\ y \in MemState /\ y.free = x.free /\ y.mem = x.mem
      /\ \A p \in Page : y.ref[p] = IF p = pp THEN 1 ELSE x.ref[p]
  BY <1>x, IncrefFacts, PmapAssumption
<1>2. /\ tables(y, D) = tables(x, D) /\ data_pages(y, D) = data_pages(x, D)
      /\ \A p : pointers(y, D, p) = pointers(x, D, p)
  BY <1>1, SameWords
<1>3. pp \notin P /\ pp \notin D
  BY HeldFacts DEF live
<1>5. ListExact(y, H \ {pp})
  BY <1>x, <1>1 DEF Good, ListExact, Freed
<1>6. CountExact(y, D, P \cup {pp})
  <2>1. \A p \in Page : Cardinality(pointers(x, D, p)) \in Nat
    BY LiveType, SlotFinite DEF Good, Sets
  <2> QED
    BY <1>x, <1>1, <1>2, <1>3, <2>1 DEF Good, CountExact
<1>7. y.ref[pp] = 1
  BY <1>x, <1>1
<1> QED
  BY <1>x, <1>1, <1>2, <1>5, <1>6, <1>7 DEF Good, Sets, Forest, Clear

\* env_setup_vm: the cleared page becomes a directory.
LEMMA GoodDirectory ==
  ASSUME NEW x, NEW D, NEW H, NEW P, Good(x, D, H, P), NEW pp \in H
  PROVE  Good(page_incref(x, pp), D \cup {pp}, H \ {pp}, P)
<1> DEFINE y == page_incref(x, pp)
           E == D \cup {pp}
<1>x. x \in MemState /\ pp \in Page /\ x.ref[pp] = 0
  BY HeldFacts DEF Good
<1>1. /\ y \in MemState /\ y.free = x.free /\ y.mem = x.mem
      /\ \A p \in Page : y.ref[p] = IF p = pp THEN 1 ELSE x.ref[p]
  BY <1>x, IncrefFacts, PmapAssumption
<1>2. pp \notin P /\ pp \notin D /\ pp \notin tables(x, D) /\ pp \notin data_pages(x, D)
  BY HeldFacts DEF live
<1>3. \A i \in Idx : word(y, <<pp, i>>) = Zero
  BY <1>1, HeldFacts DEF word, ZeroPage
<1>4. tables(y, E) = tables(x, D)
  <2>1. \A s \in E \X Idx : word(y, s) # Zero => s \in D \X Idx
    BY <1>3
  <2> QED
    BY <1>1, <2>1 DEF tables, word
<1>5. data_pages(y, E) = data_pages(x, D)
  BY <1>1, <1>4 DEF data_pages, word
<1>6. \A p : pointers(y, E, p) = pointers(x, D, p)
  <2>1. live(y, E) = live(x, D) \cup {pp}
    BY <1>4 DEF live
  <2>2. \A s \in live(y, E) \X Idx : word(y, s) # Zero => s \in live(x, D) \X Idx
    BY <1>3, <2>1
  <2> QED
    BY <1>1, <2>1, <2>2 DEF pointers, word
<1>8. ListExact(y, H \ {pp})
  BY <1>x, <1>1 DEF Good, ListExact, Freed
<1>9. CountExact(y, E, P)
  <2>1. \A p \in Page : Cardinality(pointers(x, D, p)) \in Nat
    BY LiveType, SlotFinite DEF Good, Sets
  <2> QED
    BY <1>x, <1>1, <1>2, <1>6, <2>1 DEF Good, CountExact
<1>10. Forest(y, E, H \ {pp})
  BY <1>2, <1>4, <1>5, <1>6 DEF Good, Forest
<1> QED
  BY <1>x, <1>1, <1>8, <1>9, <1>10, PageFacts DEF Good, Sets, Clear

-----------------------------------------------------------------------------
(***************************************************************************)
(* Writing one entry of a table, or of a directory.                        *)
(***************************************************************************)

\* A word of a table is written: the pointers through it change, the tables stay.
LEMMA EntryWritten ==
  ASSUME NEW x, NEW D, NEW H, NEW P, Good(x, D, H, P), NEW y \in MemState,
         NEW s \in tables(x, D) \X Idx, NEW w \in Word,
         \A r \in AllPages \X Idx : word(y, r) = IF r = s THEN w ELSE word(x, r)
  PROVE  /\ tables(y, D) = tables(x, D) /\ live(y, D) = live(x, D)
         /\ \A p : pointers(y, D, p) = IF w # Zero /\ w.pg = p
                                       THEN pointers(x, D, p) \cup {s}
                                       ELSE pointers(x, D, p) \ {s}
         /\ \A p \in data_pages(y, D) : p \in data_pages(x, D) \/ (w # Zero /\ w.pg = p)
<1>1. /\ live(x, D) \X Idx \subseteq AllPages \X Idx
      /\ D \X Idx \subseteq AllPages \X Idx
      /\ s \in live(x, D) \X Idx /\ s \notin D \X Idx
  BY LiveType DEF Good, Sets, Forest, live
<1>2. tables(y, D) = tables(x, D)
  BY <1>1 DEF tables
<1>3. live(y, D) = live(x, D)
  BY <1>2 DEF live
<1>4. ASSUME NEW p PROVE pointers(y, D, p) = IF w # Zero /\ w.pg = p
                                             THEN pointers(x, D, p) \cup {s}
                                             ELSE pointers(x, D, p) \ {s}
  BY <1>1, <1>3 DEF pointers
<1>5. \A p \in data_pages(y, D) : p \in data_pages(x, D) \/ (w # Zero /\ w.pg = p)
  <2>1. tables(x, D) \X Idx \subseteq AllPages \X Idx
    BY <1>1 DEF live
  <2> QED
    BY <1>2, <2>1 DEF data_pages
<1> QED
  BY <1>2, <1>3, <1>4, <1>5

\* page_insert writes an entry where there was none and counts it.
LEMMA GoodMap ==
  ASSUME NEW x, NEW D, NEW H, NEW P, Good(x, D, H, P),
         NEW s \in tables(x, D) \X Idx, word(x, s) = Zero,
         NEW pp \in Page, pp \notin live(x, D), pp \in H \/ x.ref[pp] # 0,
         x.ref[pp] < RefMax, NEW perm \in SUBSET Flag
  PROVE  Good(page_incref(store(x, s, [pg |-> pp, perm |-> perm]), pp), D, H \ {pp}, P)
<1> DEFINE w == [pg |-> pp, perm |-> perm]
           z == store(x, s, w)
           y == page_incref(z, pp)
<1>x. x \in MemState /\ s \in AllPages \X Idx /\ w \in Word /\ w # Zero /\ w.pg = pp
  BY LiveType, PageFacts, ZeroAssumption DEF Good, Sets, Word, Pte
<1>1. /\ z \in MemState /\ z.free = x.free /\ z.ref = x.ref
      /\ \A r \in AllPages \X Idx : word(z, r) = IF r = s THEN w ELSE word(x, r)
      /\ \A q \in AllPages : q # s[1] => z.mem[q] = x.mem[q]
  BY <1>x, StoreFacts
<1>2. /\ y \in MemState /\ y.free = x.free /\ y.mem = z.mem
      /\ \A p \in Page : y.ref[p] = IF p = pp THEN x.ref[p] + 1 ELSE x.ref[p]
  BY <1>1, IncrefFacts
<1>3. \A r \in AllPages \X Idx : word(y, r) = IF r = s THEN w ELSE word(x, r)
  BY <1>1, <1>2 DEF word
<1>4. /\ tables(y, D) = tables(x, D) /\ live(y, D) = live(x, D)
      /\ \A p : p # pp => pointers(y, D, p) = pointers(x, D, p) \ {s}
      /\ pointers(y, D, pp) = pointers(x, D, pp) \cup {s}
      /\ \A p \in data_pages(y, D) : p \in data_pages(x, D) \/ p = pp
  BY <1>x, <1>2, <1>3, EntryWritten
<1>5. \A p : s \notin pointers(x, D, p)
  BY DEF pointers
<1>6. CountExact(y, D, P)
  <2>1. ASSUME NEW p \in Page
        PROVE  /\ IsFiniteSet(pointers(x, D, p)) /\ Cardinality(pointers(x, D, p)) \in Nat
               /\ Cardinality(pointers(y, D, p)) =
                    Cardinality(pointers(x, D, p)) + (IF p = pp THEN 1 ELSE 0)
    <3>1. IsFiniteSet(pointers(x, D, p)) /\ Cardinality(pointers(x, D, p)) \in Nat
      BY LiveType, SlotFinite DEF Good, Sets
    <3>2. CASE p = pp
      BY <1>4, <1>5, <3>1, <3>2, FS_AddElement
    <3>3. CASE p # pp
      <4>1. pointers(y, D, p) = pointers(x, D, p)
        BY <1>4, <1>5, <3>3
      <4> QED
        BY <3>1, <3>3, <4>1
    <3> QED
      BY <3>1, <3>2, <3>3
  <2> QED
    BY <1>2, <2>1 DEF Good, CountExact
<1>7. ListExact(y, H \ {pp})
  <2>1. x.ref[pp] \in Nat
    BY <1>x, PageFacts DEF MemState
  <2>2. pp \notin Freed(x)
    BY DEF Good, ListExact
  <2> QED
    BY <1>2, <2>1, <2>2 DEF Good, ListExact, Freed
<1>8. Forest(y, D, H \ {pp})
  <2>1. pp \notin tables(x, D) /\ pp \notin D
    BY DEF live
  <2>2. \A t \in tables(y, D) : pointers(y, D, t) \subseteq pointers(x, D, t)
    BY <1>4, <2>1
  <2> QED
    BY <1>4, <2>1, <2>2 DEF Good, Forest
<1>9. Clear(y, H \ {pp})
  <2>1. s[1] \notin H /\ s[1] # LowPage /\ H \subseteq AllPages /\ LowPage \in AllPages
    BY LiveType, PageFacts DEF Good, Sets, Forest
  <2> QED
    BY <1>1, <1>2, <2>1 DEF Good, Clear
<1>10. Sets(D, H \ {pp}, P)
  BY DEF Good, Sets
<1> QED
  BY <1>2, <1>6, <1>7, <1>8, <1>9, <1>10 DEF Good

\* page_insert rewrites the permissions of a mapping.
LEMMA GoodRewrite ==
  ASSUME NEW x, NEW D, NEW H, NEW P, Good(x, D, H, P),
         NEW s \in tables(x, D) \X Idx, word(x, s) # Zero,
         NEW perm \in SUBSET Flag
  PROVE  Good(store(x, s, [pg |-> word(x, s).pg, perm |-> perm]), D, H, P)
<1> DEFINE pp == word(x, s).pg
           w  == [pg |-> pp, perm |-> perm]
           y  == store(x, s, w)
<1>x. x \in MemState /\ s \in AllPages \X Idx /\ s \in live(x, D) \X Idx
  BY LiveType, PageFacts DEF Good, Sets, live
<1>w. w \in Word /\ w # Zero /\ w.pg = pp
  BY <1>x, ZeroAssumption DEF Word, Pte, MemState, word
<1> HIDE DEF w
<1>1. /\ y \in MemState /\ y.free = x.free /\ y.ref = x.ref
      /\ \A r \in AllPages \X Idx : word(y, r) = IF r = s THEN w ELSE word(x, r)
      /\ \A q \in AllPages : q # s[1] => y.mem[q] = x.mem[q]
  BY <1>x, <1>w, StoreFacts
<1>2. /\ tables(y, D) = tables(x, D)
      /\ \A p : pointers(y, D, p) = IF p = pp THEN pointers(x, D, p) \cup {s}
                                              ELSE pointers(x, D, p) \ {s}
      /\ \A p \in data_pages(y, D) : p \in data_pages(x, D) \/ p = pp
  BY <1>1, <1>w, EntryWritten
<1>3. \A p : pointers(y, D, p) = pointers(x, D, p)
  BY <1>2, <1>x DEF pointers
<1>4. pp \in data_pages(x, D)
  BY DEF data_pages
<1>5. Forest(y, D, H)
  BY <1>2, <1>3, <1>4 DEF Good, Forest
<1>6. Clear(y, H)
  <2>1. s[1] \notin H /\ s[1] # LowPage /\ H \subseteq AllPages /\ LowPage \in AllPages
    BY LiveType, PageFacts DEF Good, Sets, Forest
  <2> QED
    BY <1>1, <2>1 DEF Good, Clear
<1> QED
  BY <1>1, <1>3, <1>5, <1>6 DEF Good, ListExact, CountExact, Freed, w

\* page_remove: the entry is cleared, the page counted down, and freed at zero.
LEMMA GoodUnmap ==
  ASSUME NEW x, NEW D, NEW H, NEW P, Good(x, D, H, P),
         NEW s \in tables(x, D) \X Idx, word(x, s) # Zero
  PROVE  Good(store(page_decref(x, word(x, s).pg), s, Zero), D, H, P)
<1> DEFINE pp == word(x, s).pg
           z  == page_decref(x, pp)
           y  == store(z, s, Zero)
<1>x. /\ x \in MemState /\ s \in AllPages \X Idx /\ s \in live(x, D) \X Idx
      /\ pp \in Page /\ pp \in data_pages(x, D) /\ Zero \in Word
  BY LiveType, PageFacts DEF Good, Sets, live, data_pages, Word
<1>r. x.ref[pp] # 0 /\ x.ref[pp] \in Nat
  BY <1>x, CountZero, PageFacts DEF MemState
<1>1. /\ z \in MemState /\ z.mem = x.mem
      /\ z.free = IF x.ref[pp] = 1 THEN <<pp>> \o x.free ELSE x.free
      /\ \A p \in Page : z.ref[p] = IF p = pp THEN x.ref[p] - 1 ELSE x.ref[p]
  BY <1>x, <1>r, DecrefFacts
<1>2. /\ y \in MemState /\ y.free = z.free /\ y.ref = z.ref
      /\ \A r \in AllPages \X Idx : word(y, r) = IF r = s THEN Zero ELSE word(z, r)
      /\ \A q \in AllPages : q # s[1] => y.mem[q] = z.mem[q]
  BY <1>x, <1>1, StoreFacts
<1>3. \A r \in AllPages \X Idx : word(y, r) = IF r = s THEN Zero ELSE word(x, r)
  BY <1>1, <1>2 DEF word
<1>4. /\ tables(y, D) = tables(x, D)
      /\ \A p : pointers(y, D, p) = pointers(x, D, p) \ {s}
      /\ data_pages(y, D) \subseteq data_pages(x, D)
  BY <1>x, <1>2, <1>3, EntryWritten
<1>5. /\ s \in pointers(x, D, pp)
      /\ \A p : p # pp => pointers(y, D, p) = pointers(x, D, p)
  BY <1>x, <1>4 DEF pointers
<1>6. CountExact(y, D, P)
  <2>1. ASSUME NEW p \in Page
        PROVE  /\ Cardinality(pointers(x, D, p)) \in Nat
               /\ Cardinality(pointers(y, D, p)) =
                    Cardinality(pointers(x, D, p)) - (IF p = pp THEN 1 ELSE 0)
    <3>1. IsFiniteSet(pointers(x, D, p)) /\ Cardinality(pointers(x, D, p)) \in Nat
      BY LiveType, SlotFinite DEF Good, Sets
    <3>2. CASE p = pp
      BY <1>4, <1>5, <3>1, <3>2, FS_RemoveElement
    <3>3. CASE p # pp
      BY <1>5, <3>1, <3>3
    <3> QED
      BY <3>1, <3>2, <3>3
  <2> QED
    BY <1>1, <1>2, <2>1 DEF Good, CountExact
<1>7. pp \notin H /\ pp \notin Freed(x)
  BY <1>x, <1>r DEF Good, Forest, ListExact
<1>8. ListExact(y, H)
  <2>1. CASE x.ref[pp] = 1
    <3>0. /\ y.free = <<pp>> \o x.free
          /\ \A j, k \in 1 .. Len(x.free) : x.free[j] = x.free[k] => j = k
      BY <1>1, <1>2, <2>1 DEF Good, ListExact
    <3>1. /\ \A j, k \in 1 .. Len(y.free) : y.free[j] = y.free[k] => j = k
          /\ Freed(y) = Freed(x) \cup {pp}
      <4> HIDE DEF pp, y
      <4> QED
        BY <1>x, <1>2, <1>7, <3>0, Pushed
    <3> QED
      BY <1>1, <1>2, <1>7, <2>1, <3>1 DEF Good, ListExact
  <2>2. CASE x.ref[pp] # 1
    BY <1>1, <1>2, <1>r, <2>2 DEF Good, ListExact, Freed
  <2> QED
    BY <2>1, <2>2
<1>9. Forest(y, D, H)
  BY <1>4 DEF Good, Forest
<1>10. Clear(y, H)
  <2>1. s[1] \notin H /\ s[1] # LowPage /\ H \subseteq AllPages /\ LowPage \in AllPages
    BY LiveType, PageFacts DEF Good, Sets, Forest
  <2> QED
    BY <1>1, <1>2, <2>1 DEF Good, Clear
<1> QED
  BY <1>2, <1>6, <1>8, <1>9, <1>10 DEF Good

\* pgdir_walk hangs a fresh page into a directory as a table.
LEMMA GoodLink ==
  ASSUME NEW x, NEW D, NEW H, NEW P, Good(x, D, H, P),
         NEW s \in D \X Idx, word(x, s) = Zero, NEW pp \in H
  PROVE  LET y == page_incref(store(x, s, [pg |-> pp, perm |-> {"PTE_R"}]), pp) IN
         Good(y, D, H \ {pp}, P) /\ tables(y, D) = tables(x, D) \cup {pp}
<1> DEFINE w == [pg |-> pp, perm |-> {"PTE_R"}]
           z == store(x, s, w)
           y == page_incref(z, pp)
<1>h. /\ pp \in Page /\ x.ref[pp] = 0 /\ x.mem[pp] = ZeroPage
      /\ pp \notin live(x, D) \cup data_pages(x, D) \cup P
  BY HeldFacts
<1>x. /\ x \in MemState /\ s \in AllPages \X Idx /\ s \in live(x, D) \X Idx
      /\ w \in Word /\ w # Zero /\ w.pg = pp /\ pp # s[1]
  BY <1>h, ZeroAssumption DEF Good, Sets, Word, Pte, Flag, live
<1> HIDE DEF w
<1>1. /\ z \in MemState /\ z.free = x.free /\ z.ref = x.ref
      /\ \A r \in AllPages \X Idx : word(z, r) = IF r = s THEN w ELSE word(x, r)
      /\ \A q \in AllPages : q # s[1] => z.mem[q] = x.mem[q]
  BY <1>x, StoreFacts
<1>2. /\ y \in MemState /\ y.free = x.free /\ y.mem = z.mem
      /\ \A p \in Page : y.ref[p] = IF p = pp THEN 1 ELSE x.ref[p]
  BY <1>h, <1>1, PmapAssumption, IncrefFacts
<1>3. \A r \in AllPages \X Idx : word(y, r) = IF r = s THEN w ELSE word(x, r)
  BY <1>1, <1>2 DEF word
<1>4. ASSUME NEW i \in Idx PROVE word(y, <<pp, i>>) = Zero
  <2>1. <<pp, i>> \in AllPages \X Idx /\ <<pp, i>> # s
    BY <1>h, <1>x, PageFacts
  <2>2. word(x, <<pp, i>>) = Zero
    BY <1>h DEF word, ZeroPage
  <2> QED
    BY <1>3, <2>1, <2>2
<1>5. tables(y, D) = tables(x, D) \cup {pp}
  <2>1. D \X Idx \subseteq AllPages \X Idx
    BY DEF Good, Sets
  <2> QED
    BY <1>x, <1>3, <2>1 DEF tables
<1>6. live(y, D) = live(x, D) \cup {pp}
  BY <1>5 DEF live
<1>7. data_pages(y, D) = data_pages(x, D)
  <2>1. tables(x, D) \X Idx \subseteq AllPages \X Idx /\ s \notin tables(x, D) \X Idx
    BY LiveType, PageFacts DEF Good, Sets, Forest
  <2>2. ASSUME NEW r \in tables(y, D) \X Idx, word(y, r) # Zero
        PROVE  r \in tables(x, D) \X Idx /\ word(x, r) = word(y, r)
    BY <1>3, <1>4, <1>5, <2>1, <2>2
  <2>3. \A r \in tables(x, D) \X Idx : r \in tables(y, D) \X Idx /\ word(y, r) = word(x, r)
    BY <1>3, <1>5, <2>1
  <2> QED
    BY <2>2, <2>3 DEF data_pages
<1>8. /\ pointers(y, D, pp) = {s}
      /\ \A p : p # pp => pointers(y, D, p) = pointers(x, D, p)
  <2>1. pointers(x, D, pp) = {}
    BY <1>h, PointedTo DEF live
  <2>2. live(x, D) \X Idx \subseteq AllPages \X Idx
    BY LiveType DEF Good, Sets
  <2>3. \A r \in live(y, D) \X Idx : word(y, r) # Zero => r \in live(x, D) \X Idx
    BY <1>4, <1>6
  <2>4. \A r \in live(x, D) \X Idx : r \in live(y, D) \X Idx
    BY <1>6
  <2> QED
    BY <1>x, <1>3, <2>1, <2>2, <2>3, <2>4 DEF pointers
<1>9. CountExact(y, D, P)
  <2>1. \A p \in Page : Cardinality(pointers(x, D, p)) \in Nat
    BY LiveType, SlotFinite DEF Good, Sets
  <2>2. Cardinality(pointers(y, D, pp)) = 1
    BY <1>8, FS_Singleton
  <2>3. pp \notin D /\ pp \notin P
    BY <1>h DEF live
  <2>4. ASSUME NEW p \in Page, p # pp
        PROVE  y.ref[p] = x.ref[p] /\ pointers(y, D, p) = pointers(x, D, p)
    BY <1>2, <1>8, <2>4
  <2>5. y.ref[pp] = 1
    BY <1>2, <1>h
  <2> HIDE DEF y
  <2> QED
    BY <2>1, <2>2, <2>3, <2>4, <2>5 DEF Good, CountExact
<1>10. ListExact(y, H \ {pp})
  <2>1. pp \notin Freed(x)
    BY <1>h DEF Good, ListExact
  <2> QED
    BY <1>2, <1>h, <2>1 DEF Good, ListExact, Freed
<1>11. Forest(y, D, H \ {pp})
  BY <1>5, <1>7, <1>8, <1>h DEF Good, Forest, live
<1>12. Clear(y, H \ {pp})
  <2>1. s[1] \notin H /\ s[1] # LowPage /\ H \subseteq AllPages /\ LowPage \in AllPages
    BY PageFacts DEF Good, Sets, Forest
  <2> QED
    BY <1>1, <1>2, <2>1 DEF Good, Clear
<1>13. Sets(D, H \ {pp}, P)
  BY DEF Good, Sets
<1> QED
  BY <1>2, <1>5, <1>9, <1>10, <1>11, <1>12, <1>13 DEF Good, w

\* A program's store into a page some table maps.
LEMMA GoodUserStore ==
  ASSUME NEW x, NEW D, NEW H, NEW P, Good(x, D, H, P),
         NEW q \in data_pages(x, D), NEW i \in Idx, NEW w \in Word
  PROVE  /\ Good(store(x, <<q, i>>, w), D, H, P)
         /\ \A p \in live(x, D) : store(x, <<q, i>>, w).mem[p] = x.mem[p]
<1> DEFINE y == store(x, <<q, i>>, w)
<1>x. /\ x \in MemState /\ <<q, i>> \in AllPages \X Idx /\ q \in Page
      /\ q \notin live(x, D) /\ q \notin H
  BY LiveType, PageFacts DEF Good, Sets, Forest, live
<1>1. /\ y \in MemState /\ y.free = x.free /\ y.ref = x.ref
      /\ \A p \in AllPages : p # q => y.mem[p] = x.mem[p]
  BY <1>x, StoreFacts
<1>2. \A p \in live(x, D) : y.mem[p] = x.mem[p]
  BY <1>x, <1>1, LiveType DEF Good, Sets
<1>3. /\ tables(y, D) = tables(x, D) /\ data_pages(y, D) = data_pages(x, D)
      /\ \A p : pointers(y, D, p) = pointers(x, D, p)
  BY <1>2, SameWords
<1>4. Clear(y, H)
  BY <1>x, <1>1, PageFacts DEF Good, Sets, Clear
<1> QED
  BY <1>1, <1>2, <1>3, <1>4 DEF Good, ListExact, CountExact, Forest, Freed

-----------------------------------------------------------------------------
(***************************************************************************)
(* Walking the tables.                                                     *)
(***************************************************************************)

\* An address is mapped exactly when both levels are valid: the page at KADDR(0)
\* that pgdir_walk returns a slot of otherwise holds no valid entry.
LEMMA Lookup ==
  ASSUME NEW x, NEW D, NEW H, NEW P, Good(x, D, H, P), NEW d \in D, NEW va \in Va
  PROVE  /\ walk(x, d, va) \in AllPages \X Idx
         /\ pde(x, d, va) # Zero =>
              /\ walk(x, d, va) \in tables(x, D) \X Idx
              /\ <<d, PDX(va)>> \in pointers(x, D, walk(x, d, va)[1])
         /\ pde(x, d, va) = Zero => page_lookup(x, d, va) = Zero
         /\ refill_finds(x, d, va) <=> page_lookup(x, d, va) # Zero
<1>x. x \in MemState /\ d \in AllPages /\ PDX(va) \in Idx /\ PTX(va) \in Idx
  BY DEF Good, Sets, Va, PDX, PTX
<1>1. walk(x, d, va) \in AllPages \X Idx
  BY <1>x, WalkType
<1>2. word(x, <<d, PDX(va)>>) = pde(x, d, va)
  BY DEF word, pde
<1>3. ASSUME pde(x, d, va) # Zero
      PROVE  /\ walk(x, d, va) \in tables(x, D) \X Idx
             /\ <<d, PDX(va)>> \in pointers(x, D, walk(x, d, va)[1])
  <2>1. walk(x, d, va) = <<pde(x, d, va).pg, PTX(va)>>
    BY <1>3 DEF walk
  <2>2. pde(x, d, va).pg \in tables(x, D)
    BY <1>x, <1>2, <1>3 DEF tables
  <2> QED
    BY <1>x, <1>2, <1>3, <2>1, <2>2 DEF pointers, live
<1>4. ASSUME pde(x, d, va) = Zero PROVE page_lookup(x, d, va) = Zero
  <2>1. walk(x, d, va) = <<LowPage, PTX(va)>>
    BY <1>4 DEF walk
  <2> QED
    BY <1>x, <2>1 DEF page_lookup, word, Good, Clear
<1> QED
  BY <1>1, <1>3, <1>4 DEF refill_finds

\* A write to the entry of one address changes what that address maps to and no other.
LEMMA EntryLookup ==
  ASSUME NEW x, NEW D, NEW H, NEW P, Good(x, D, H, P), NEW d \in D, NEW va \in Va,
         pde(x, d, va) # Zero, NEW w, NEW y,
         \A r \in AllPages \X Idx : word(y, r) = IF r = walk(x, d, va) THEN w ELSE word(x, r)
  PROVE  \A e \in D, u \in Va :
           /\ pde(y, e, u) = pde(x, e, u) /\ walk(y, e, u) = walk(x, e, u)
           /\ page_lookup(y, e, u) = IF e = d /\ u = va THEN w ELSE page_lookup(x, e, u)
<1> DEFINE s == walk(x, d, va)
<1>1. s \in tables(x, D) \X Idx /\ <<d, PDX(va)>> \in pointers(x, D, s[1])
  BY Lookup
<1> SUFFICES ASSUME NEW e \in D, NEW u \in Va
             PROVE  /\ pde(y, e, u) = pde(x, e, u) /\ walk(y, e, u) = walk(x, e, u)
                    /\ page_lookup(y, e, u) = IF e = d /\ u = va THEN w
                                              ELSE page_lookup(x, e, u)
  OBVIOUS
<1>x. /\ x \in MemState /\ e \in AllPages /\ d \in AllPages
      /\ PDX(u) \in Idx /\ PTX(u) \in Idx /\ PDX(va) \in Idx /\ PTX(va) \in Idx
      /\ u = <<PDX(u), PTX(u)>> /\ va = <<PDX(va), PTX(va)>>
  BY DEF Good, Sets, Va, PDX, PTX
<1>2. pde(y, e, u) = pde(x, e, u)
  <2>1. <<e, PDX(u)>> \in AllPages \X Idx /\ <<e, PDX(u)>> # s
    BY <1>1, <1>x DEF Good, Forest
  <2>2. word(y, <<e, PDX(u)>>) = word(x, <<e, PDX(u)>>)
    BY <2>1
  <2> QED
    BY <2>2 DEF word, pde
<1>3. walk(y, e, u) = walk(x, e, u)
  BY <1>2 DEF walk
<1>4. walk(x, e, u) = s => e = d /\ u = va
  <2> SUFFICES ASSUME walk(x, e, u) = s PROVE e = d /\ u = va
    OBVIOUS
  <2>1. s[1] \in Page /\ s[1] # LowPage
    BY <1>1, <1>x, LiveType, PageFacts DEF Good, Sets
  <2>2. pde(x, e, u) # Zero
    BY <2>1 DEF walk
  <2>3. <<e, PDX(u)>> \in pointers(x, D, s[1])
    BY <2>2, Lookup
  <2>4. <<e, PDX(u)>> = <<d, PDX(va)>>
    BY <1>1, <2>3 DEF Good, Forest
  <2>5. PTX(u) = PTX(va)
    BY DEF walk
  <2> QED
    BY <1>x, <2>4, <2>5
<1>5. walk(x, e, u) \in AllPages \X Idx
  BY Lookup
<1> QED
  BY <1>2, <1>3, <1>4, <1>5 DEF page_lookup

\* pgdir_walk with create = 1 gives the address a table and maps nothing.
LEMMA CreateGood ==
  ASSUME NEW x, NEW D, NEW H, NEW P, Good(x, D, H, P), NEW d \in D, NEW va \in Va,
         ~walk_create_fails(x, d, va)
  PROVE  LET y == walk_create(x, d, va) IN
         /\ Good(y, D, H, P) /\ pde(y, d, va) # Zero
         /\ y.tlb = x.tlb /\ y.asid = x.asid
         /\ \A p \in Page : p \in H \/ x.ref[p] # 0 =>
              y.ref[p] = x.ref[p] /\ (p \notin live(x, D) => p \notin live(y, D))
         /\ \A e \in D, u \in Va : page_lookup(y, e, u) = page_lookup(x, e, u)
         /\ \A q \in AllPages \ live(y, D) : q \notin live(x, D) /\ y.mem[q] = x.mem[q]
         /\ \A q \in live(y, D) \ live(x, D) :
              pde(x, d, va) = Zero /\ q = pde(y, d, va).pg
<1> DEFINE y == walk_create(x, d, va)
<1>1. CASE pde(x, d, va) # Zero
  BY <1>1 DEF walk_create
<1>2. CASE pde(x, d, va) = Zero
  <2> DEFINE pp == page_alloc_pp(x)
             a  == page_alloc(x)
             s  == <<d, PDX(va)>>
             w  == [pg |-> pp, perm |-> {"PTE_R"}]
             z  == store(a, s, w)
  <2>y. y = page_incref(z, pp)
    BY <1>2 DEF walk_create
  <2>x. /\ x \in MemState /\ a \in MemState /\ pp \in Page /\ d \in AllPages
        /\ s \in AllPages \X Idx /\ s \in D \X Idx
    BY <1>2, AllocType DEF Good, Sets, walk_create_fails, Va, PDX
  <2>1. /\ Good(a, D, H \cup {pp}, P) /\ a.tlb = x.tlb /\ a.asid = x.asid /\ a.ref = x.ref
        /\ a.mem = [x.mem EXCEPT ![pp] = ZeroPage]
    BY <1>2, <2>x, GoodAlloc DEF walk_create_fails, page_alloc, MemState
  <2>2. /\ pp \in Page /\ a.ref[pp] = 0 /\ a.mem[pp] = ZeroPage
        /\ pp \notin live(a, D) \cup data_pages(a, D) \cup P
    BY <2>1, HeldFacts
  <2>3. pp \notin H /\ x.ref[pp] = 0
    <3>1. pp \in Freed(x)
      BY <1>2, <2>x DEF walk_create_fails, page_alloc_fails, page_alloc_pp, Freed, MemState
    <3> QED
      BY <2>x, <3>1 DEF Good, ListExact
  <2>4. pp \notin live(x, D)
    BY <2>3, <2>x, CountZero DEF live
  <2>5. \A q \in live(x, D) \cup {LowPage} : a.mem[q] = x.mem[q]
    BY <2>1, <2>4, <2>x, LiveType, PageFacts DEF MemState, Good, Sets
  <2>6. tables(a, D) = tables(x, D) /\ live(a, D) = live(x, D)
    BY <2>5, SameWords
  <2>7. word(a, s) = Zero
    BY <1>2, <2>5, <2>x DEF word, pde, live
  <2>8. Good(y, D, H, P) /\ tables(y, D) = tables(a, D) \cup {pp}
    <3>1. (H \cup {pp}) \ {pp} = H
      BY <2>3
    <3> QED
      BY <2>1, <2>7, <2>x, <2>y, <3>1, GoodLink
  <2>w. w \in Word /\ w # Zero /\ w.pg = pp
    BY <2>x, ZeroAssumption DEF Word, Pte, Flag
  <2> HIDE DEF w
  <2>9. /\ z \in MemState /\ z.ref = a.ref /\ z.tlb = a.tlb /\ z.asid = a.asid
        /\ \A r \in AllPages \X Idx : word(z, r) = IF r = s THEN w ELSE word(a, r)
    BY <2>x, <2>w, StoreFacts
  <2>m. \A q \in AllPages : q # s[1] => z.mem[q] = a.mem[q]
    BY <2>x, <2>w, StoreFacts
  <2>10. /\ y.mem = z.mem /\ y.tlb = x.tlb /\ y.asid = x.asid
         /\ \A p \in Page : y.ref[p] = IF p = pp THEN 1 ELSE x.ref[p]
    <3>1. z.ref[pp] = 0 /\ z.ref[pp] < RefMax
      BY <2>2, <2>9, PmapAssumption
    <3> HIDE DEF z
    <3> QED
      BY <2>1, <2>3, <2>9, <2>x, <2>y, <3>1, IncrefFacts
  <2>11. \A r \in AllPages \X Idx : word(y, r) = IF r = s THEN w ELSE word(a, r)
    BY <2>9, <2>10 DEF word
  <2>12. pde(y, d, va) # Zero /\ pde(y, d, va).pg = pp
    <3>1. word(y, s) = w
      BY <2>11, <2>x
    <3> QED
      BY <2>w, <3>1 DEF word, pde
  <2>13. ASSUME NEW p \in Page, p \in H \/ x.ref[p] # 0
         PROVE  y.ref[p] = x.ref[p] /\ (p \notin live(x, D) => p \notin live(y, D))
    BY <2>3, <2>6, <2>8, <2>10, <2>13 DEF live
  <2>14. ASSUME NEW e \in D, NEW u \in Va PROVE page_lookup(y, e, u) = page_lookup(x, e, u)
    <3>x. /\ e \in AllPages /\ PDX(u) \in Idx /\ PTX(u) \in Idx
          /\ <<e, PDX(u)>> \in AllPages \X Idx
      BY DEF Good, Sets, Va, PDX, PTX
    <3>0. pde(a, e, u) = pde(x, e, u)
      BY <2>5, <3>x DEF pde, live
    <3>1. page_lookup(a, e, u) = page_lookup(x, e, u)
      <4>1. walk(a, e, u) = walk(x, e, u)
        BY <3>0 DEF walk
      <4>2. walk(x, e, u)[1] \in live(x, D) \cup {LowPage}
        <5>1. CASE pde(x, e, u) = Zero
          BY <5>1 DEF walk
        <5>2. CASE pde(x, e, u) # Zero
          BY <5>2, Lookup DEF live
        <5> QED
          BY <5>1, <5>2
      <4> QED
        BY <2>5, <4>1, <4>2 DEF page_lookup, word
    <3>2. CASE <<e, PDX(u)>> = s
      <4>1. pde(y, e, u) = w
        <5>1. word(y, s) = w
          BY <2>11, <2>x
        <5> QED
          BY <3>2, <5>1 DEF word, pde
      <4>2. walk(y, e, u) = <<pp, PTX(u)>>
        BY <2>w, <4>1 DEF walk
      <4>3. <<pp, PTX(u)>> \in AllPages \X Idx /\ <<pp, PTX(u)>> # s
        BY <2>2, <2>x, <3>x, PageFacts DEF live
      <4>4. word(a, <<pp, PTX(u)>>) = Zero
        BY <2>2, <3>x DEF word, ZeroPage
      <4>5. page_lookup(y, e, u) = Zero
        BY <2>11, <4>2, <4>3, <4>4 DEF page_lookup
      <4>6. pde(x, e, u) = Zero
        BY <1>2, <3>2 DEF pde
      <4> QED
        BY <4>5, <4>6, Lookup
    <3>3. CASE <<e, PDX(u)>> # s
      <4>1. pde(y, e, u) = pde(a, e, u)
        <5>1. word(y, <<e, PDX(u)>>) = word(a, <<e, PDX(u)>>)
          BY <2>11, <3>3, <3>x
        <5> QED
          BY <5>1 DEF word, pde
      <4>2. walk(y, e, u) = walk(a, e, u)
        BY <4>1 DEF walk
      <4>3. walk(a, e, u) \in AllPages \X Idx /\ walk(a, e, u) # s
        <5>1. walk(a, e, u) \in AllPages \X Idx
          BY <2>1, Lookup
        <5>2. s[1] \in D /\ s[1] # LowPage /\ s[1] \notin tables(a, D)
          BY <2>1 DEF Good, Sets, Forest
        <5>3. CASE pde(a, e, u) = Zero
          BY <5>1, <5>2, <5>3 DEF walk
        <5>4. CASE pde(a, e, u) # Zero
          <6>1. walk(a, e, u)[1] \in tables(a, D)
            BY <2>1, <5>4, Lookup
          <6> QED
            BY <5>1, <5>2, <6>1
        <5> QED
          BY <5>3, <5>4
      <4>4. page_lookup(y, e, u) = page_lookup(a, e, u)
        BY <2>11, <4>2, <4>3 DEF page_lookup
      <4> QED
        BY <3>1, <4>4
    <3> QED
      BY <3>2, <3>3
  <2>15. ASSUME NEW q \in AllPages \ live(y, D)
         PROVE  q \notin live(x, D) /\ y.mem[q] = x.mem[q]
    <3>1. q \notin live(x, D) /\ q # pp /\ q # s[1]
      BY <2>6, <2>8 DEF live
    <3>2. y.mem[q] = a.mem[q]
      BY <2>m, <2>10, <3>1
    <3> QED
      BY <2>1, <2>x, <3>1, <3>2 DEF MemState
  <2>16. ASSUME NEW q \in live(y, D) \ live(x, D)
         PROVE  pde(x, d, va) = Zero /\ q = pde(y, d, va).pg
    BY <1>2, <2>6, <2>8, <2>12 DEF live
  <2> QED
    BY <2>8, <2>10, <2>12, <2>13, <2>14, <2>15, <2>16
<1> QED
  BY <1>1, <1>2

-----------------------------------------------------------------------------
(***************************************************************************)
(* page_remove and page_insert.                                            *)
(***************************************************************************)

\* From x to y at most what va maps to in directory d has changed, and no entry
\* the current ASID has for va is left in the TLB.
Edited(x, y, D, d, va) ==
  /\ y.asid = x.asid /\ y.tlb \subseteq x.tlb
  /\ \A t \in y.tlb : ~(t.va = va /\ t.asid = x.asid)
  /\ \A e \in D, u \in Va : e # d \/ u # va => page_lookup(y, e, u) = page_lookup(x, e, u)

LEMMA SameMem ==
  ASSUME NEW x, NEW y, y.mem = x.mem
  PROVE  /\ \A d, va : pde(y, d, va) = pde(x, d, va) /\ page_lookup(y, d, va) = page_lookup(x, d, va)
         /\ \A D : live(y, D) = live(x, D)
<1>1. \A s : word(y, s) = word(x, s)
  BY DEF word
<1>2. \A d, va : pde(y, d, va) = pde(x, d, va)
  BY DEF pde
<1>3. \A d, va : walk(y, d, va) = walk(x, d, va)
  BY <1>2 DEF walk
<1>4. \A d, va : page_lookup(y, d, va) = page_lookup(x, d, va)
  BY <1>1, <1>3 DEF page_lookup
<1> QED
  BY <1>1, <1>2, <1>4 DEF live, tables

LEMMA InvalidateFacts ==
  ASSUME NEW x \in MemState, NEW va \in Va
  PROVE  LET y == tlb_invalidate(x, va) IN
         /\ y \in MemState
         /\ y.free = x.free /\ y.ref = x.ref /\ y.mem = x.mem /\ y.asid = x.asid
         /\ y.tlb = {t \in x.tlb : ~(t.va = va /\ t.asid = x.asid)}
<1>1. tlb_invalidate(x, va) \in MemState
  BY InvalidateType
<1> QED
  BY <1>1 DEF tlb_invalidate, MemState

LEMMA InvalidateGood ==
  ASSUME NEW x, NEW D, NEW H, NEW P, Good(x, D, H, P), NEW d \in D, NEW va \in Va
  PROVE  LET y == tlb_invalidate(x, va) IN
         /\ Good(y, D, H, P) /\ Edited(x, y, D, d, va)
         /\ y.ref = x.ref /\ y.mem = x.mem /\ live(y, D) = live(x, D)
         /\ \A e, u : pde(y, e, u) = pde(x, e, u) /\ page_lookup(y, e, u) = page_lookup(x, e, u)
<1> DEFINE y == tlb_invalidate(x, va)
<1>1. x \in MemState
  BY DEF Good
<1>2. /\ y \in MemState
      /\ y.free = x.free /\ y.ref = x.ref /\ y.mem = x.mem /\ y.asid = x.asid
      /\ y.tlb = {t \in x.tlb : ~(t.va = va /\ t.asid = x.asid)}
  BY <1>1, InvalidateFacts
<1>3. /\ live(y, D) = live(x, D)
      /\ \A e, u : pde(y, e, u) = pde(x, e, u) /\ page_lookup(y, e, u) = page_lookup(x, e, u)
  BY <1>2, SameMem
<1>4. Good(y, D, H, P)
  BY <1>2, GoodTlb
<1>5. Edited(x, y, D, d, va)
  BY <1>2, <1>3 DEF Edited
<1> QED
  BY <1>2, <1>3, <1>4, <1>5

LEMMA RemoveGood ==
  ASSUME NEW x, NEW D, NEW H, NEW P, Good(x, D, H, P), NEW d \in D, NEW va \in Va
  PROVE  LET y == page_remove(x, d, va)
             w == page_lookup(x, d, va) IN
         /\ Good(y, D, H, P) /\ live(y, D) = live(x, D)
         /\ page_lookup(y, d, va) = Zero /\ pde(y, d, va) = pde(x, d, va)
         /\ w = Zero => y = x
         /\ w # Zero => Edited(x, y, D, d, va)
         /\ \A p \in Page : w = Zero \/ w.pg # p => y.ref[p] = x.ref[p]
<1> DEFINE y == page_remove(x, d, va)
           w == page_lookup(x, d, va)
           s == walk(x, d, va)
<1>1. CASE w = Zero
  BY <1>1 DEF page_remove
<1>2. CASE w # Zero
  <2> DEFINE z == page_decref(x, w.pg)
             c == store(z, s, Zero)
  <2>1. /\ s \in tables(x, D) \X Idx /\ s \in AllPages \X Idx /\ word(x, s) = w
        /\ pde(x, d, va) # Zero
    BY <1>2, Lookup DEF page_lookup
  <2>2. w.pg \in Page /\ w.pg \in data_pages(x, D) /\ x \in MemState /\ x.ref[w.pg] # 0
    <3>1. w.pg \in data_pages(x, D)
      BY <1>2, <2>1 DEF data_pages
    <3> QED
      BY <3>1, LiveType, CountZero DEF Good, Sets
  <2>3. /\ z \in MemState /\ z.mem = x.mem /\ z.tlb = x.tlb /\ z.asid = x.asid
        /\ \A p \in Page : z.ref[p] = IF p = w.pg THEN x.ref[p] - 1 ELSE x.ref[p]
    BY <2>2, DecrefFacts
  <2>4. /\ c \in MemState /\ c.ref = z.ref /\ c.tlb = z.tlb /\ c.asid = z.asid
        /\ \A r \in AllPages \X Idx : word(c, r) = IF r = s THEN Zero ELSE word(z, r)
    BY <2>1, <2>3, StoreFacts DEF Word
  <2>5. \A r \in AllPages \X Idx : word(c, r) = IF r = s THEN Zero ELSE word(x, r)
    BY <2>3, <2>4 DEF word
  <2>6. Good(c, D, H, P)
    BY <1>2, <2>1, GoodUnmap
  <2>7. \A e \in D, u \in Va :
          /\ pde(c, e, u) = pde(x, e, u)
          /\ page_lookup(c, e, u) = IF e = d /\ u = va THEN Zero ELSE page_lookup(x, e, u)
    BY <2>1, <2>5, EntryLookup
  <2>8. live(c, D) = live(x, D)
    BY <2>1, <2>4, <2>5, EntryWritten DEF Word
  <2>9. y = tlb_invalidate(c, va)
    BY <1>2 DEF page_remove
  <2> HIDE DEF w, s, z, c, y
  <2>10. /\ Good(y, D, H, P) /\ Edited(c, y, D, d, va) /\ y.ref = c.ref
         /\ live(y, D) = live(c, D)
         /\ \A e, u : pde(y, e, u) = pde(c, e, u) /\ page_lookup(y, e, u) = page_lookup(c, e, u)
    BY <2>6, <2>9, InvalidateGood
  <2>11. Edited(x, y, D, d, va)
    BY <2>3, <2>4, <2>7, <2>10 DEF Edited
  <2>12. \A p \in Page : w.pg # p => y.ref[p] = x.ref[p]
    BY <2>3, <2>4, <2>10
  <2> QED
    BY <1>2, <2>7, <2>8, <2>10, <2>11, <2>12 DEF w, y
<1> QED
  BY <1>1, <1>2

\* page_remove writes in a table only.
LEMMA RemoveMemory ==
  ASSUME NEW x, NEW D, NEW H, NEW P, Good(x, D, H, P), NEW d \in D, NEW va \in Va,
         NEW q \in AllPages \ tables(x, D)
  PROVE  page_remove(x, d, va).mem[q] = x.mem[q]
<1> DEFINE w == page_lookup(x, d, va)
           s == walk(x, d, va)
           z == page_decref(x, w.pg)
           c == store(z, s, Zero)
<1>1. CASE w = Zero
  BY <1>1 DEF page_remove
<1>2. CASE w # Zero
  <2>1. s \in tables(x, D) \X Idx /\ s \in AllPages \X Idx /\ word(x, s) = w
    BY <1>2, Lookup DEF page_lookup
  <2>2. w.pg \in Page /\ x \in MemState /\ x.ref[w.pg] # 0
    <3>1. w.pg \in data_pages(x, D)
      BY <1>2, <2>1 DEF data_pages
    <3> QED
      BY <3>1, LiveType, CountZero DEF Good, Sets
  <2>3. page_remove(x, d, va) = tlb_invalidate(c, va)
    BY <1>2 DEF page_remove
  <2> HIDE DEF w, s
  <2>4. z \in MemState /\ z.mem = x.mem
    BY <2>2, DecrefFacts
  <2> HIDE DEF z
  <2>5. c \in MemState /\ c.mem[q] = z.mem[q]
    BY <2>1, <2>4, StoreFacts DEF Word
  <2> HIDE DEF c
  <2> QED
    BY <2>3, <2>4, <2>5, InvalidateFacts
<1> QED
  BY <1>1, <1>2

\* The first half of page_insert leaves the address unmapped.
LEMMA ClearGood ==
  ASSUME NEW x, NEW D, NEW H, NEW P, Good(x, D, H, P), NEW d \in D, NEW va \in Va
  PROVE  LET y == insert_clear(x, d, va)
             w == page_lookup(x, d, va) IN
         /\ Good(y, D, H, P) /\ live(y, D) = live(x, D) /\ Edited(x, y, D, d, va)
         /\ page_lookup(y, d, va) = Zero /\ pde(y, d, va) = pde(x, d, va)
         /\ \A p \in Page : w = Zero \/ w.pg # p => y.ref[p] = x.ref[p]
         /\ \A q \in AllPages \ live(x, D) : y.mem[q] = x.mem[q]
         /\ w = Zero => y.mem = x.mem
<1> DEFINE y == insert_clear(x, d, va)
           w == page_lookup(x, d, va)
           r == page_remove(x, d, va)
<1>1. /\ Good(r, D, H, P) /\ live(r, D) = live(x, D)
      /\ page_lookup(r, d, va) = Zero /\ pde(r, d, va) = pde(x, d, va)
      /\ w = Zero => r = x
      /\ w # Zero => Edited(x, r, D, d, va)
      /\ \A p \in Page : w = Zero \/ w.pg # p => r.ref[p] = x.ref[p]
  BY RemoveGood
<1>2. y = tlb_invalidate(r, va)
  BY DEF insert_clear
<1>m. \A q \in AllPages \ live(x, D) : r.mem[q] = x.mem[q]
  BY RemoveMemory DEF live
<1> HIDE DEF y, r, w
<1>3. /\ Good(y, D, H, P) /\ Edited(r, y, D, d, va) /\ y.ref = r.ref /\ y.mem = r.mem
      /\ live(y, D) = live(r, D)
      /\ \A e, u : pde(y, e, u) = pde(r, e, u) /\ page_lookup(y, e, u) = page_lookup(r, e, u)
  BY <1>1, <1>2, InvalidateGood
<1>4. Edited(x, y, D, d, va)
  BY <1>1, <1>3 DEF Edited
<1> QED
  BY <1>1, <1>m, <1>3, <1>4 DEF y, w

\* page_insert is all or nothing: the address maps to the page afterwards and the
\* caller's hold is used up, or page_insert failed and every map is what it was.
LEMMA InsertGood ==
  ASSUME NEW x, NEW D, NEW H, NEW P, Good(x, D, H, P), NEW d \in D, NEW va \in Va,
         NEW pp \in Page, pp \notin live(x, D), pp \in H \/ x.ref[pp] # 0,
         x.ref[pp] < RefMax, NEW perm \in SUBSET Flag
  PROVE  LET y == page_insert(x, d, pp, va, perm)
             f == page_insert_fails(x, d, pp, va) IN
         /\ Good(y, D, IF f THEN H ELSE H \ {pp}, P) /\ Edited(x, y, D, d, va)
         /\ page_lookup(y, d, va) = IF f THEN page_lookup(x, d, va)
                                    ELSE [pg |-> pp, perm |-> perm]
         /\ f => y.mem = x.mem
         /\ \A q \in AllPages \ (live(x, D) \cup live(y, D)) : y.mem[q] = x.mem[q]
         /\ \A q \in live(y, D) \ live(x, D) :
              ~f /\ pde(x, d, va) = Zero /\ q = pde(y, d, va).pg
         /\ y.ref[pp] = x.ref[pp] \/ (~f /\ y.ref[pp] = x.ref[pp] + 1)
<1> DEFINE w  == [pg |-> pp, perm |-> perm]
           w0 == page_lookup(x, d, va)
           y  == page_insert(x, d, pp, va, perm)
           f  == page_insert_fails(x, d, pp, va)
<1>w. w \in Word /\ w # Zero
  BY ZeroAssumption DEF Word, Pte
<1>1. CASE insert_same(x, d, pp, va)
  <2> DEFINE a == tlb_invalidate(x, va)
             s == walk(x, d, va)
  <2>1. ~f /\ y = store(a, walk(x, d, va), w)
    BY <1>1 DEF page_insert, page_insert_fails, insert_rewrite
  <2>2. w0 # Zero /\ w0.pg = pp
    BY <1>1 DEF insert_same
  <2>3. /\ Good(a, D, H, P) /\ Edited(x, a, D, d, va)
        /\ a.mem = x.mem /\ live(a, D) = live(x, D)
        /\ \A e, u : pde(a, e, u) = pde(x, e, u) /\ page_lookup(a, e, u) = page_lookup(x, e, u)
    BY InvalidateGood
  <2>4. walk(a, d, va) = s
    BY <2>3 DEF walk
  <2> HIDE DEF a
  <2>5. /\ s \in tables(a, D) \X Idx /\ s \in AllPages \X Idx /\ word(a, s) = w0
        /\ pde(a, d, va) # Zero
    <3>1. page_lookup(a, d, va) = w0 /\ w0 # Zero
      BY <2>2, <2>3
    <3>2. pde(a, d, va) # Zero
      BY <2>3, <3>1, Lookup
    <3>3. walk(a, d, va) \in tables(a, D) \X Idx /\ walk(a, d, va) \in AllPages \X Idx
      BY <2>3, <3>2, Lookup
    <3>4. word(a, s) = w0
      BY <2>4, <3>1 DEF page_lookup
    <3> QED
      BY <2>4, <3>2, <3>3, <3>4
  <2> HIDE DEF s, w0
  <2>6. Good(store(a, s, [pg |-> pp, perm |-> perm]), D, H, P)
    BY <2>2, <2>3, <2>5, GoodRewrite
  <2>7. y = store(a, s, w)
    BY <2>1 DEF s
  <2>8. /\ y.tlb = a.tlb /\ y.asid = a.asid
        /\ \A r \in AllPages \X Idx : word(y, r) = IF r = s THEN w ELSE word(a, r)
    <3> HIDE DEF w, y
    <3> QED
      BY <1>w, <2>3, <2>5, <2>7, StoreFacts DEF Good
  <2>m. \A q \in AllPages : q # s[1] => y.mem[q] = a.mem[q]
    <3> HIDE DEF w, y
    <3> QED
      BY <1>w, <2>3, <2>5, <2>7, StoreFacts DEF Good
  <2>9. \A e \in D, u \in Va :
          page_lookup(y, e, u) = IF e = d /\ u = va THEN w ELSE page_lookup(a, e, u)
    <3> HIDE DEF w, y
    <3> QED
      BY <2>3, <2>4, <2>5, <2>8, EntryLookup
  <2>10. H \ {pp} = H
    <3>1. pp \in data_pages(a, D)
      BY <2>2, <2>5 DEF data_pages
    <3> QED
      BY <2>3, <3>1 DEF Good, Forest
  <2>11. Edited(x, y, D, d, va)
    <3> HIDE DEF w, y
    <3> QED
      BY <2>3, <2>8, <2>9 DEF Edited
  <2>12. Good(y, D, H, P)
    BY <2>6, <2>7
  <2> HIDE DEF y, f
  <2>13. Good(y, D, IF f THEN H ELSE H \ {pp}, P)
    BY <2>1, <2>10, <2>12
  <2>14. \A q \in AllPages \ live(x, D) : y.mem[q] = x.mem[q]
    BY <2>3, <2>5, <2>m DEF live
  <2>15. y.ref = x.ref /\ live(y, D) = live(x, D)
    <3>1. y.ref = a.ref /\ a.ref = x.ref
      <4> HIDE DEF w
      <4> QED
        BY <1>w, <2>3, <2>5, <2>7, StoreFacts, InvalidateGood DEF Good, a, y
    <3>2. live(y, D) = live(a, D)
      <4> HIDE DEF w, y
      <4> QED
        BY <1>w, <2>3, <2>5, <2>8, <2>12, EntryWritten DEF Good
    <3> QED
      BY <2>3, <3>1, <3>2
  <2> QED
    BY <2>1, <2>9, <2>11, <2>13, <2>14, <2>15 DEF y, f
<1>2. CASE ~insert_same(x, d, pp, va)
  <2> DEFINE r == insert_clear(x, d, va)
             c == walk_create(r, d, va)
             s == walk(c, d, va)
             z == store(c, s, w)
  <2>1. w0 = Zero \/ w0.pg # pp
    BY <1>2 DEF insert_same
  <2>2. /\ Good(r, D, H, P) /\ live(r, D) = live(x, D) /\ Edited(x, r, D, d, va)
        /\ page_lookup(r, d, va) = Zero /\ pde(r, d, va) = pde(x, d, va)
        /\ r.ref[pp] = x.ref[pp]
        /\ \A q \in AllPages \ live(x, D) : r.mem[q] = x.mem[q]
        /\ w0 = Zero => r.mem = x.mem
    BY <2>1, ClearGood
  <2>3. f <=> walk_create_fails(r, d, va)
    BY <1>2 DEF page_insert_fails
  <2>4. CASE f
    <3>1. y = r
      BY <1>2, <2>3, <2>4 DEF page_insert
    <3>2. pde(x, d, va) = Zero
      BY <2>2, <2>3, <2>4 DEF walk_create_fails
    <3>3. page_lookup(x, d, va) = Zero
      BY <3>2, Lookup
    <3> HIDE DEF r, y, f
    <3> QED
      BY <2>2, <2>4, <3>1, <3>3 DEF y, f
  <2>5. CASE ~f
    <3>1. y = page_incref(z, pp)
      BY <1>2, <2>3, <2>5 DEF page_insert, insert_write
    <3> HIDE DEF r, y, f, w
    <3>2. /\ Good(c, D, H, P) /\ pde(c, d, va) # Zero
          /\ c.tlb = r.tlb /\ c.asid = r.asid
          /\ c.ref[pp] = r.ref[pp] /\ pp \notin live(c, D)
          /\ \A e \in D, u \in Va : page_lookup(c, e, u) = page_lookup(r, e, u)
          /\ \A q \in AllPages \ live(c, D) : q \notin live(r, D) /\ c.mem[q] = r.mem[q]
          /\ \A q \in live(c, D) \ live(r, D) : pde(r, d, va) = Zero /\ q = pde(c, d, va).pg
      BY <2>2, <2>3, <2>5, CreateGood
    <3> HIDE DEF c
    <3>3. /\ s \in tables(c, D) \X Idx /\ s \in AllPages \X Idx /\ word(c, s) = Zero
          /\ c \in MemState
      BY <2>2, <3>2, Lookup DEF page_lookup, Good
    <3> HIDE DEF s
    <3>4. Good(page_incref(store(c, s, [pg |-> pp, perm |-> perm]), pp), D, H \ {pp}, P)
      BY <2>2, <3>2, <3>3, GoodMap
    <3>5. /\ z \in MemState /\ z.ref = c.ref /\ z.tlb = c.tlb /\ z.asid = c.asid
          /\ \A q \in AllPages \X Idx : word(z, q) = IF q = s THEN w ELSE word(c, q)
          /\ \A q \in AllPages : q # s[1] => z.mem[q] = c.mem[q]
      BY <1>w, <3>3, StoreFacts
    <3>6. Good(y, D, H \ {pp}, P)
      BY <3>1, <3>4 DEF w
    <3> HIDE DEF z
    <3>7. y.mem = z.mem /\ y.tlb = z.tlb /\ y.asid = z.asid
      BY <2>2, <3>1, <3>2, <3>5, IncrefFacts
    <3>8. \A q \in AllPages \X Idx : word(y, q) = IF q = s THEN w ELSE word(c, q)
      BY <3>5, <3>7 DEF word
    <3>9. \A e \in D, u \in Va :
            page_lookup(y, e, u) = IF e = d /\ u = va THEN w ELSE page_lookup(c, e, u)
      BY <3>2, <3>8, EntryLookup DEF s
    <3>10. Edited(x, y, D, d, va)
      BY <2>2, <3>2, <3>5, <3>7, <3>9 DEF Edited
    <3>11. live(y, D) = live(c, D)
      BY <1>w, <3>2, <3>3, <3>6, <3>8, EntryWritten DEF Good
    <3>12. \A q \in AllPages \ live(y, D) : y.mem[q] = x.mem[q]
      BY <2>2, <3>2, <3>3, <3>5, <3>7, <3>11 DEF live
    <3>14. \A q \in live(y, D) \ live(x, D) : pde(x, d, va) = Zero /\ q = pde(y, d, va).pg
      <4>1. <<d, PDX(va)>> \in AllPages \X Idx /\ <<d, PDX(va)>> # s
        BY <3>2, <3>3 DEF Good, Sets, Forest, Va, PDX
      <4>2. pde(y, d, va) = pde(c, d, va)
        BY <3>8, <4>1 DEF word, pde
      <4> QED
        BY <2>2, <3>2, <3>11, <4>2
    <3>13. y.ref[pp] = x.ref[pp] + 1
      BY <2>2, <3>1, <3>2, <3>5, IncrefFacts
    <3> QED
      BY <2>5, <3>6, <3>9, <3>10, <3>12, <3>13, <3>14 DEF y, f, w
  <2> QED
    BY <2>4, <2>5
<1> QED
  BY <1>1, <1>2
=============================================================================
