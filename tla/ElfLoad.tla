------------------------------ MODULE ElfLoad -------------------------------
(***************************************************************************)
(* Program loading: load_icode and load_icode_mapper of lib/env.c, called  *)
(* by and calling load_elf of lib/kernel_elfloader.c, on the page          *)
(* allocator and the page tables of Pmap.  The environment has just been   *)
(* allocated; a step is one page mapped, with everything the code does for *)
(* it.  The results of page_alloc and page_insert are not looked at.       *)
(*                                                                         *)
(* A word of a page is a byte here: a page has BY2PG of them, and so has a *)
(* table entries.  An address is a number, byte k of the file is Byte(k).  *)
(***************************************************************************)
EXTENDS Pmap

CONSTANTS
  BY2PG,      \* bytes to a page
  Programs,   \* images: [elf : the magic bytes, seg : sequence of program headers]
  Taken,      \* how many pages others hold already
  Garbage,    \* values the uninitialised `i' may have
  Wrap,       \* 2^32: how many values a u_long has
  NULL

ASSUME ElfLoadAssumption ==
  /\ BY2PG \in Nat \ {0} /\ Idx = 0 .. BY2PG - 1
  /\ Wrap \in Nat /\ BY2PG < Wrap /\ Garbage \subseteq 0 .. Wrap - 1
  /\ Taken \subseteq 0 .. npage - nboot - 1
  /\ NULL \notin Page

VARIABLES
  m,         \* the memory-management state (see Pmap)
  image,     \* the program being loaded ...
  held,      \* ... and the pages others hold
  pc,        \* where load_icode, load_elf or load_icode_mapper is
  ph,        \* the program header load_elf is at
  i, tempVa, p,   \* load_icode_mapper's variables
  wild,      \* `i' was read before it was set, and was not 0 (history)
  failed     \* a page_alloc or page_insert has failed (history)

vars == <<m, image, held, pc, ph, i, tempVa, p, wild, failed>>

Byte(k)  == [off |-> k]
OldByte  == Byte(-1)                 \* left by who used the page before
boot_pgdir == 1
env_pgdir  == npage - 1              \* env_setup_vm takes the first free page

U(n)         == n % Wrap             \* u_long arithmetic
ROUNDDOWN(a) == (a \div BY2PG) * BY2PG
ROUND(a)     == ROUNDDOWN(a + BY2PG - 1)
VPN(a)       == a \div BY2PG
va(a)        == <<VPN(a) \div BY2PG, VPN(a) % BY2PG>>     \* PDX, PTX
StackPage    == (BY2PG * BY2PG - 1) * BY2PG               \* USTACKTOP - BY2PG

\* Images as a linker writes them: no more bytes in the file than in memory, and
\* all of it below the stack.  Neither a segment's end plus two pages nor its
\* number of pages plus three reaches what a u_long, or pp_ref, can hold.
ProgramHeader ==
  [load : BOOLEAN, va : Nat, filesz : Nat, memsz : Nat, off : Nat]
ASSUME ProgramsAssumption ==
  \A g \in Programs :
    /\ g.seg \in Seq(ProgramHeader)
    /\ \A k \in DOMAIN g.seg : LET s == g.seg[k] IN
         s.load => /\ s.filesz <= s.memsz /\ ROUND(s.va) + s.memsz <= StackPage
                   /\ s.memsz + 2 * BY2PG <= Wrap
                   /\ s.memsz + 3 * BY2PG <= RefMax * BY2PG

seg    == image.seg[ph]
offset == seg.va - ROUNDDOWN(seg.va)

\* After env_setup_vm; the pages still free have been in use before.
Init ==
  /\ image \in Programs
  /\ \E k \in Taken :
       LET all == page_init_free
       IN  /\ held = {all[j] : j \in 2 .. k + 1}
           /\ m = [free |-> SubSeq(all, k + 2, Len(all)),
                   ref  |-> [page_init_ref EXCEPT ![env_pgdir] = 1],
                   mem  |-> [q \in AllPages |-> IF q \in {all[j] : j \in k + 2 .. Len(all)}
                                                THEN [x \in Idx |-> OldByte] ELSE ZeroPage],
                   tlb  |-> {}, asid |-> 0]
  /\ pc = "load_icode" /\ ph = 1 /\ i = 0 /\ tempVa = 0 /\ p = NULL
  /\ wild = FALSE /\ failed = FALSE

-----------------------------------------------------------------------------
(***************************************************************************)
(* One page: page_alloc(&p), page_insert(pgdir, p, a, PTE_R), and n bytes  *)
(* copied to page2kva(p) + at, byte k of them being b[k].                  *)
(***************************************************************************)

\* page_alloc leaves p alone when it fails; with p still NULL, page_insert or
\* page2kva panics.
page == IF page_alloc_fails(m) THEN p ELSE page_alloc_pp(m)
got  == IF page_alloc_fails(m) THEN m ELSE page_alloc(m)

bcopy(x, q, at, n, from) ==
  [x EXCEPT !.mem[q] = [k \in Idx |-> IF at <= k /\ k < at + n THEN Byte(U(from + k - at))
                                      ELSE @[k]]]
bzero(x, q, n) ==
  [x EXCEPT !.mem[q] = [k \in Idx |-> IF k < n THEN Zero ELSE @[k]]]

slip_insert(a) == page_insert(page_incref(got, page), env_pgdir, page, va(a), {"PTE_R"})
                                                     \* p->pp_ref++ first
insert(a) == page_insert(got, env_pgdir, page, va(a), {"PTE_R"})

Fails(a) == page_alloc_fails(m) \/ page_insert_fails(got, env_pgdir, page, va(a))

Panic == pc' = "panicked" /\ failed' = TRUE /\ UNCHANGED <<m, ph, i, tempVa, p>>

\* p and failed after the page for address a.
Took(a) == p' = page /\ failed' = (failed \/ Fails(a))

\* load_icode: the page for the stack, then load_elf's check of the header.
\* Both errors return to a caller that cannot see them.
is_elf_format == IF image.elf = "0123" THEN 0 ELSE 1

LoadIcode ==
  /\ pc = "load_icode"
  /\ IF page_alloc_fails(m) \/ Fails(StackPage)
     THEN /\ pc' = "no_stack" /\ failed' = TRUE
          /\ m' = IF page_alloc_fails(m) THEN m ELSE insert(StackPage)
     ELSE /\ pc' = IF is_elf_format = 0 THEN "not_elf" ELSE "load_elf"
          /\ m' = insert(StackPage) /\ UNCHANGED failed
  /\ UNCHANGED <<image, held, ph, i, tempVa, p, wild>>

\* load_elf's loop: the next segment, or the entry point.
NextHeader ==
  /\ pc = "load_elf" /\ ph <= Len(image.seg)
  /\ IF ~seg.load
     THEN ph' = ph + 1 /\ UNCHANGED <<pc, i, tempVa, p, wild>>
     ELSE /\ p' = NULL /\ tempVa' = ROUND(seg.va) /\ UNCHANGED ph
          /\ IF offset > 0 THEN pc' = "first" /\ UNCHANGED <<i, wild>>
             ELSE pc' = "bin" /\ i' \in Garbage /\ wild' = (wild \/ i' # 0)
  /\ UNCHANGED <<m, image, held, failed>>

LoadDone ==
  /\ pc = "load_elf" /\ ph > Len(image.seg)
  /\ pc' = "loaded"
  /\ UNCHANGED <<m, image, held, ph, i, tempVa, p, wild, failed>>

-----------------------------------------------------------------------------
(***************************************************************************)
(* load_icode_mapper                                                       *)
(***************************************************************************)

slip_FirstPage ==                                    \* i = offset - BY2PG
  /\ pc = "first"
  /\ IF page = NULL THEN Panic
     ELSE /\ Took(seg.va)
          /\ m' = bcopy(insert(seg.va), page, offset, BY2PG - offset, seg.off)
          /\ i' = offset - BY2PG
          /\ pc' = "bin" /\ UNCHANGED <<ph, tempVa>>
  /\ UNCHANGED <<image, held, wild>>

\* `if (offset > 0)': filled to the end of the page, however short the segment.
FirstPage ==
  /\ pc = "first"
  /\ IF page = NULL THEN Panic
     ELSE /\ Took(seg.va)
          /\ m' = bcopy(insert(seg.va), page, offset, BY2PG - offset, seg.off)
          /\ i' = BY2PG - offset
          /\ pc' = "bin" /\ UNCHANGED <<ph, tempVa>>
  /\ UNCHANGED <<image, held, wild>>

\* `for (; i+BY2PG <= bin_size; i += BY2PG)'
WholePage ==
  /\ pc = "bin" /\ U(i + BY2PG) <= seg.filesz
  /\ IF page = NULL THEN Panic
     ELSE /\ Took(tempVa)
          /\ m' = bcopy(insert(tempVa), page, 0, BY2PG, seg.off + i)
          /\ i' = U(i + BY2PG) /\ tempVa' = tempVa + BY2PG
          /\ UNCHANGED <<pc, ph>>
  /\ UNCHANGED <<image, held, wild>>

slip_PartPage ==                                     \* bin, not bin + i
  /\ pc = "bin" /\ U(i + BY2PG) > seg.filesz
  /\ IF seg.filesz <= i THEN pc' = "sg" /\ UNCHANGED <<m, ph, i, tempVa, p, failed>>
     ELSE IF page = NULL THEN Panic
     ELSE /\ Took(tempVa)
          /\ m' = bcopy(insert(tempVa), page, 0, seg.filesz - i, seg.off)
          /\ i' = U(i + BY2PG) /\ tempVa' = tempVa + BY2PG
          /\ pc' = "sg" /\ UNCHANGED ph
  /\ UNCHANGED <<image, held, wild>>

\* `if (bin_size > i)'
PartPage ==
  /\ pc = "bin" /\ U(i + BY2PG) > seg.filesz
  /\ IF seg.filesz <= i THEN pc' = "sg" /\ UNCHANGED <<m, ph, i, tempVa, p, failed>>
     ELSE IF page = NULL THEN Panic
     ELSE /\ Took(tempVa)
          /\ m' = bcopy(insert(tempVa), page, 0, seg.filesz - i, seg.off + i)
          /\ i' = U(i + BY2PG) /\ tempVa' = tempVa + BY2PG
          /\ pc' = "sg" /\ UNCHANGED ph
  /\ UNCHANGED <<image, held, wild>>

slip_ZeroedPage ==                                   \* i and tempVa stay
  /\ pc = "sg" /\ U(i + BY2PG) < seg.memsz
  /\ IF page = NULL THEN Panic
     ELSE /\ Took(tempVa)
          /\ m' = bzero(insert(tempVa), page, BY2PG)
          /\ UNCHANGED <<pc, ph, i, tempVa>>
  /\ UNCHANGED <<image, held, wild>>

\* `while (i+BY2PG<sgsize)'
ZeroedPage ==
  /\ pc = "sg" /\ U(i + BY2PG) < seg.memsz
  /\ IF page = NULL THEN Panic
     ELSE /\ Took(tempVa)
          /\ m' = bzero(insert(tempVa), page, BY2PG)
          /\ i' = U(i + BY2PG) /\ tempVa' = tempVa + BY2PG
          /\ UNCHANGED <<pc, ph>>
  /\ UNCHANGED <<image, held, wild>>

\* `if (sgsize>i)', and back to load_elf with the result 0.
LastPage ==
  /\ pc = "sg" /\ U(i + BY2PG) >= seg.memsz
  /\ IF seg.memsz <= i
     THEN pc' = "load_elf" /\ ph' = ph + 1 /\ UNCHANGED <<m, i, tempVa, p, failed>>
     ELSE IF page = NULL THEN Panic
     ELSE /\ Took(tempVa)
          /\ m' = bzero(insert(tempVa), page, seg.memsz - i)
          /\ pc' = "load_elf" /\ ph' = ph + 1 /\ UNCHANGED <<i, tempVa>>
  /\ UNCHANGED <<image, held, wild>>

Returned == pc \in {"loaded", "no_stack", "not_elf", "panicked"}
Stopped  == Returned /\ UNCHANGED vars

Loader == LoadIcode \/ NextHeader \/ LoadDone \/ FirstPage \/ WholePage \/ PartPage
          \/ ZeroedPage \/ LastPage
Next == Loader \/ Stopped

Spec     == Init /\ [][Next]_vars
\* The loader runs in the kernel, with interrupts off, until it returns.
FairSpec == Spec /\ WF_vars(Loader)

-----------------------------------------------------------------------------
(***************************************************************************)
(* Properties.                                                             *)
(***************************************************************************)

ProgramByte == Word \cup {Byte(k) : k \in -1 .. 2 * Wrap}

\* Types of the loader's variables, i as an unsigned number (env.c:253) and p a
\* page that may still be NULL, and of what the loader changes in memory.
TypeOK ==
  /\ m.free \in Seq(Page) /\ m.ref \in [AllPages -> 0 .. RefMax]
  /\ \A q \in AllPages, k \in Idx : m.mem[q][k] \in ProgramByte
  /\ held \subseteq Page /\ ph \in 1 .. Len(image.seg) + 1
  /\ i \in 0 .. Wrap - 1 /\ tempVa \in Nat /\ p \in Page \cup {NULL}
  /\ wild \in BOOLEAN /\ failed \in BOOLEAN

FreeSet == {m.free[k] : k \in 1 .. Len(m.free)}
Dirs    == {boot_pgdir, env_pgdir}
Lost    == {q \in Page : m.ref[q] = 0 /\ q \notin FreeSet \cup held}

\* Loading, also when memory runs out in the middle of it, leaves the counts and
\* the free list exact; a page falls out of both only after a call has failed.
MemoryExact ==
  /\ \A j, k \in 1 .. Len(m.free) : m.free[j] = m.free[k] => j = k
  /\ \A q \in FreeSet : m.ref[q] = 0 /\ q \notin held
  /\ \A q \in Page : m.ref[q] = Cardinality(pointers(m, Dirs, q))
                                + (IF q \in Dirs THEN 1 ELSE 0)
  /\ Lost # {} => failed

\* The byte a program finds at address a; the pages its tables map.
Mapped(n) == refill_finds(m, env_pgdir, va(n * BY2PG))
Loaded(a) == m.mem[page_lookup(m, env_pgdir, va(a)).pg][a % BY2PG]

\* The pages a segment lies in.
Pages(s) == {n \in 0 .. BY2PG * BY2PG - 1 : VPN(s.va) <= n /\ n * BY2PG < s.va + s.memsz}
LoadSegs == {k \in 1 .. Len(image.seg) : image.seg[k].load}

\* Segment s is in memory: its bytes from the file, then zeros.
InMemory(s) ==
  \A k \in 0 .. s.memsz - 1 :
    /\ Mapped(VPN(s.va + k))
    /\ Loaded(s.va + k) = IF k < s.filesz THEN Byte(U(s.off + k)) ELSE Zero

\* What load_icode_mapper needs: if part of the segment's first page is below it,
\* that page holds no byte to be cleared, and no two segments share a page.
FillsFirstPage(s) ==
  \/ s.va % BY2PG = 0
  \/ s.filesz = s.memsz
  \/ (s.va % BY2PG) + s.filesz >= BY2PG
SegmentsApart ==
  \A j, k \in LoadSegs : j # k => Pages(image.seg[j]) \cap Pages(image.seg[k]) = {}

\* A program whose segments are on pages of their own is in memory whole and
\* byte for byte when load_icode is done, each page mapped once, and nothing else
\* is mapped but the stack, if memory sufficed and `i' was not garbage.
ProgramLoaded ==
  pc = "loaded" /\ ~failed /\ ~wild /\ SegmentsApart
    /\ (\A k \in LoadSegs : FillsFirstPage(image.seg[k]))
  => /\ \A k \in LoadSegs : InMemory(image.seg[k])
     /\ \A n \in 0 .. BY2PG * BY2PG - 1 :
          Mapped(n) <=> n = VPN(StackPage) \/ \E k \in LoadSegs : n \in Pages(image.seg[k])
     /\ \A k \in 0 .. BY2PG - 1 : Loaded(StackPage + k) = Zero

\* Loading comes to an end, whatever `i' was and however memory runs out.
LoadEnds == <>Returned

\* env.c: `This function loads the complete binary image by using elf loader,
\* into the environment's user memory.'
CompleteImage ==
  pc = "loaded" /\ ~failed /\ ~wild => \A k \in LoadSegs : InMemory(image.seg[k])

\* env.c: `return 0 on success, otherwise < 0'.  Back in load_elf the result of
\* load_icode_mapper was 0 for every segment before ph.
ResultTellsFailure == pc \in {"load_elf", "loaded"} /\ ph > 1 => ~failed
=============================================================================
