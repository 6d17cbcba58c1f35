------------------------------ MODULE BootMem -------------------------------
(***************************************************************************)
(* Memory at boot (mm/pmap.c): mips_detect_memory, mips_vm_init with its   *)
(* alloc, boot_pgdir_walk and boot_map_segment, and page_init, which hands *)
(* what is left to the page allocator of Pmap.  A step is one call of      *)
(* alloc, or one turn of a loop.                                           *)
(*                                                                         *)
(* The unit of memory is the word, BY2PG of them to a page; a directory    *)
(* and a table have an entry per word of a page.  Addresses are physical   *)
(* ones: KADDR and PADDR only add and subtract ULIM here.                  *)
(***************************************************************************)
EXTENDS Integers, Sequences, Functions

CONSTANTS
  BY2PG,      \* words to a page
  UPAGES,     \* the directory entry of address UPAGES ...
  UENVS,      \* ... and of UENVS; both are multiples of PDMAP
  Machines    \* [npage, end, envs]: pages of memory, the first address behind
              \* the kernel image, words of the envs array

\* The arrays fit the regions mmu.h gives them, of PDMAP bytes each.
ASSUME BootMemAssumption ==
  /\ BY2PG \in Nat \ {0} /\ UPAGES \in 0 .. BY2PG - 1 /\ UENVS \in 0 .. BY2PG - 1
  /\ UPAGES # UENVS
  /\ \A m \in Machines : /\ m.npage \in 1 .. BY2PG * BY2PG /\ m.envs \in 1 .. BY2PG * BY2PG
                         /\ m.end \in 1 .. m.npage * BY2PG - 1

VARIABLES
  machine,     \* the machine booted on (never changes)
  pc,          \* what comes next; "done" or "panic" at the end
  mem,         \* the words of the memory
  freemem,     \* 0 until the first alloc
  boot_pgdir, pages, envs,  \* the chunks alloc returned, 0 before
  i,           \* the loop variable of boot_map_segment and page_init
  pp_ref,      \* of every struct Page
  free,        \* page_free_list, its first page first
  chunks       \* what alloc has returned (history)

vars == <<machine, pc, mem, freemem, boot_pgdir, pages, envs, i, pp_ref, free, chunks>>

npage == machine.npage
maxpa == npage * BY2PG
Addr  == 0 .. maxpa - 1
SizeofPage == 1
ROUND(a, n) == ((a + n - 1) \div n) * n
PPN(a)      == a \div BY2PG

\* A word, read as an entry; Zero is the one without PTE_V.  Memory has words
\* of the kernel image below `end' and behind it what was there, which reads as
\* a valid entry.
Entry(pa, perm) == [pa |-> pa, perm |-> perm]
Zero  == Entry(0, {"zero"})
Image == Entry(0, {"image"})
Old   == Entry(0, {"old"})

Init ==
  /\ machine \in Machines
  /\ pc = "pgdir"
  /\ mem = [a \in Addr |-> IF a < machine.end THEN Image ELSE Old]
  /\ freemem = 0 /\ boot_pgdir = 0 /\ pages = 0 /\ envs = 0 /\ i = 0
  /\ pp_ref = [p \in 0 .. npage - 1 |-> 0] /\ free = << >> /\ chunks = {}

(***************************************************************************)
(* alloc: round up, take, clear, and only then look whether it fits.       *)
(***************************************************************************)
bzero(words, at, n) == [a \in DOMAIN words |-> IF a \in at .. at + n - 1 THEN Zero ELSE words[a]]

slip_alloc(n, align, clear) ==                                  \* no ROUND
  LET at == IF freemem = 0 THEN machine.end ELSE freemem
  IN  [at |-> at, next |-> at + n, mem |-> IF clear THEN bzero(mem, at, n) ELSE mem,
       oom |-> at + n >= maxpa]
slip_alloc_zero(n, align, clear) ==                             \* never clears
  LET at == ROUND(IF freemem = 0 THEN machine.end ELSE freemem, align)
  IN  [at |-> at, next |-> at + n, mem |-> mem, oom |-> at + n >= maxpa]
slip_alloc_oom(n, align, clear) ==                              \* > for >=
  LET at == ROUND(IF freemem = 0 THEN machine.end ELSE freemem, align)
  IN  [at |-> at, next |-> at + n, mem |-> IF clear THEN bzero(mem, at, n) ELSE mem,
       oom |-> at + n > maxpa]
alloc(n, align, clear) ==
  LET at == ROUND(IF freemem = 0 THEN machine.end ELSE freemem, align)
  IN  [at |-> at, next |-> at + n, mem |-> IF clear THEN bzero(mem, at, n) ELSE mem,
       oom |-> at + n >= maxpa]

\* The step that calls alloc: r is its result, next what follows if it returns.
Alloced(r, n, next) ==
  /\ freemem' = r.next
  /\ chunks' = chunks \cup {[at |-> r.at, n |-> n]}
  /\ pc' = IF r.oom THEN "panic" ELSE next

(***************************************************************************)
(* mips_vm_init.                                                           *)
(***************************************************************************)
AllocPgdir ==
  /\ pc = "pgdir"
  /\ LET r == alloc(BY2PG, BY2PG, TRUE)
     IN  Alloced(r, BY2PG, "pages") /\ mem' = r.mem /\ boot_pgdir' = r.at
  /\ UNCHANGED <<machine, pages, envs, i, pp_ref, free>>

AllocPages ==
  /\ pc = "pages"
  /\ LET n == npage * SizeofPage
         r == alloc(n, BY2PG, TRUE)
     IN  Alloced(r, n, "map pages") /\ mem' = r.mem /\ pages' = r.at
  /\ i' = 0
  /\ UNCHANGED <<machine, boot_pgdir, envs, pp_ref, free>>

AllocEnvs ==
  /\ pc = "envs"
  /\ LET r == alloc(machine.envs, BY2PG, TRUE)
     IN  Alloced(r, machine.envs, "map envs") /\ mem' = r.mem /\ envs' = r.at
  /\ i' = 0
  /\ UNCHANGED <<machine, boot_pgdir, pages, pp_ref, free>>

\* One turn of boot_map_segment at [pdx, i], with boot_pgdir_walk, which makes
\* the table first when the directory has none.
MapPage(pdx, n, pa, perm, next) ==
  LET pgdir_entryp == boot_pgdir + pdx + (PPN(i) \div BY2PG)
      put(words, table) == [words EXCEPT ![table + (PPN(i) % BY2PG)] = Entry(pa + i, perm)]
      r == alloc(BY2PG, BY2PG, TRUE)
  IN  IF i >= ROUND(n, BY2PG)
      THEN pc' = next /\ UNCHANGED <<mem, freemem, i, chunks>>
      ELSE /\ i' = i + BY2PG            \* (i is not looked at after a panic)
           /\ IF mem[pgdir_entryp] # Zero
              THEN mem' = put(mem, mem[pgdir_entryp].pa) /\ UNCHANGED <<pc, freemem, chunks>>
              ELSE /\ Alloced(r, BY2PG, pc)
                   /\ mem' = IF r.oom THEN r.mem
                             ELSE put([r.mem EXCEPT ![pgdir_entryp] = Entry(r.at, {})], r.at)

MapPages ==
  /\ pc = "map pages"
  /\ MapPage(UPAGES, npage * SizeofPage, pages, {"PTE_R"}, "envs")
  /\ UNCHANGED <<machine, boot_pgdir, pages, envs, pp_ref, free>>

MapEnvs ==
  /\ pc = "map envs"
  /\ MapPage(UENVS, machine.envs, envs, {"PTE_R"}, "page_init")
  /\ UNCHANGED <<machine, boot_pgdir, pages, envs, pp_ref, free>>

(***************************************************************************)
(* page_init: reference 1 below freemem, the others to the free list.      *)
(***************************************************************************)
PageInit ==
  /\ pc = "page_init"
  /\ pc' = "init" /\ i' = 0 /\ free' = << >>
  /\ freemem' = ROUND(freemem, BY2PG)
  /\ UNCHANGED <<machine, mem, boot_pgdir, pages, envs, pp_ref, chunks>>

slip_InitPage ==                                       \* freemem's page as well
  /\ pc = "init"
  /\ IF i = npage THEN pc' = "done" /\ UNCHANGED <<i, pp_ref, free>>
     ELSE /\ i' = i + 1 /\ pc' = pc
          /\ pp_ref' = [pp_ref EXCEPT ![i] = IF i + 1 < PPN(freemem) THEN 1 ELSE 0]
          /\ free' = IF i + 1 < PPN(freemem) THEN free ELSE <<i>> \o free
  /\ UNCHANGED <<machine, mem, freemem, boot_pgdir, pages, envs, chunks>>
slip_InitPage_far ==                                   \* i <= npage
  /\ pc = "init"
  /\ IF i > npage THEN pc' = "done" /\ UNCHANGED <<i, pp_ref, free>>
     ELSE /\ i' = i + 1 /\ pc' = pc
          /\ pp_ref' = [pp_ref EXCEPT ![i] = IF i < PPN(freemem) THEN 1 ELSE 0]
          /\ free' = IF i < PPN(freemem) THEN free ELSE <<i>> \o free
  /\ UNCHANGED <<machine, mem, freemem, boot_pgdir, pages, envs, chunks>>
InitPage ==
  /\ pc = "init"
  /\ IF i = npage THEN pc' = "done" /\ UNCHANGED <<i, pp_ref, free>>
     ELSE /\ i' = i + 1 /\ pc' = pc
          /\ pp_ref' = [pp_ref EXCEPT ![i] = IF i < PPN(freemem) THEN 1 ELSE 0]
          /\ free' = IF i < PPN(freemem) THEN free ELSE <<i>> \o free
  /\ UNCHANGED <<machine, mem, freemem, boot_pgdir, pages, envs, chunks>>

Next == AllocPgdir \/ AllocPages \/ AllocEnvs \/ MapPages \/ MapEnvs \/ PageInit \/ InitPage

Spec     == Init /\ [][Next]_vars
FairSpec == Spec /\ WF_vars(Next)

-----------------------------------------------------------------------------
Words(ch) == ch.at .. ch.at + ch.n - 1

\* Type invariant.
BootTypeOK ==
  /\ machine \in Machines
  /\ pc \in {"pgdir", "pages", "map pages", "envs", "map envs", "page_init", "init", "done", "panic"}
  /\ DOMAIN mem = Addr /\ \A a \in Addr : DOMAIN mem[a] = {"pa", "perm"}
  /\ {freemem, boot_pgdir, pages, envs, i} \subseteq Nat
  /\ pp_ref \in [0 .. npage - 1 -> 0 .. 1] /\ Range(free) \subseteq 0 .. npage - 1
  /\ \A ch \in chunks : ch.at \in Nat /\ ch.n \in Nat \ {0}

\* Whatever the image's end and the sizes are, alloc's chunks start on pages of
\* their own behind the image, no two share a page (the tables made between
\* them included), they are used up to freemem only, and unless alloc has
\* panicked they are inside the memory.  The image is never written.
ChunksApart ==
  /\ \A ch \in chunks : /\ ch.at % BY2PG = 0 /\ machine.end <= ch.at
                        /\ ch.at + ch.n <= freemem
                        /\ pc # "panic" => Words(ch) \subseteq Addr
  /\ \A c, d \in chunks :
       c # d => {PPN(a) : a \in Words(c)} \cap {PPN(a) : a \in Words(d)} = {}
  /\ \A a \in Addr : a < machine.end => mem[a] = Image

\* What boot_pgdir maps once mips_vm_init is through with it: UPAGES to `pages'
\* and UENVS to `envs', page by page, each with PTE_R, the bit that makes a page
\* writable (the report, on lab 3, has the region read-only for users), and nothing
\* else -- though tables and directory were dirty memory.
Mapped ==
  LET tables == {k \in 0 .. BY2PG - 1 : mem[boot_pgdir + k] # Zero}
      slots  == {s \in tables \X (0 .. BY2PG - 1) : mem[mem[boot_pgdir + s[1]].pa + s[2]] # Zero}
  IN  [s \in slots |-> mem[mem[boot_pgdir + s[1]].pa + s[2]]]
Region(pdx, at, n) == [s \in {pdx} \X (0 .. PPN(n - 1)) |-> Entry(at + s[2] * BY2PG, {"PTE_R"})]
MapsExact ==
  pc \in {"page_init", "init", "done"} =>
    LET p == Region(UPAGES, pages, npage * SizeofPage)
        e == Region(UENVS, envs, machine.envs)
    IN  Mapped = [s \in DOMAIN p \cup DOMAIN e |-> IF s \in DOMAIN p THEN p[s] ELSE e[s]]

\* The allocator starts as Pmap says it does, with nboot the pages below
\* freemem; no page of the image or of a chunk is on its list, and every page
\* that is neither is.
P == INSTANCE Pmap WITH nboot <- freemem \div BY2PG, Idx <- 0 .. BY2PG - 1,
                        RefMax <- 65535, Zero <- Zero
HandOver ==
  pc = "done" =>
    LET used  == {PPN(a) : a \in 0 .. machine.end - 1} \cup {PPN(a) : a \in UNION {Words(ch) : ch \in chunks}}
    IN  /\ pp_ref = P!page_init_ref /\ free = P!page_init_free
        /\ used \cap Range(free) = {}
        /\ used \cup Range(free) = 0 .. npage - 1

\* What mips_vm_init takes in all: every region rounded up to pages.
Needed ==
  LET up(n) == ROUND(n, BY2PG)
  IN  up(machine.end) + BY2PG + up(npage * SizeofPage) + BY2PG + up(machine.envs) + BY2PG

\* Boot ends: with the allocator set up when all of it fits with something to
\* spare, and in alloc's panic when it does not; no loop runs on.
BootEnds == <>(pc = IF Needed < maxpa THEN "done" ELSE "panic")
=============================================================================
