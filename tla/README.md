# MOS kernel: a TLA+ development

This directory models the MIPS R3000 teaching kernel of this repository (its
state after lab 3) in TLA+, checks the models with TLC and proves theorems about
them with TLAPS. Paths below are relative to the repository's root.

To run a check: `tlc -config <run>.cfg <module>.tla`; to check the proofs:
`tlapm <module>.tla`. `PROJECT.json` lists the runs, what each definition
translates, and the hazards with the properties that cover them.

## 1. The system

The kernel is one image in kseg0. It runs with interrupts off, is entered once
from `boot/start.S` and from then on through exceptions. One processor; what
interleaves is the running program, the TLB refill handler, and the calls the
kernel makes between them.

| part | files | state | operations | modelled in |
|---|---|---|---|---|
| physical page allocator | `mm/pmap.c`, `include/pmap.h` | `pages[].pp_ref`, `page_free_list` | `page_init`, `page_alloc`, `page_free`, `page_decref` | `Pmap`, `PmapSys` |
| page tables | `mm/pmap.c`, `include/mmu.h` | the words of directories and tables | `pgdir_walk`, `page_insert`, `page_lookup`, `page_remove` | `Pmap`, `PmapSys` |
| self-map | `lib/env.c`, `mm/pmap.c` | the directory's word at `UVPT` | `env_setup_vm`, `do_refill` and `pageout` above `UTOP` | `PmapSys`, `SelfMap` |
| TLB and refill | `mm/tlb_asm.S`, `lib/genex.S`, `mm/pmap.c` | TLB entries, EntryHi, `mCONTEXT` | `tlb_invalidate`, `tlb_out`, `do_refill`, `pageout` | `Pmap`, `PmapSys` |
| environments | `lib/env.c`, `lib/env_asm.S` | `envs[]`, `curenv`, `env_free_list`, `next_env_id` | `env_init`, `env_alloc`, `env_run`, `env_free`, `env_destroy`, `envid2env`, `mkenvid` | `EnvSys` |
| program loading | `lib/kernel_elfloader.c`, `lib/env.c` | the pages of a new environment | `load_icode`, `load_elf`, `load_icode_mapper` | `ElfLoad` |
| lists | `include/queue.h` | `lh_first`, `le_next`, `le_prev` | `LIST_INSERT_*`, `LIST_REMOVE`, `LIST_FOREACH` | `LinkedList` |
| boot-time memory | `mm/pmap.c`, `init/init.c` | `freemem`, `maxpa`, `boot_pgdir`, `pages`, `envs` | `alloc`, `boot_pgdir_walk`, `boot_map_segment`, `mips_vm_init`, `page_init` | `BootMem` |
| exceptions and interrupts | `boot/start.S`, `lib/genex.S`, `lib/traps.c`, `include/stackframe.h` | frames below `KERNEL_SP` and `TIMESTACK`, the status register | `SAVE_ALL`, `ret_from_exception`, `handle_int`, `page_fault_handler` | `Trap` |
| clock, scheduler | `lib/kclock*`, `lib/sched.c` | `KERNEL_SP` | `set_timer`, `sched_yield` (empty) | `Trap` |
| formatted output | `lib/print.c`, `lib/printf.c` | `fmt`, the directive, `buf` | `lp_Print`, `PrintNum`, `PrintString`, `PrintChar`, `printf`, `_panic` | `Printk` |
| system calls | `lib/syscall*` | - | `handle_sys` (always calls `sys_putchar`); the others do nothing | `Trap` |
| console, build files, `readelf` | `drivers/`, `tools/`, `readelf/` | - | I/O, data, a host tool | - |

How they interact. `env_alloc` takes a directory from the page allocator;
`load_icode` takes pages and maps them; `env_run` changes `mCONTEXT` and the ASID
that the refill handler and the TLB use; a program's access that misses the TLB
enters `do_refill`, which reads the tables the others wrote and calls `pageout`,
which allocates and maps; `env_free` undoes it all. Exceptions store what they
interrupt on one of two kernel stacks, and `env_run` moves the frame of a timer
interrupt to `env_tf`. `mips_vm_init` takes memory from the end of the image, and
`page_init` gives the rest to the page allocator. The page allocator and the
environments keep their free lists with the macros of `queue.h`.

What is hard. TLB entries outlive the tables they were made from, and address
spaces share one TLB. Pages move between roles (data, table, directory) without
anything but a count and a list to say so. `page_insert` can fail half-way, and
`pageout` and the loader ignore it. `pgdir_walk` and `page_lookup` read page 0
where a directory entry is missing. Counters have a width. Loops retry without a
bound. Handlers miss in the TLB themselves, so exceptions nest, on a stack chosen
by the sign of `sp`. Interrupts are off in the kernel only because a three-bit
stack in the processor is popped as often as it is pushed. Macros write through whatever `le_prev` holds. The list of these places,
each at its line, is "hazards" in `PROJECT.json`.

What makes each part correct:
- *allocator*: the free list holds each unused page once and nothing else; a
  count is the number of references; a page is handed out clear.
- *page tables*: directories and tables form a forest that no address below `UTOP`
  reaches; the self-map shows an environment its own ones only. (It shows them
  writable, so all of this is about programs that do not store there.)
- *TLB and refill*: an entry says what the tables say now; the retry loop ends.
- *together*: an address space behaves as a map from addresses to pages.
- *environments*: slot, id and directory stay one to one; freeing an environment
  gives back what it held and nothing of anybody else's.
- *loading*: the image arrives byte for byte, and nothing else is mapped.
- *lists*: the pointers are the order the user believes in, in both directions.
- *boot*: no two chunks of `alloc` share a page, and the page allocator gets exactly
  what is left.
- *exceptions*: an environment never notices them, and neither the clock nor another
  environment is shut out.
- *output*: what appears is what the format means.

## 2. Plan

Most important first; all but the last are done. Every invariant, every action property
and the refinement that the runs check is also proved, but those of `SelfMap`.

1. `Pmap`, `PmapSys`, `AddrSpace`: memory manager, its clients, its abstract
   specification; `PmapLemmas`, `PmapInvariant`: type correctness and all five
   safety invariants, and that it implements `AddrSpace`. `SelfMap`: the window at
   `UVPT`.
2. `LinkedList`, `LinkedListProofs`: the lists `Pmap` and `EnvSys` take as
   sequences.
3. `ElfLoad` on `Pmap`; `ElfLoadProofs`, from the same lemmas.
4. `EnvSys` on `PmapSys`; `EnvSysProofs`, from `PmapLemmas`' `Good`.
5. `Trap`: entry and exit of exceptions, the frame at `TIMESTACK`, `env_run` of the
   running environment, the empty `sched_yield`, ASIDs in EntryHi; `TrapProofs`.
6. `BootMem`: `alloc`, `boot_map_segment`, `mips_vm_init`, `page_init`; that the
   state they leave is the one `Pmap` starts from; `BootMemProofs`.
7. `Printk` against `PrintFormat`, which says what a format means; `PrintkProofs`.
8. Environments whose ASIDs repeat (from the 64th on), with the entries a teardown
   leaves behind. Today the tree makes five (two programs, three in `env_check`).

## 3. The modules and the code

**`Pmap`** has one operator for each function of `mm/pmap.c`, of `tlb_out` and of
`do_refill`'s parts. Each takes the memory state `m` and returns the state the
function leaves: `m.free` (`page_free_list` as a traversal sees it), `m.ref`
(`pp_ref`, 16 bits: `Inc` and `Dec` wrap at `RefMax`), `m.mem` (every word of
every page), `m.tlb`, `m.asid`. Directories and tables are pages like any other,
so a wrong store really corrupts them. `walk` returns a slot in page 0 where the
code does.

**`PmapSys`** is the system around it. One action per call a client can make
(`PageAlloc`, `PageFree`, `PageInsert`, `PageRemove`, `EnvSetupVm`, `EnvRun`), the
program's `UserStore` through a TLB entry, `TlbMiss`, and the two branches of one
turn of `do_refill` (`RefillLoad`, `RefillPageout`). `fault` is the address the
handler works for; while it is set nobody else runs. `held` is what callers got
from `page_alloc`; `pinned` are pages `pageout` counted twice (a history variable
that lets the count invariant be exact). `PanicLoop` is `_panic`'s endless loop.
`uvpt` has what `env_setup_vm` writes above `UTOP` of its own (env.c:163-167): the
directory as its own table at `UVPT`, with `PTE_V` and `PTE_R`. The word at `VPT` has
no `PTE_V` and is at an address the TLB never sees; the rest above `UTOP` is a copy of
`boot_pgdir`'s words, which are `BootMem`'s.

**`SelfMap`** adds programs that access the window at `UVPT`. The walk of `do_refill`
takes the directory for a table there, so `WindowLoad` makes a TLB entry for the
directory or one of its tables, and where there is none, `WindowPageout` stores a new
page through the self-map, which makes it a page table. The addresses of the window
that show the tables of `boot_pgdir` (whose directory entries lack `PTE_R`) and the
word at `VPT` are left out.

**`AddrSpace`** is what that amounts to for a client: spaces are functions from
addresses to mappings; there is no free list, no count, no table and no TLB.
`PmapSys!Abstract` maps one to the other: `spaces[d][va]` is what a two-level walk
finds, `content` is the memory of pages held or mapped.

**`EnvSys`** extends `PmapSys` with `envs`, `env_free_list`, `next_env_id` and
`curenv`. `Alloc` is `env_alloc` including `env_setup_vm`; `Run` is `env_run` up to
the registers; `CheckPerm` is `envid2env` with `checkperm`: its answer is
`envid2env_perm`, and with a NULL `curenv` it faults. `env_free`, as
`env_destroy` calls it, takes a step for every turn of its loops: `EnvFree` chooses
the environment, `FreePage` is one `page_remove`, `FreeTable` one turn of the outer
loop's end, `FreeDirectory` what follows the loops. `freeing` is the environment
it is at, and while it is set nothing else runs. The entries
a loop skips are no steps. `PageOp` are the actions of `PmapSys` but the
two it refines. `env_free` ends in `LIST_REMOVE(e, env_sched_link)` of a link nothing
sets, which panics; so `FreeDirectory` is the last step. All the properties of a
teardown are about the states of these steps and the one the last of them leaves.

**`ElfLoad`** starts where `env_alloc` returns and runs `load_icode`, `load_elf` and
`load_icode_mapper`, one page per step. Both of `load_icode_mapper`'s loops, the
short first page, the uninitialised `i` (any value of `Garbage`), the unsigned
wrap of `i + BY2PG`, and every ignored result are there. Free pages are dirty at
the start. A word of `Pmap` stands for a byte, and addresses are numbers.

**`LinkedList`** has `next` and `prev` for `lh_first`, `le_next`, `le_prev`, indexed by the
structure the field is in, so that `*(elm)->le_prev` is `next[prev[elm]]`. An
action is one macro; `LIST_INSERT_TAIL`'s loop, whose variable is the element's
own `le_next`, takes a step per turn. `Steal` and `GiveBack` are the self tests'
`fl = page_free_list; LIST_INIT(...); ...; page_free_list = fl`. `list` is what the
user believes.

**`Trap`** follows one processor through exceptions. `cpu` has the program counter
(an environment's code, or the handler that runs), the stack pointer, the general
registers as one value `r` (they are saved and restored together), and the
interrupt-enable bits of the status register. `except_vec3` is an exception being
taken: the processor's push, the jump of `boot/start.S` through
`exception_handlers`, `get_sp`, `SAVE_ALL` and `CLI`. A handler is split where it
touches user memory, for there it may miss and be interrupted itself
(`KernelMiss`): `page_fault_handler` and its copy `CopyFrame`, `handle_sys` and
`ReadArguments`. `ret_from_exception` and `env_pop_tf` are the two ways out. `frames`
holds the frames by stack and depth, so a frame written over another is lost.
`do_reserved` is an empty label in front of `do_refill`, and so it is in
`exception_handlers`. `ctx` and `gx` are history variables: what each environment
must go on with, and what its nested faults interrupted.

**`BootMem`** has the memory as words, a page being `BY2PG` of them and an entry one.
Behind the kernel image memory is dirty and every word of it reads as a valid
entry, so a table that is not cleared shows. Each step is one `alloc` or one turn of
a loop; `MapPage` is a turn of `boot_map_segment` with its `boot_pgdir_walk`.
`HandOver` compares the end with `page_init_ref` and `page_init_free` of `Pmap`.

**`Printk`** has an action for each part of `lp_Print`'s loop (`Literal`, `Percent`,
`Flags`, `Width`, `Precision`, `LongFlag`, then one of `Convert`, `Default`,
`EndInside`), and `PrintChar`, `PrintString`, `PrintNum` as operators that return what
they leave in the buffer. `job` is what one caller prints: `printf` is one call of
`lp_Print`, `_panic` is three and its endless loop. **`PrintFormat`** says what a
format means without any of that: it finds the directives of the whole string,
writes numbers in positional notation from the left, and cuts the text at the
first piece that is longer than the buffer. `Asked` counts the arguments a format
takes, for the assumption that callers pass that many.

**`MCPmapSys`, `MCSelfMap`, `MCEnvSys`, `MCElfLoad`, `MCTrap`, `MCBootMem`, `MCPrintk`** give the constants for TLC.

Operators named `slip_...` are plausible mistakes in the operator that follows
them. No specification uses them. Replacing the operator by its slip makes TLC
report the property named in `PROJECT.json`: each property can fail.

### What the models assume

- A kernel call is atomic: interrupts are off in the kernel and only TLB misses
  interrupt it, on addresses it does not touch below `UTOP`.
- Callers are as careful as this tree's callers: they insert or free pages they
  got from `page_alloc` or that are mapped, map a page less than `RefMax` times,
  edit only the current directory or one that has not run, and leave tables to
  `pmap.c`.
- Programs store below `UTOP` only. Above it they could: the self-map names the
  directory and the tables with `PTE_R`, and `UPAGES` and `UENVS` are mapped with
  `PTE_R`, so a store there changes tables, counts, the free list or `env_tf`, and none of
  the properties of `PmapSys`, `EnvSys` and `Trap` would survive it. The report takes
  this region to be read-only for users (`exp-report/lab3实验报告.md:49`), but `PTE_R` is the write-enable
  bit (`include/mmu.h:41`; `do_refill` loads it as such), and `uvpt`, `pgdir_walk`'s entries and
  `MapsExact` have it as the code does. Loads from the self-map are in `SelfMap`; in the other models
  addresses are below `UTOP`.
- The directory entry at `UVPT` is each directory's own and is not counted in
  `pp_ref`, by the code or by `RefCountExact`. The other entries above `UTOP` are the same in
  every directory, and no operation here changes them.
- Every directory has its own ASID: `PmapSys` gives it one, and `Trap` takes
  `EnvNo` from the instance. `GET_ENV_ASID` is not cut to the six bits of the
  hardware, so this is true for `next_env_id` up to 63.
- `pageout`'s first test (`context < 0x80000000`) never holds, as `mCONTEXT` is a
  kseg0 address. `page_alloc(&p) < 0` never holds for the unsigned `r`; the panic
  on an empty free list comes from `p` being NULL.
- `sched_yield` is empty here, so no code of this tree calls `env_run`,
  `env_destroy` or `env_free`; they are modelled as the interface they are. `Trap` has
  the empty function (after which the processor is in code the model does not
  follow: `"astray"`) and, external, one that calls `env_run` as its comment says
  ("in circular fashion starting after the previously running env") or for any
  environment.
- Likewise nothing sets `env_pgfault_handler` and `env_xstacktop`. `Trap` has them set,
  to a handler that ends by loading all registers from the frame at its `sp`. Faults
  nest at most `XNest` deep, as many as fit the exception stack; the code has no
  check.
- The code of `.text.exc_vec3` is where the processor jumps to (`tools/scse0_3.lds`
  of this tree leaves it among the other text; the report has the lines that put it
  at 0x80000080), and TLB misses come to the same vector as the others.
- The system call's `epc` is not advanced, so a system call that returns is made
  again; `Trap` has it so. No comment says what it should do.
- `int` and `long` have the same width, `-num` of the least number is itself, and an
  argument is there for every specifier, not a NULL string (`JobsAssumption`). A
  directive's width fits the `int` it is read into. What bytes an overrun
  of `buf` destroys is left out: the fatal message is taken to come out.
- In `PmapSys` and its extensions the RAM `page_init` hands over is zero, as the
  simulator `gxemul` leaves it. `BootMem` and `ElfLoad` do without.
- No word of page 0 has `PTE_V` set (`boot_ram`; `ElfLoad` has it, too). `pgdir_walk`
  with `create` 0 returns a slot in that page for a missing table, and `page_lookup`,
  `page_insert` and `page_remove` look for `PTE_V` in what is there. With `tools/scse0_3.lds`
  as it is the kernel starts at 0x80010000 and page 0 is RAM nobody writes; where the
  exception vector's code is put at 0x80000080 it is in this page, and the low half
  of the address of `exception_handlers`, an operand there, must have that bit clear.
  No property checks this; what `AllocatedPagesClear` shows is that the kernel
  stores no entry there.
- A few lines would not compile as they stand (`truct Env_list`, a parenthesis in
  `PTE_ADDR`, `innenv_alloc`); they are read as what they evidently mean.
- External code: the MIPS processor (exceptions, `rfe`) and its TLB (probe, write, random replacement,
  write permission) as `lib/genex.S` and `mm/tlb_asm.S` use it.

## 4. The runs

| run | module, config | checks | distinct states |
|---|---|---|---|
| `pmap` | `MCPmapSys`, `Pmap.cfg` | `TypeOK`, `FreeListExact`, `RefCountExact`, `TablesPrivate`, `TlbCoherent`, `AllocatedPagesClear`, `ImplementsAddrSpace`, `RefillEnds` | 462,234 |
| `self_map` | `MCSelfMap`, `SelfMap.cfg` | `WindowTrue`, `RefCountExact`, `TablesPrivate`, `ImplementsAddrSpace` | 517,684 |
| `lists` | `LinkedList`, `LinkedList.cfg` | `TypeOK`, `Linked`, `TailEnds` | 174,321 |
| `elf_load` | `MCElfLoad`, `ElfLoad.cfg` | `TypeOK`, `MemoryExact`, `ProgramLoaded`, `LoadEnds` | 95,758 |
| `env_sys` | `MCEnvSys`, `EnvSys.cfg` | `EnvTypeOK`, `SlotsExact`, `IdsResolve`, `MemoryExact`, `OthersKeepMemory` | 1,650,624 |
| `trap` | `MCTrap`, `Trap.cfg` | `TrapTypeOK`, `ContextKept`, `XFramesKept`, `InterruptsBack`, `OwnPages`, `EveryoneRuns` | 660,792 |
| `boot_mem` | `MCBootMem`, `BootMem.cfg` | `BootTypeOK`, `ChunksApart`, `MapsExact`, `HandOver`, `BootEnds` | 7,293 |
| `printk` | `MCPrintk`, `Printk.cfg` | `PrintkTypeOK`, `OutputExact`, `PrintEnds` | 127,157 |

Runs that show a disagreement between the code and what the repository says of
it (TLC finds the property violated):

| run | property | what the code does |
|---|---|---|
| `elf_bss` | `CompleteImage` | the first, unaligned page is filled with bytes of the file past the segment |
| `elf_oom` | `ResultTellsFailure` | `load_icode_mapper` returns 0 whatever failed, and loses the page |
| `env_destroy` | `DestroyGoesOn` | `env_free` panics in its last statement |
| `trap_continue` | `GoesOn` | `env_run(curenv)` goes back to the registers of an earlier switch |

### What the properties say

*Memory.* `FreeListExact`: the free list has each page once, and exactly those
with `pp_ref` 0 that nobody holds. `RefCountExact`: `pp_ref` is the number of valid
entries below `UTOP` that name the page, plus one for a directory, plus the one of
`pageout` (which `include/pmap.h:16-17`, "the count of pointers", does not allow for: `pageout` counts its
page at `mm/pmap.c:744` and `page_insert` again at 426, so the page never becomes free). `TablesPrivate`: a table hangs off one directory entry and is never data, so
no store to an address below `UTOP` reaches it; the self-map, which does show tables,
shows an address space its own directory and tables and no other's. `TlbCoherent`: an
entry is what its address space's tables say, with write permission only for `PTE_R`
without `PTE_COW`. `AllocatedPagesClear`: no words of a former user survive, and no entry
is stored in page 0 (that a new directory maps nothing is part of
`ImplementsAddrSpace`). `RefillEnds`: a miss ends in a loaded entry or a panic, also when
`page_insert` failed and `pageout` ignored it. `ImplementsAddrSpace`: every behaviour is one
of `AddrSpace`.

*Self-map.* `WindowTrue`: what an environment sees at `UVPT` are its own directory and
tables as they are now, whatever was mapped and whoever ran since the entry was
loaded. `RefCountExact`, `TablesPrivate` and `ImplementsAddrSpace` again, with tables
that `pageout` makes through the window: such a table is counted twice, like every
page of `pageout`, and private like every table, and the address space does not
change.

*Environments.* `SlotsExact`: `env_free_list` is the free slots once each, and live
slots and directories are one to one. `IdsResolve`: an id finds the environment it
was given to and nothing else, 0 is nobody's, and with `checkperm` the running one
finds itself and its children. `MemoryExact`: `FreeListExact`
and `RefCountExact` hold after a teardown, too. `OthersKeepMemory` (an action
property): making or freeing an environment changes no other one's translations
and no page it maps.

*Loading.* `ProgramLoaded`: if memory sufficed, segments do not share pages, and the
first page needs no zeros, memory is the image and nothing else is mapped; the
three conditions are exactly what `elf_bss` and `elf_oom` show to be necessary, and
`wild` leaves out the runs in which the uninitialised `i` was not 0. `MemoryExact`:
counts and list stay exact even when memory runs out at any page, and a page is
lost only after a failure. `LoadEnds`: loading ends for every value of `i`.

*Lists.* `Linked`: `le_next` and `le_prev` agree with the believed order on every list
and on every head copied away. `TailEnds`: `LIST_INSERT_TAIL` ends.

*Exceptions.* `ContextKept`: whenever an environment runs it has the program counter,
stack pointer and registers it was interrupted with, and while it waits they are in
its `env_tf`; refills, system calls, page faults and the misses inside them in
between make no difference. `XFramesKept`: the exception stack of every environment
holds, one above the other, what its nested faults interrupted. `InterruptsBack`: the
processor's stack of enable bits survives nesting and `env_pop_tf`. `OwnPages`: though
no switch clears the TLB, what the running environment can hit is its own
(`trap` has a `do_reserved` that loads entries for a stale BADVADDR; the ones it makes
for page 0 are left out, and shown to be the only ones). `EveryoneRuns`: with a
round-robin `sched_yield`, each environment runs again and again whatever the other
does. `GoesOn` is the half of `ContextKept` that fails once a scheduler chooses the
running environment.

*Boot.* `ChunksApart`: chunks and the tables made between them start on pages of
their own and are inside the memory, and the image is never written. `MapsExact`:
`UPAGES` and `UENVS` map `pages` and `envs` page by page, and nothing else is mapped. The
entries have `PTE_R`, which makes them writable, though the
report says that users only read there. `HandOver`: the allocator gets the pages that are neither image nor chunk, in the
state `Pmap` starts from. `BootEnds`: success or `alloc`'s panic, as the sizes say.

*Output.* `OutputExact`: what has reached the console when printing stops is the
format's meaning, and the fatal message comes exactly for a piece longer than the
buffer. (A precision is read and means nothing, in the code and in `PrintFormat`.) `PrintkTypeOK` has the only bound on what `lp_Print` reads: `fmt` stays on
the format and its NUL. `PrintEnds`: no format keeps the scanning loops going.

### Bounds, and why they are enough

- *`pmap`*: six pages, two of them the kernel's; four to hand out are enough for
  a directory, a table, a page and one more, and for running out in each of
  `page_alloc`, `pgdir_walk`, `env_setup_vm` and `pageout`. Two directory entries and
  two table entries distinguish addresses that share a table from those that do
  not. One TLB entry makes every load replace something; `dirs` has `boot_pgdir` and
  one environment, so entries of two address spaces meet. `RefMax` is 3, the
  largest count that arises. The theorems lift all these bounds.
- *`self_map`*: two environments, so that the windows of both have entries in the TLB,
  and the same six pages; a directory and a table each leave none for anything
  else, so memory runs out in the window as well.
- *`env_sys`*: seven pages, five to hand out: two directories, two tables and one
  page that both environments map, which is the smallest memory where a teardown
  could take something from the other one. One address. Two slots; ids do not
  wrap.
- *`elf_load`*: three bytes to a page, three entries to a table, nine pages of
  address space. The first segment has every start in two pages, every file size
  up to 7 and memory size up to 8 (no page, part of one, two and a part); the
  second is empty (as in `init/code_a.c`), adjacent, far away or on the same page.
  `Taken` lets memory run out at every page. `Wrap` = 64 stands for 2^32; `Garbage` has
  0, a value inside the file, one beyond every segment, and 61, for which
  `i + BY2PG` wraps.
- *`lists`*: four elements and two heads: first, inner and last positions, and
  interference between lists. The theorem lifts it.
- *`trap`*: two environments, the least number that can disturb each other; two
  TLB entries, so that the user page and the exception stack can both be there and
  either can be replaced; two nested faults, the second being the one that takes
  the other branch of `page_fault_handler`. Registers have two values. Exceptions
  nest two deep on the kernel stacks, which `TrapTypeOK` shows to be all there is.
- *`boot_mem`*: four words to a page. Memories of 6 to 16 pages straddle the ones
  where each `alloc` is the first that fails; the image ends on every word of a page
  and on two more; `envs` is less than a page, exactly one, part of two, and as
  many as one table maps.
- *`printk`*: bytes for words (`Wrap` 256), with 0, the largest, the least and -1
  among the values; a buffer of 12, so that a width of 12 fits and 13 does not. The
  first set of formats has each specifier with the flags in both orders, and
  another directive behind it; the second has every string of up to four of the
  characters `lp_Print` tells apart.

`CHECK_DEADLOCK` is on where the model goes on for ever; a panic and the end of
loading are steps that change nothing there (`PanicLoop`, `Stopped`), because the code
loops there or returns. It is off for `boot_mem` and `printk`, which end, and for
`trap` and `trap_continue`, which stop behind the empty `sched_yield`.

### Fairness

Only in the liveness properties. `PmapSys!FairSpec` has weak fairness of the refill
handler (`do_refill` runs with interrupts off), `LinkedList!FairSpec` of a macro's
loop, `ElfLoad!FairSpec` of the loader, `BootMem!FairSpec` and `Printk!FairSpec` of the
only code that runs: in each, nothing can preempt it. `Trap!FairSpec` has weak
fairness of the handlers, and strong fairness of the timer interrupt: the device's
interrupt stays raised until it is taken, and an environment that misses again and
again enables interrupts for an instant each time. No program and no client is
assumed to do anything.

## 5. The proofs

Checked by TLAPS for every value of the constants that meets the named
assumptions, which TLC evaluates on the runs:

- `PmapAssumption`, `ZeroAssumption`, `PmapSysAssumption`: at least one page for the
  kernel beside the directory and at least one to hand out, a finite set of word
  indices, `RefMax` above 2;
- `ElfLoadAssumption`, `ProgramsAssumption`: a page has at least one byte; images are as
  a linker writes them, with no more bytes in the file than in memory and below the
  stack, and a segment is so much shorter than 2^32 bytes, and than 65535 pages, that
  two more pages of bytes are still a `u_long` and three more mappings still a `u_short`;
- `EnvSysAssumption`: at least one slot, and indices of words are numbers;
- `LinkedListAssumption`, `TrapAssumption`, and the parts of the ones above that say
  that values which stand for "nothing" differ from the others;
- `AsidAssumption`: no two environments share an ASID (see section 3);
- `BootMemAssumption`: `UPAGES` and `UENVS` are two entries of a directory, the arrays
  are not empty and fit a table each (`mmu.h` gives them a `PDMAP`), and the image
  ends inside the memory;
- `PrintkAssumption`, `CharAssumption`, `JobsAssumption`: the buffer has at least one byte and
  the number of words is even; the characters include those `lp_Print` prints by
  itself; formats and strings hold no NUL, numbers fit an `int`, and every specifier has
  its argument.

| theorem | module | statement |
|---|---|---|
| `TypeCorrect` | `PmapInvariant` | `Spec => []TypeOK` |
| `FreeListCorrect` | `PmapInvariant` | `Spec => []FreeListExact` |
| `RefCountCorrect` | `PmapInvariant` | `Spec => []RefCountExact` |
| `TablesCorrect` | `PmapInvariant` | `Spec => []TablesPrivate` (programs storing below `UTOP`) |
| `TlbCorrect` | `PmapInvariant` | `Spec => []TlbCoherent` |
| `ClearCorrect` | `PmapInvariant` | `Spec => []AllocatedPagesClear` |
| `AddrSpaceImplemented` | `PmapInvariant` | `Spec => ImplementsAddrSpace` |
| `EnvTypeCorrect` | `EnvSysProofs` | `EnvSpec => []EnvTypeOK` |
| `SlotsCorrect` | `EnvSysProofs` | `EnvSpec => []SlotsExact` |
| `IdsCorrect` | `EnvSysProofs` | `EnvSpec => []IdsResolve` |
| `EnvMemoryCorrect` | `EnvSysProofs` | `EnvSpec => []MemoryExact` |
| `OthersCorrect` | `EnvSysProofs` | `EnvSpec => OthersKeepMemory` |
| `TrapTyped` | `TrapProofs` | `Switching` implies `Spec => []TrapTypeOK` |
| `ContextPreserved` | `TrapProofs` | `Switching` implies `Spec => []ContextKept` |
| `ExceptionStacksKept` | `TrapProofs` | `Switching` implies `Spec => []XFramesKept` |
| `InterruptsRestored` | `TrapProofs` | `Switching` implies `Spec => []InterruptsBack` |
| `PagesOwned` | `TrapProofs` | `Switching` implies `Spec => []OwnPages` |
| `BootTyped` | `BootMemProofs` | `Spec => []BootTypeOK` |
| `ChunksCorrect` | `BootMemProofs` | `Spec => []ChunksApart` |
| `MapsCorrect` | `BootMemProofs` | `Spec => []MapsExact` |
| `HandOverCorrect` | `BootMemProofs` | `Spec => []HandOver` |
| `LoaderTyped` | `ElfLoadProofs` | `Spec => []TypeOK` |
| `LoaderMemory` | `ElfLoadProofs` | `Spec => []MemoryExact` |
| `ProgramsLoaded` | `ElfLoadProofs` | `Spec => []ProgramLoaded` |
| `LinkTypes` | `LinkedListProofs` | `Spec => []TypeOK` |
| `ListsLinked` | `LinkedListProofs` | `Spec => []Linked` |
| `PrintkTypeCorrect` | `PrintkProofs` | `Spec => []PrintkTypeOK` |
| `PrintkOutputExact` | `PrintkProofs` | `Spec => []OutputExact` |
| `SpecifierText` | `PrintkProofs` | `Converted(s, a) = Text(d, s, a)`: the switch prints the directive's field |

*Memory manager.* None of the five invariants is inductive alone. That a store of
a program leaves the tables alone needs the TLB to be right and the tables to be
private; that the TLB is right needs the tables to be a forest, so that an edit
changes one address of one space; that a new table is nobody else's needs the
counts and the free list; that `page_lookup` finds nothing where there is no table
needs page 0 to be clear. So `IInv` has them all: types, `Good(m, dirs, held,
pinned)`, `Coherent` (the TLB, and that no entry belongs to a directory that has
not run), and that the ASID is the current directory's. `Good` is stated of any
state, directories, held and pinned pages, and one lemma for each function of
`Pmap` leads from `Good` to `Good` with the sets changed as the function changes
them (`GoodAlloc`, `GoodFree`, `GoodDirectory`, `GoodLink`, `CreateGood`, `RemoveGood`,
`InsertGood`, ...); `page_insert` is the composition of its parts there as in the
code. Counts are cardinalities of sets of entries, handled with
`FiniteSetTheorems`. `StepIInv` then has one step per action.

*Refinement.* The abstract variables are written as functions of the memory
state, the directories and the held pages (`maps`, `contents`), and `AddrSpace`'s
actions over them. With `IInv` on both sides of a step, one lemma for each action
of `PmapSys` shows which abstract action it is: `PageInsert` becomes a `Map` when it
succeeds; a failing one, which may leave an empty table, a removal that finds
nothing, `EnvRun` and `RefillLoad` change no abstract variable. The lemmas of
`PmapLemmas` say for each operation which maps and whose contents change, and
that is where the work is: a new table must not make an old page's words visible.

*Environments.* `EnvIInv` has `Good` of the memory, with the pages `env_free` still
has to give back, at all times, but the rest of `IInv` only while `freeing` is `NULL`.
Half-way through `env_free` it would be wrong: the TLB may hold entries of a
directory that is gone, and `mCONTEXT` names it. That nothing runs between those
steps is what makes it harmless. `DropTable` says that counting a table down after
its last entry is gone gives it back and disturbs no other directory;
`OthersCorrect` follows from it and `RemoveMemory`.

*Exceptions.* `ContextKept` is not inductive: the way out of a fault handler goes
through a frame that is read over the TLB, so it needs `OwnPages` and
`XFramesKept`; these need that a handler's frames are where `get_sp` put them, that
the enable bits agree with what runs, and that `KERNEL_SP` and `TIMESTACK` hold
the frame of the innermost exception. `IInv` says all of that place by place
(`cpu.pc` decides which part speaks). `Switching` says which schedulers: the empty
`sched_yield` of the tree, or the one its comment describes with at least two
environments. Without it `ContextKept` is false, which is `trap_continue`'s finding.

*Loading.* The lemmas of `PmapLemmas` are about pages of entries, and here pages
hold bytes and free ones are dirty. `Entries(m)` is the memory in which whatever is
no entry reads as clear. Since directories, tables and page 0 hold entries only
(`Tidy`), no function of `Pmap` sees the difference, and each lemma is lifted once:
`SoundAlloc`, `SoundCreate`, `SoundClear`, `SoundInsert`; filling a page with bytes keeps
the entries what they were (`SoundFill`). `Away` are the pages neither counted nor
free; that they are `held` unless something has failed is `MemoryExact`'s last part.
`CursorInv` is what the unsigned `i` and `tempVa` do for every start of `i`: `tempVa` is
never more than a page ahead of `i`, so the loops map nothing behind the segment,
and when `page_alloc` fails and the old page is mapped once more, its count is bounded
by the pages passed. For `ProgramLoaded` there is `LoadInv`: the segments before `ph`
are in place (`InPlace`), the one at `ph` up to its byte `i`, which is the one at
`tempVa`, and exactly the pages in `Filled` are mapped. `AfterPut` says that a page put
at an address changes what is found in that page only; that no later page falls on
an earlier one is `SegmentsApart`, the stack being above them all.

*Boot.* `BInv` adds three things to the properties. `ChunkInv`: `freemem` is past
every chunk, and every page below it is in use. `MapInv`: the directory has Zero in
every entry but two, and what the two tables behind these hold, as far as
`boot_map_segment` has come; a table not yet made is a Zero entry. `InitInv`: the
counts and the free list after `i` turns of `page_init`. Division and rounding are
nonlinear arithmetic; the lemmas from `DivMod` to `RegionPages` reduce them to what
the steps need: multiples of a page lie a page apart, and a region that fits a
table never leaves it.

*Lists.* `Linked` needs that no element is on two lists or twice on one (`Apart`), or
a write through `le_prev` could land anywhere; and, in the loop of
`LIST_INSERT_TAIL`, that the element's `le_next` is some position of the list and its
`le_prev` the pointer before (`TailInv`). `InsertChain` and `RemoveChain` say what one
insertion or removal at position k does to a chain, and serve all macros.

*Output.* Both sides of `OutputExact` are recursive: `FlattenSeq`, `RevDigits`, `Power`,
`PiecesFrom`. The library's induction theorems are not usable here, so `MeasureInduction`
proves a claim for all of a set from the least element of the set of measures where it
fails, and `Recursion` that a function whose calls fall in a measure exists and obeys
its equation. From these: `FlattenSeq` appends (`FlattenAppend`), the reversed digits are
the numeral (`NumberIs`), the digits read one by one are the width (`WidthDone`), and
`PiecesFrom` and `Asked` unfold (`PiecesAre`, `AskedIs`). `PrintkInv` is the inductive
invariant. Between two directives it says that what is out is what the pieces so far
show, and that those and the pieces `fmt` and `ap` still give are all of the call's
(`Begun`, which also has that enough arguments are left). Inside a directive that began
at `k` it says so of `k`, and of `fmt` and `dir` how much of the directive they have
seen, one predicate for each loop (`InFlags` to `InConvert`). Without it
neither property is inductive: `ap` stays within the arguments only because it has
taken as many as the specifiers `fmt` has passed. `OutputPiece` is the one
lemma about `OUTPUT`; `Overrun` says that a piece that does not fit is the first of all
that does not, over all the calls of `_panic`. `PrintkInv` quantifies over all sequences of
strings, so TLC checks only what follows from it.

`TablesCorrect` needs beside `IInv` that `uvpt` stays what `env_setup_vm` made it
(`SelfMapKept`): then a window is a directory and its own tables, and that two
windows have no page in common is the forest again.

Only model-checked: `SelfMap`, and the liveness properties (`RefillEnds`, `TailEnds`, `LoadEnds`,
`EveryoneRuns`, `BootEnds`, `PrintEnds`), which are out of the prover's reach.

## 6. Not modelled

Of the system calls, what is behind the table: the functions have empty bodies,
and `handle_sys` always calls the first. Console drivers are single loads and stores
of device registers, and `_start` sets up a stack and calls `main`. The self tests
in `mm/pmap.c` and `lib/env.c` were read as statements about the code. `readelf/` is a
host tool, and `init/code_*.c`, the linker script and the makefiles are data; the
shapes of the two programs' segments are among those of `elf_load`. Of `env_create`
it is left out that it is `env_alloc` and the loader in a row, with an uninitialised
pointer if no slot were free, which cannot happen in the two calls at boot.
`is_elf_format` compares with the indices `EI_MAG0`.. instead of the bytes, and its
answer is used the other way round; `ElfLoad` has both, and no property is about a
file that is no ELF file. Environments with equal ASIDs and the TLB entries that
`env_free` of another environment leaves behind are not modelled: this tree makes
two environments for programs and three in `env_check`, and `env_free` never returns.
