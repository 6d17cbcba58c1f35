-------------------------------- MODULE Trap --------------------------------
(***************************************************************************)
(* Exceptions and interrupts: the vector of boot/start.S, SAVE_ALL, CLI    *)
(* and RESTORE_SOME of include/stackframe.h, the handlers of lib/genex.S,  *)
(* lib/syscall.S and lib/traps.c, set_timer of lib/kclock_asm.S, and       *)
(* env_run of lib/env.c with env_pop_tf and lcontext of lib/env_asm.S.     *)
(*                                                                         *)
(* A step is one instruction's effect on an environment, one exception     *)
(* taken (hardware, vector, SAVE_ALL, CLI), one piece of a handler between *)
(* its accesses to user memory, or one return.  The general registers that *)
(* a frame saves change together: r.  Registers a system call or a refill  *)
(* gives back as results are not part of r.                                *)
(*                                                                         *)
(* A stack pointer is <<"U", 0>>, the user stack; <<"X", d>>, d frames     *)
(* below env_xstacktop; <<"K", d>>, d frames below KERNEL_SP; <<"T", d>>,  *)
(* d frames below 0x82000000.                                              *)
(***************************************************************************)
EXTENDS Integers, FiniteSets, Sequences

CONSTANTS
  NENV,       \* environments 1 .. NENV, all of them runnable
  NASID,      \* how many ASIDs EntryHi has room for (64)
  EnvNo,      \* what mkenvid counted when it made each environment's id
  TlbSize,    \* entries of the TLB
  XNest,      \* faults an environment's handler nests: they fit its exception
              \* stack, BY2PG / sizeof(struct Trapframe) of them
  Schedulers, \* what sched_yield may do (see HandleInt)
  NULL

Env == 1 .. NENV

ASSUME TrapAssumption ==
  /\ NENV \in Nat \ {0} /\ NASID \in Nat \ {0} /\ EnvNo \in [Env -> Nat \ {0}]
  /\ TlbSize \in Nat \ {0} /\ XNest \in Nat \ {0}
  /\ Schedulers \subseteq {"empty", "next", "any"}
  /\ NULL \notin Env

VARIABLES
  scheduler,   \* which sched_yield this is (never changes)
  cpu,         \* [pc, sp, r, st]: st is the status register's stack of
               \* interrupt-enable bits, <<IEo, IEp, IEc>>
  badvaddr, entryhi,   \* CP0_BADVADDR; CP0_ENTRYHI as [vpn, asid]
  tlb,         \* [vpn, asid, page]: page is <<environment, vpn>>
  frames,      \* struct Trapframes on the kernel's stacks, by their sp
  xstack,      \* the frames on each environment's exception stack
  env_tf,      \* of each environment
  curenv, mCONTEXT,    \* mCONTEXT: whose env_pgdir it points to
  PgTrapFrame, \* page_fault_handler's local
  ctx,         \* the [pc, sp, r] each environment must go on with (history)
  gx           \* the contexts its nested page faults interrupted (history)

vars == <<scheduler, cpu, badvaddr, entryhi, tlb, frames, xstack, env_tf, curenv,
          mCONTEXT, PgTrapFrame, ctx, gx>>
mmu == <<badvaddr, entryhi, tlb>>
ctl == <<scheduler, xstack, env_tf, curenv, mCONTEXT, PgTrapFrame>>

UserPc == {"user", "pgfault_entry"}  \* the program; env_pgfault_handler
Handler == {"handle_int", "do_refill", "page_fault_handler", "bcopy", "handle_sys",
            "ret_from_exception"}
Vpn  == {"U", "X"}                   \* the pages of the user and exception stack
Slot == {"K", "T"} \X (1 .. 2)
NoFrame == [sp |-> <<"U", 0>>, r |-> 0, st |-> <<FALSE, FALSE, FALSE>>, epc |-> "none", pc |-> "none"]

\* GET_ENV_ASID, and what EntryHi keeps of it in its ASID field.
ASID(e) == EnvNo[e] % NASID

\* As for the environments this kernel makes: the counter stays below NASID.
ASSUME AsidAssumption == \A e, f \in Env : ASID(e) = ASID(f) => e = f

running == cpu.pc \in UserPc
context == [pc |-> cpu.pc, sp |-> cpu.sp, r |-> cpu.r]
hit(vpn) == {t \in tlb : t.vpn = vpn /\ t.asid = entryhi.asid}

\* env_alloc's frame; load_icode sets its pc.
FirstFrame == [NoFrame EXCEPT !.st = <<FALSE, TRUE, FALSE>>, !.pc = "user"]

\* set_timer: interrupts on, KERNEL_SP the stack pointer of now.
set_timer == [pc |-> "mips_init", sp |-> <<"K", 0>>, r |-> 0, st |-> <<FALSE, FALSE, TRUE>>]

\* After kclock_init, in mips_init's last loop.  No exception has come yet:
\* CP0_BADVADDR is any page do_refill finds or pageout makes.
Init ==
  /\ scheduler \in Schedulers
  /\ cpu = set_timer
  /\ badvaddr \in Vpn /\ entryhi = [vpn |-> "0", asid |-> 0] /\ tlb = {}
  /\ frames = [s \in Slot |-> NoFrame] /\ xstack = [e \in Env |-> [d \in 1 .. XNest |-> NoFrame]]
  /\ env_tf = [e \in Env |-> FirstFrame]
  /\ curenv = NULL /\ mCONTEXT = NULL /\ PgTrapFrame = NoFrame
  /\ ctx = [e \in Env |-> [pc |-> "user", sp |-> <<"U", 0>>, r |-> 0]]
  /\ gx = [e \in Env |-> << >>]

(***************************************************************************)
(* Entering and leaving the kernel.                                        *)
(***************************************************************************)
\* trap_init; "reserved" is any cause without a handler of its own.
exception_handlers(cause) ==
  CASE cause = "timer" -> "handle_int"
    [] cause = "mod"   -> "page_fault_handler"
    [] cause = "tlb"   -> "do_refill"
    [] cause = "sys"   -> "handle_sys"
    \* do_reserved is an empty label: what runs is the code behind it.
    [] cause = "reserved" -> "do_refill"

\* A timer interrupt has the stack at 0x82000000 to itself; any other exception
\* stays on a kernel stack it found, and comes from user mode to KERNEL_SP.
slip_get_sp(cause) ==                                  \* always KERNEL_SP
  IF cause = "timer" THEN <<"T", 0>> ELSE <<"K", 0>>
slip_get_sp_user(cause) == IF cause = "timer" THEN <<"T", 0>> ELSE cpu.sp
get_sp(cause) ==
  CASE cause = "timer" -> <<"T", 0>>
    [] cause # "timer" /\ cpu.sp[1] \in {"K", "T"} -> cpu.sp
    [] OTHER -> <<"K", 0>>

exception(st) == <<st[2], st[3], FALSE>>               \* what the processor does to st
slip_rfe(st) == st
rfe(st)       == <<st[1], st[1], st[2]>>
CLI(st)       == [st EXCEPT ![3] = FALSE]

\* The frame of an exception that left status st; TF_PC is not written.
SAVE_ALL(sp, st) ==
  [frames EXCEPT ![sp] = [sp |-> cpu.sp, r |-> cpu.r, st |-> st, epc |-> cpu.pc, pc |-> @.pc]]

\* The exception is taken: st is pushed, except_vec3 jumps to the cause's
\* handler, which begins with get_sp, SAVE_ALL and CLI.
except_vec3(cause) ==
  LET sp == [get_sp(cause) EXCEPT ![2] = @ + 1]
      st == exception(cpu.st)
  IN  /\ frames' = SAVE_ALL(sp, st)
      /\ cpu' = [pc |-> exception_handlers(cause), sp |-> sp, r |-> "kernel", st |-> CLI(st)]

\* BADVADDR and EntryHi's page, which TLB exceptions set.
Fault(vpn) == badvaddr' = vpn /\ entryhi' = [entryhi EXCEPT !.vpn = vpn]

\* Every register but sp; EPC for the jump that follows.
RESTORE_SOME(f) == [cpu EXCEPT !.r = f.r, !.st = f.st, !.pc = f.epc]

\* ret_from_exception: RESTORE_SOME, then sp, and rfe in the jump's delay slot.
\* (The frame left behind is on nobody's stack; the one at 0x82000000 is read
\* again by env_run.)
ret_from_exception ==
  /\ cpu.pc = "ret_from_exception"
  /\ LET f == frames[cpu.sp]
     IN  /\ cpu' = [RESTORE_SOME(f) EXCEPT !.sp = f.sp, !.st = rfe(@)]
         /\ frames' = IF cpu.sp[1] = "T" THEN frames ELSE [frames EXCEPT ![cpu.sp] = NoFrame]
  /\ UNCHANGED <<mmu, ctl, ctx, gx>>

(***************************************************************************)
(* What an environment does, or the clock does to it.                      *)
(***************************************************************************)
Compute ==
  /\ running
  /\ cpu' = [cpu EXCEPT !.r = 1 - @]
  /\ ctx' = [ctx EXCEPT ![curenv].r = 1 - @]
  /\ UNCHANGED <<mmu, frames, ctl, gx>>

TouchMiss ==
  /\ running
  /\ \E vpn \in Vpn : hit(vpn) = {} /\ Fault(vpn)
  /\ except_vec3("tlb")
  /\ UNCHANGED <<tlb, ctl, ctx, gx>>

\* A write to a page the TLB holds without PTE_R.
WriteFault ==
  /\ running /\ hit("U") # {} /\ Len(gx[curenv]) < XNest
  /\ Fault("U") /\ except_vec3("mod")
  /\ UNCHANGED <<tlb, ctl, ctx, gx>>

Syscall  == running /\ except_vec3("sys") /\ UNCHANGED <<mmu, ctl, ctx, gx>>
Reserved == running /\ except_vec3("reserved") /\ UNCHANGED <<mmu, ctl, ctx, gx>>

\* The environment's page fault handler ends by loading all registers from the
\* frame at its sp (user code; external).
PgfaultReturn ==
  /\ running /\ cpu.sp[1] = "X"
  /\ \E t \in hit("X") :
       LET f == xstack[t.page[1]][cpu.sp[2]]
       IN  /\ cpu' = [cpu EXCEPT !.pc = f.epc, !.sp = f.sp, !.r = f.r]
           /\ xstack' = [xstack EXCEPT ![t.page[1]][cpu.sp[2]] = NoFrame]
  /\ LET n == Len(gx[curenv])
     IN  ctx' = [ctx EXCEPT ![curenv] = gx[curenv][n]] /\ gx' = [gx EXCEPT ![curenv] = SubSeq(@, 1, n - 1)]
  /\ UNCHANGED <<mmu, frames, scheduler, env_tf, curenv, mCONTEXT, PgTrapFrame>>

Interrupt ==
  /\ cpu.st[3] /\ (running \/ cpu.pc = "mips_init")
  /\ except_vec3("timer")
  /\ UNCHANGED <<mmu, ctl, ctx, gx>>

(***************************************************************************)
(* The handlers.                                                           *)
(***************************************************************************)
\* What BUILD_HANDLER puts behind the call of a handler.
Handled == cpu' = [cpu EXCEPT !.pc = "ret_from_exception"]

\* The page is the one BADVADDR has in mCONTEXT's tables (pageout maps it when
\* there is none); the entry is for EntryHi, and goes where Random points.
slip_do_refill ==                                      \* the entry is for BADVADDR's
  /\ cpu.pc = "do_refill"                              \* page without an ASID
  /\ \E rest \in {tlb} \cup {tlb \ {t} : t \in tlb} :
       /\ Cardinality(rest) < TlbSize
       /\ tlb' = rest \cup {[vpn |-> entryhi.vpn, asid |-> 0, page |-> <<mCONTEXT, badvaddr>>]}
  /\ Handled
  /\ UNCHANGED <<badvaddr, entryhi, frames, ctl, ctx, gx>>
do_refill ==
  /\ cpu.pc = "do_refill"
  /\ \E rest \in {tlb} \cup {tlb \ {t} : t \in tlb} :
       /\ Cardinality(rest) < TlbSize
       /\ tlb' = rest \cup {[vpn |-> entryhi.vpn, asid |-> entryhi.asid, page |-> <<mCONTEXT, badvaddr>>]}
  /\ Handled
  /\ UNCHANGED <<badvaddr, entryhi, frames, ctl, ctx, gx>>

\* The frame is kept in a local, its sp moved to the exception stack: below
\* the faulting sp if that is there already, at its top if not.
slip_page_fault_handler ==                             \* never nests
  /\ cpu.pc = "page_fault_handler"
  /\ PgTrapFrame' = frames[cpu.sp]
  /\ frames' = [frames EXCEPT ![cpu.sp].sp = <<"X", 1>>]
  /\ cpu' = [cpu EXCEPT !.pc = "bcopy"]
  /\ UNCHANGED <<mmu, scheduler, xstack, env_tf, curenv, mCONTEXT, ctx, gx>>
page_fault_handler ==
  /\ cpu.pc = "page_fault_handler"
  /\ PgTrapFrame' = frames[cpu.sp]
  /\ frames' = [frames EXCEPT ![cpu.sp].sp = IF @[1] = "X" THEN <<"X", @[2] + 1>> ELSE <<"X", 1>>]
  /\ cpu' = [cpu EXCEPT !.pc = "bcopy"]
  /\ UNCHANGED <<mmu, scheduler, xstack, env_tf, curenv, mCONTEXT, ctx, gx>>

\* The copy to the exception stack, through the TLB; then the frame's epc is
\* env_pgfault_handler.
CopyFrame ==
  /\ cpu.pc = "bcopy"
  /\ LET tf == frames[cpu.sp]
     IN  /\ \E t \in hit("X") : xstack' = [xstack EXCEPT ![t.page[1]][tf.sp[2]] = PgTrapFrame]
         /\ frames' = [frames EXCEPT ![cpu.sp].epc = "pgfault_entry"]
         /\ gx' = [gx EXCEPT ![curenv] = Append(@, ctx[curenv])]
         /\ ctx' = [ctx EXCEPT ![curenv].pc = "pgfault_entry", ![curenv].sp = tf.sp]
  /\ PgTrapFrame' = NoFrame
  /\ Handled
  /\ UNCHANGED <<mmu, scheduler, env_tf, curenv, mCONTEXT>>

\* Six words from the user's stack, then sys_putchar, whatever was asked for;
\* its result is stored in the frame, and epc stays at the system call.
ReadArguments ==
  /\ cpu.pc = "handle_sys" /\ hit(frames[cpu.sp].sp[1]) # {}
  /\ Handled
  /\ UNCHANGED <<mmu, frames, ctl, ctx, gx>>

\* Either of them misses: an exception inside the handler.
KernelMiss ==
  /\ cpu.pc \in {"bcopy", "handle_sys"}
  /\ LET vpn == IF cpu.pc = "bcopy" THEN "X" ELSE frames[cpu.sp].sp[1]
     IN  hit(vpn) = {} /\ Fault(vpn)
  /\ except_vec3("tlb")
  /\ UNCHANGED <<tlb, ctl, ctx, gx>>

\* env_run: the frame at TIMESTACK is the old environment's, unless it goes on
\* itself; then lcontext and env_pop_tf, which sets EntryHi and ends in rfe.
env_pop_tf(tf, asid) ==
  /\ entryhi' = [vpn |-> "0", asid |-> asid]
  /\ cpu' = [pc |-> tf.pc, sp |-> tf.sp, r |-> tf.r, st |-> rfe(tf.st)]
slip_lcontext(e) == mCONTEXT' = IF mCONTEXT = NULL THEN e ELSE mCONTEXT     \* once only
lcontext(e)      == mCONTEXT' = e
env_run(e) ==
  LET old == frames[<<"T", 1>>]
  IN  /\ env_tf' = IF curenv \notin {NULL, e} THEN [env_tf EXCEPT ![curenv] = [old EXCEPT !.pc = old.epc]]
                   ELSE env_tf
      /\ curenv' = e
      /\ lcontext(e)
      /\ env_pop_tf(env_tf[e], ASID(e))

\* The sched_yield of lib/sched.c is empty: its jr ra goes to the interrupted
\* code's ra, on this stack and with interrupts off; the model ends there.
sched_yield ==
  /\ scheduler = "empty"
  /\ cpu' = [cpu EXCEPT !.pc = "astray"]
  /\ UNCHANGED <<env_tf, curenv, mCONTEXT, entryhi>>

\* One that calls env_run: for the next environment "in circular fashion", as
\* its comment says, or for any, the running one included (external).
Chosen == IF scheduler = "next" THEN {IF curenv = NULL THEN 1 ELSE (curenv % NENV) + 1} ELSE Env
Schedule == scheduler # "empty" /\ \E e \in Chosen : env_run(e)

\* (handle_int goes to timer_irq, whichever interrupt it is.)
timer_irq == sched_yield \/ Schedule
handle_int ==
  /\ cpu.pc = "handle_int"
  /\ timer_irq
  /\ UNCHANGED <<scheduler, badvaddr, tlb, frames, xstack, PgTrapFrame, ctx, gx>>

Kernel == ret_from_exception \/ do_refill \/ page_fault_handler \/ CopyFrame \/ ReadArguments
            \/ KernelMiss \/ handle_int
User   == Compute \/ TouchMiss \/ WriteFault \/ Syscall \/ Reserved \/ PgfaultReturn

Next == Kernel \/ User \/ Interrupt
Spec == Init /\ [][Next]_vars

\* The processor does not stop in a handler, and an interrupt stays raised
\* until it is taken, however short the times are that let it through.
FairSpec == Spec /\ WF_vars(Kernel) /\ SF_vars(Interrupt)

-----------------------------------------------------------------------------
\* Type invariant; the exceptions inside exceptions are two deep at most.
Sp == {<<"U", 0>>} \cup ({"X"} \X (1 .. XNest)) \cup ({"K", "T"} \X (0 .. 2))
TrapTypeOK ==
  /\ cpu.pc \in UserPc \cup Handler \cup {"mips_init", "astray"}
  /\ cpu.sp \in Sp /\ cpu.st \in [1 .. 3 -> BOOLEAN]
  /\ cpu.pc \in Handler => cpu.sp \in Slot
  /\ DOMAIN frames = Slot /\ \A s \in Slot : frames[s].sp \in Sp
  /\ badvaddr \in Vpn /\ entryhi.vpn \in Vpn \cup {"0"} /\ entryhi.asid \in 0 .. NASID - 1
  /\ Cardinality(tlb) <= TlbSize
  /\ {curenv, mCONTEXT} \subseteq Env \cup {NULL}
  /\ \A e \in Env : DOMAIN env_tf[e] = DOMAIN NoFrame /\ Len(gx[e]) <= XNest

\* An environment that runs has the registers, stack pointer and program
\* counter it was interrupted with, through refills, system calls, nested
\* misses, page faults and turns of the others; one that waits has them in its
\* env_tf.
ContextKept ==
  /\ running => context = ctx[curenv]
  /\ \A e \in Env \ {curenv} : cpu.pc # "astray" =>
       [pc |-> env_tf[e].pc, sp |-> env_tf[e].sp, r |-> env_tf[e].r] = ctx[e]

\* "Save register state of curenv", and go on with it when it is chosen again:
\* the first half of ContextKept, with a scheduler that may choose any.
GoesOn == running => context = ctx[curenv]

\* The exception stack of every environment, the running one or not, holds one
\* above the other the contexts its page faults interrupted.
XFramesKept ==
  \A e \in Env : \A d \in 1 .. Len(gx[e]) :
    [pc |-> xstack[e][d].epc, sp |-> xstack[e][d].sp, r |-> xstack[e][d].r] = gx[e][d]

\* Interrupts are off in every handler and on again in every environment: the
\* three-bit stack of the status register survives nested exceptions and the
\* way out through env_pop_tf.
InterruptsBack ==
  /\ running => cpu.st[3]
  /\ cpu.pc \in Handler => ~cpu.st[3]

\* With environments of different ASIDs, an entry the running environment can
\* hit is of its own page at that address, though no switch clears the TLB.
\* (Entries of page 0 can be wrong: do_reserved makes them.)
OwnPages ==
  running => \A t \in tlb : t.asid = ASID(curenv) /\ t.vpn # "0" => t.page = <<curenv, t.vpn>>

\* With a scheduler as its comment describes it every environment runs again
\* and again, whatever the others do: no handler keeps the processor or leaves
\* interrupts off.
EveryoneRuns == scheduler = "next" => \A e \in Env : []<>(running /\ curenv = e)
=============================================================================
