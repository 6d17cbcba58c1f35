----------------------------- MODULE TrapProofs ------------------------------
(***************************************************************************)
(* What Trap guarantees for any number of environments, ASIDs, TLB entries *)
(* and nested page faults: its five invariants, from one inductive one.    *)
(***************************************************************************)
EXTENDS Trap, FiniteSetTheorems, SequenceTheorems, TLAPS

K1 == <<"K", 1>>
K2 == <<"K", 2>>
T1 == <<"T", 1>>

\* The scheduler of the tree, and the one its comment describes when it has two
\* environments to choose from, never go on with the running one (see GoesOn).
Switching == Schedulers \subseteq {"empty", "next"} /\ NENV > 1

-----------------------------------------------------------------------------
(***************************************************************************)
(* The inductive invariant.                                                *)
(***************************************************************************)

\* The stack pointer of an environment with n page faults nested.
XTop(n) == IF n = 0 THEN <<"U", 0>> ELSE <<"X", n>>

Context  == [pc : UserPc, sp : {<<"U", 0>>} \cup ({"X"} \X (1 .. XNest)), r : {0, 1}]
Saved(f) == [pc |-> f.epc, sp |-> f.sp, r |-> f.r]
Resumed(f) == [pc |-> f.pc, sp |-> f.sp, r |-> f.r]
IsFrame(f) == /\ f = [sp |-> f.sp, r |-> f.r, st |-> f.st, epc |-> f.epc, pc |-> f.pc]
              /\ f.st \in [1 .. 3 -> BOOLEAN]

Shapes ==
  /\ cpu = [pc |-> cpu.pc, sp |-> cpu.sp, r |-> cpu.r, st |-> cpu.st]
  /\ cpu.st \in [1 .. 3 -> BOOLEAN]
  /\ frames = [s \in Slot |-> frames[s]]
  /\ \A s \in Slot : IsFrame(frames[s]) /\ frames[s].sp \in Sp
  /\ env_tf = [e \in Env |-> env_tf[e]] /\ \A e \in Env : IsFrame(env_tf[e])
  /\ ctx \in [Env -> Context] /\ gx \in [Env -> Seq(Context)]
  /\ xstack = [e \in Env |-> xstack[e]]
  /\ \A e \in Env : xstack[e] = [d \in 1 .. XNest |-> xstack[e][d]]
  /\ scheduler \in Schedulers

\* Faults nest one frame below the other, and the contexts they interrupted are
\* on the exception stack.
Nested ==
  \A e \in Env :
    /\ Len(gx[e]) <= XNest /\ ctx[e].sp = XTop(Len(gx[e]))
    /\ \A d \in 1 .. Len(gx[e]) : gx[e][d].sp = XTop(d - 1) /\ Saved(xstack[e][d]) = gx[e][d]

\* Who waits has its context in env_tf, interrupts to be on again.
Waiting == \A e \in Env \ {curenv} : Resumed(env_tf[e]) = ctx[e] /\ env_tf[e].st[2]

\* The translation registers are the running environment's, and what the TLB
\* holds under an ASID is a page of the environment it belongs to.
Translated ==
  /\ curenv \in Env \cup {NULL} /\ mCONTEXT = curenv
  /\ entryhi = [vpn |-> entryhi.vpn, asid |-> entryhi.asid]
  /\ badvaddr \in Vpn /\ entryhi.vpn \in {"0", badvaddr}
  /\ entryhi.asid = IF curenv = NULL THEN 0 ELSE ASID(curenv)
  /\ IsFiniteSet(tlb) /\ Cardinality(tlb) <= TlbSize
  /\ \A t \in tlb : t.vpn # "0" => \E e \in Env : t.asid = ASID(e) /\ t.page = <<e, t.vpn>>

\* Frame s is the running environment's context, interrupts to be on again.
Keeps(s) == curenv \in Env /\ Saved(frames[s]) = ctx[curenv] /\ frames[s].st[2]

\* What a handler needs that runs with the frame at K1.
AtK1(pc) ==
  IF pc = "bcopy"
  THEN /\ curenv \in Env /\ Len(gx[curenv]) < XNest
       /\ Saved(PgTrapFrame) = ctx[curenv]
       /\ Saved(frames[K1]) = [ctx[curenv] EXCEPT !.sp = <<"X", Len(gx[curenv]) + 1>>]
       /\ frames[K1].st[2]
  ELSE /\ pc \in {"do_refill", "page_fault_handler", "handle_sys", "ret_from_exception"}
       /\ Keeps(K1)
       /\ pc = "page_fault_handler" => Len(gx[curenv]) < XNest

Running   == running /\ cpu.st[3] /\ curenv \in Env /\ context = ctx[curenv]
Booting   == cpu.pc = "mips_init" /\ cpu.sp = <<"K", 0>> /\ curenv = NULL
Switched  == cpu.pc = "handle_int" /\ cpu.sp = T1 /\ ~cpu.st[3] /\ (curenv = NULL \/ Keeps(T1))
Handling  == cpu.sp = K1 /\ ~cpu.st[3] /\ AtK1(cpu.pc)
Refilling == /\ cpu.pc \in {"do_refill", "ret_from_exception"} /\ cpu.sp = K2 /\ ~cpu.st[3]
             /\ frames[K2].epc \in {"bcopy", "handle_sys"} /\ frames[K2].sp = K1
             /\ ~frames[K2].st[2]
             /\ AtK1(frames[K2].epc)
Astray    == cpu.pc = "astray" /\ cpu.sp = T1

Control == Running \/ Booting \/ Switched \/ Handling \/ Refilling \/ Astray

IInv == Shapes /\ Nested /\ Waiting /\ Translated /\ Control

-----------------------------------------------------------------------------
(***************************************************************************)
(* Facts about the parts of the state.                                     *)
(***************************************************************************)

LEMMA SlotFacts ==
  /\ K1 \in Slot /\ K2 \in Slot /\ T1 \in Slot
  /\ K1 # K2 /\ K1 # T1 /\ K2 # T1
  /\ K1[1] = "K" /\ K1[2] = 1
  /\ Slot \subseteq Sp
  /\ <<"U", 0>> \in Sp /\ <<"K", 0>> \in Sp
BY DEF K1, K2, T1, Slot, Sp

LEMMA TopFacts ==
  /\ XTop(0) = <<"U", 0>>
  /\ \A n \in 0 .. XNest : XTop(n) \in {<<"U", 0>>} \cup ({"X"} \X (1 .. XNest)) /\ XTop(n) \in Sp
  /\ \A n \in Nat \ {0} : XTop(n) = <<"X", n>>
BY TrapAssumption DEF XTop, Sp

\* Three bits are a stack of the status register.
LEMMA StatusFacts ==
  ASSUME NEW a \in BOOLEAN, NEW b \in BOOLEAN, NEW c \in BOOLEAN
  PROVE  /\ <<a, b, c>> \in [1 .. 3 -> BOOLEAN]
         /\ <<a, b, c>>[1] = a /\ <<a, b, c>>[2] = b /\ <<a, b, c>>[3] = c
OBVIOUS

\* A TLB entry the running environment hits at a page of its own names that page.
LEMMA HitFacts ==
  ASSUME Translated, curenv \in Env, NEW vpn \in Vpn, NEW t \in hit(vpn)
  PROVE  t.page = <<curenv, vpn>>
<1>1. t \in tlb /\ t.vpn = vpn /\ t.asid = ASID(curenv) /\ vpn # "0"
  BY TrapAssumption DEF hit, Translated, Vpn
<1>2. PICK e \in Env : t.asid = ASID(e) /\ t.page = <<e, t.vpn>>
  BY <1>1 DEF Translated
<1> QED
  BY <1>1, <1>2, AsidAssumption

\* An exception's frame: the context of the moment, the kernel's stack as get_sp
\* finds it, interrupts off.
LEMMA EntryFacts ==
  ASSUME Shapes, NEW cause, except_vec3(cause),
         NEW s \in Slot, [get_sp(cause) EXCEPT ![2] = @ + 1] = s
  PROVE  /\ cpu' = [pc |-> exception_handlers(cause), sp |-> s, r |-> "kernel", st |-> cpu'.st]
         /\ cpu'.st \in [1 .. 3 -> BOOLEAN] /\ ~cpu'.st[3]
         /\ frames' = [x \in Slot |-> frames'[x]]
         /\ \A x \in Slot : IsFrame(frames[x])' /\ (x # s => frames'[x] = frames[x])
         /\ Saved(frames'[s]) = context
         /\ frames'[s].st[2] = cpu.st[3]
<1> DEFINE st == exception(cpu.st)
<1>1. st = <<cpu.st[2], cpu.st[3], FALSE>> /\ st \in [1 .. 3 -> BOOLEAN]
  <2>1. cpu.st \in [1 .. 3 -> BOOLEAN]
    BY DEF Shapes
  <2>2. cpu.st[2] \in BOOLEAN /\ cpu.st[3] \in BOOLEAN
    BY <2>1
  <2>3. st = <<cpu.st[2], cpu.st[3], FALSE>>
    BY DEF exception
  <2>4. <<cpu.st[2], cpu.st[3], FALSE>> \in [1 .. 3 -> BOOLEAN]
    BY <2>2, StatusFacts
  <2> HIDE DEF st
  <2> QED
    BY <2>3, <2>4
<1>2. CLI(st) \in [1 .. 3 -> BOOLEAN] /\ ~CLI(st)[3]
  BY <1>1 DEF CLI
<1>3. frames' = SAVE_ALL(s, st) /\ cpu' = [pc |-> exception_handlers(cause), sp |-> s, r |-> "kernel", st |-> CLI(st)]
  BY DEF except_vec3
<1>4. frames' = [frames EXCEPT ![s] = [sp |-> cpu.sp, r |-> cpu.r, st |-> st, epc |-> cpu.pc, pc |-> frames[s].pc]]
  BY <1>3 DEF SAVE_ALL
<1>5. frames'[s] = [sp |-> cpu.sp, r |-> cpu.r, st |-> st, epc |-> cpu.pc, pc |-> frames[s].pc]
  BY <1>4 DEF Shapes
<1>6. \A x \in Slot : x # s => frames'[x] = frames[x]
  BY <1>4 DEF Shapes
<1>7. frames' = [x \in Slot |-> frames'[x]]
  BY <1>4 DEF Shapes
<1> HIDE DEF st
<1>8. IsFrame(frames'[s])
  BY <1>1, <1>5 DEF IsFrame
<1>9. \A x \in Slot : IsFrame(frames'[x])
  BY <1>6, <1>8 DEF Shapes
<1>10. Saved(frames'[s]) = context /\ frames'[s].st[2] = cpu.st[3]
  BY <1>1, <1>5 DEF Saved, context
<1> QED
  BY <1>2, <1>3, <1>6, <1>7, <1>9, <1>10 DEF IsFrame

-----------------------------------------------------------------------------
(***************************************************************************)
(* Where the machine is, and what an exception does there.                 *)
(***************************************************************************)

\* Only an environment that runs has a program counter of user code.
LEMMA RunningFacts ==
  ASSUME IInv, running
  PROVE  /\ Running /\ cpu.sp = ctx[curenv].sp /\ ctx[curenv] \in Context
         /\ cpu.sp[1] \in {"U", "X"} /\ cpu.sp \in Sp
<1>1. Running
  BY DEF IInv, Control, Running, Booting, Switched, Handling, Refilling, Astray, running, UserPc, AtK1
<1>2. cpu.sp = ctx[curenv].sp
  BY <1>1 DEF Running, context
<1>3. ctx[curenv] \in Context
  BY <1>1 DEF Running, IInv, Shapes
<1>4. ctx[curenv].sp \in {<<"U", 0>>} \cup ({"X"} \X (1 .. XNest))
  BY <1>3 DEF Context
<1> QED
  BY <1>1, <1>2, <1>3, <1>4 DEF Sp

LEMMA StackFacts ==
  ASSUME IInv
  PROVE  cpu.sp \in Sp
<1>1. CASE Running
  BY <1>1, RunningFacts DEF Running
<1>2. CASE ~Running
  BY <1>2, SlotFacts DEF IInv, Control, Booting, Switched, Handling, Refilling, Astray
<1> QED
  BY <1>1, <1>2

\* What no exception disturbs.
LEMMA EntryKeeps ==
  ASSUME IInv, NEW cause, except_vec3(cause),
         NEW s \in Slot, [get_sp(cause) EXCEPT ![2] = @ + 1] = s,
         UNCHANGED <<scheduler, xstack, env_tf, curenv, ctx, gx>>
  PROVE  Shapes' /\ Nested' /\ Waiting'
<1>1. Shapes
  BY DEF IInv
<1>2. /\ cpu' = [pc |-> exception_handlers(cause), sp |-> s, r |-> "kernel", st |-> cpu'.st]
      /\ cpu'.st \in [1 .. 3 -> BOOLEAN]
      /\ frames' = [x \in Slot |-> frames'[x]]
      /\ \A x \in Slot : IsFrame(frames[x])' /\ (x # s => frames'[x] = frames[x])
      /\ Saved(frames'[s]) = context
  BY <1>1, EntryFacts
<1>3. \A x \in Slot : frames'[x].sp \in Sp
  <2>1. frames'[s].sp = cpu.sp
    BY <1>2 DEF Saved, context
  <2> QED
    BY <1>1, <1>2, <2>1, StackFacts DEF Shapes
<1>4. cpu' = [pc |-> cpu'.pc, sp |-> cpu'.sp, r |-> cpu'.r, st |-> cpu'.st]
  BY <1>2
<1>5. Shapes'
  BY <1>1, <1>2, <1>3, <1>4 DEF Shapes, IsFrame
<1> QED
  BY <1>5 DEF IInv, Nested, Waiting

\* An exception of user code leaves its frame at K1, and it is the context.
LEMMA UserEntry ==
  ASSUME IInv, running, NEW cause \in {"tlb", "mod", "sys", "reserved"}, except_vec3(cause),
         UNCHANGED <<scheduler, xstack, env_tf, curenv, ctx, gx>>
  PROVE  /\ Shapes' /\ Nested' /\ Waiting'
         /\ cpu'.pc = exception_handlers(cause) /\ cpu'.sp = K1 /\ ~cpu'.st[3]
         /\ Keeps(K1)'
<1>1. [get_sp(cause) EXCEPT ![2] = @ + 1] = K1
  BY RunningFacts DEF get_sp, K1
<1>2. Shapes
  BY DEF IInv
<1>3. Shapes' /\ Nested' /\ Waiting'
  BY <1>1, SlotFacts, EntryKeeps
<1>4. /\ cpu' = [pc |-> exception_handlers(cause), sp |-> K1, r |-> "kernel", st |-> cpu'.st]
      /\ ~cpu'.st[3]
      /\ Saved(frames'[K1]) = context
      /\ frames'[K1].st[2] = cpu.st[3]
  BY <1>1, <1>2, SlotFacts, EntryFacts
<1>5. Keeps(K1)'
  BY <1>4, RunningFacts DEF Keeps, Running, Saved
<1>6. cpu'.pc = exception_handlers(cause) /\ cpu'.sp = K1
  BY <1>4
<1> QED
  BY <1>3, <1>4, <1>5, <1>6

\* A miss, in user code or in a handler, is for the running environment's ASID.
LEMMA FaultKeeps ==
  ASSUME Translated, NEW vpn \in Vpn, Fault(vpn), UNCHANGED <<tlb, curenv, mCONTEXT>>
  PROVE  Translated'
BY DEF Translated, Fault

-----------------------------------------------------------------------------
(***************************************************************************)
(* The steps of an environment.                                            *)
(***************************************************************************)

LEMMA ComputeStep ==
  ASSUME IInv, Compute
  PROVE  IInv'
<1> USE DEF IInv
<1>1. Running /\ curenv \in Env /\ ctx[curenv] \in Context
  BY RunningFacts DEF Compute, Running
<1>2. /\ cpu' = [cpu EXCEPT !.r = 1 - cpu.r] /\ ctx' = [ctx EXCEPT ![curenv].r = 1 - ctx[curenv].r]
      /\ UNCHANGED <<mmu, frames, ctl, gx>>
  BY DEF Compute
<1>3. cpu' = [pc |-> cpu.pc, sp |-> cpu.sp, r |-> 1 - cpu.r, st |-> cpu.st]
  BY <1>2 DEF Shapes
<1>4. /\ ctx'[curenv] = [pc |-> ctx[curenv].pc, sp |-> ctx[curenv].sp, r |-> 1 - ctx[curenv].r]
      /\ \A e \in Env : e # curenv => ctx'[e] = ctx[e]
      /\ DOMAIN ctx' = Env /\ ctx' = [e \in Env |-> ctx'[e]]
  BY <1>1, <1>2 DEF Shapes, Context
<1>5. ctx'[curenv] \in Context
  BY <1>1, <1>4 DEF Context
<1>6. ctx' \in [Env -> Context]
  BY <1>4, <1>5 DEF Shapes
<1>7. Shapes'
  BY <1>2, <1>3, <1>6 DEF Shapes, ctl, IsFrame
<1>8. \A e \in Env : ctx'[e].sp = ctx[e].sp
  BY <1>4
<1>9. Nested'
  BY <1>2, <1>8 DEF Nested, ctl
<1>10. Waiting' /\ Translated'
  BY <1>2, <1>4 DEF Waiting, Translated, ctl, mmu
<1>11. Running'
  BY <1>1, <1>2, <1>3, <1>4 DEF Running, running, context, ctl
<1> QED
  BY <1>7, <1>9, <1>10, <1>11 DEF Control

LEMMA TouchMissStep ==
  ASSUME IInv, TouchMiss
  PROVE  IInv'
<1>1. running /\ except_vec3("tlb") /\ UNCHANGED <<tlb, ctl, ctx, gx>>
  BY DEF TouchMiss
<1>2. PICK vpn \in Vpn : Fault(vpn)
  BY DEF TouchMiss
<1>3. /\ Shapes' /\ Nested' /\ Waiting' /\ cpu'.pc = "do_refill" /\ cpu'.sp = K1 /\ ~cpu'.st[3]
      /\ Keeps(K1)'
  BY <1>1, UserEntry DEF ctl, exception_handlers
<1>4. Translated'
  BY <1>1, <1>2, FaultKeeps DEF IInv, ctl
<1>5. Handling'
  BY <1>3 DEF Handling, AtK1
<1> QED
  BY <1>3, <1>4, <1>5 DEF IInv, Control

LEMMA WriteFaultStep ==
  ASSUME IInv, WriteFault
  PROVE  IInv'
<1>1. /\ running /\ except_vec3("mod") /\ UNCHANGED <<tlb, ctl, ctx, gx>>
      /\ Fault("U") /\ Len(gx[curenv]) < XNest
  BY DEF WriteFault
<1>2. /\ Shapes' /\ Nested' /\ Waiting' /\ cpu'.pc = "page_fault_handler" /\ cpu'.sp = K1 /\ ~cpu'.st[3]
      /\ Keeps(K1)'
  BY <1>1, UserEntry DEF ctl, exception_handlers
<1>3. Translated'
  BY <1>1, FaultKeeps DEF IInv, ctl, Vpn
<1>4. Handling'
  BY <1>1, <1>2 DEF Handling, AtK1, ctl
<1> QED
  BY <1>2, <1>3, <1>4 DEF IInv, Control

LEMMA SyscallStep ==
  ASSUME IInv, Syscall
  PROVE  IInv'
<1>1. running /\ except_vec3("sys") /\ UNCHANGED <<mmu, ctl, ctx, gx>>
  BY DEF Syscall
<1>2. /\ Shapes' /\ Nested' /\ Waiting' /\ cpu'.pc = "handle_sys" /\ cpu'.sp = K1 /\ ~cpu'.st[3]
      /\ Keeps(K1)'
  BY <1>1, UserEntry DEF ctl, exception_handlers
<1>3. Translated'
  BY <1>1 DEF IInv, Translated, mmu, ctl
<1>4. Handling'
  BY <1>2 DEF Handling, AtK1
<1> QED
  BY <1>2, <1>3, <1>4 DEF IInv, Control

LEMMA ReservedStep ==
  ASSUME IInv, Reserved
  PROVE  IInv'
<1>1. running /\ except_vec3("reserved") /\ UNCHANGED <<mmu, ctl, ctx, gx>>
  BY DEF Reserved
<1>2. /\ Shapes' /\ Nested' /\ Waiting' /\ cpu'.pc = "do_refill" /\ cpu'.sp = K1 /\ ~cpu'.st[3]
      /\ Keeps(K1)'
  BY <1>1, UserEntry DEF ctl, exception_handlers
<1>3. Translated'
  BY <1>1 DEF IInv, Translated, mmu, ctl
<1>4. Handling'
  BY <1>2 DEF Handling, AtK1
<1> QED
  BY <1>2, <1>3, <1>4 DEF IInv, Control

LEMMA InterruptStep ==
  ASSUME IInv, Interrupt
  PROVE  IInv'
<1>1. except_vec3("timer") /\ UNCHANGED <<mmu, ctl, ctx, gx>>
  BY DEF Interrupt
<1>2. [get_sp("timer") EXCEPT ![2] = @ + 1] = T1
  BY DEF get_sp, T1
<1>3. Shapes' /\ Nested' /\ Waiting'
  BY <1>1, <1>2, SlotFacts, EntryKeeps DEF ctl
<1>4. Translated'
  BY <1>1 DEF IInv, Translated, mmu, ctl
<1>5. /\ cpu'.pc = "handle_int" /\ cpu'.sp = T1 /\ ~cpu'.st[3]
      /\ Saved(frames'[T1]) = context /\ frames'[T1].st[2] = cpu.st[3]
  BY <1>1, <1>2, SlotFacts, EntryFacts DEF IInv, exception_handlers
<1>6. (curenv = NULL \/ Keeps(T1))'
  <2>1. UNCHANGED <<curenv, ctx>>
    BY <1>1 DEF ctl
  <2>2. CASE running
    BY <1>5, <2>1, <2>2, RunningFacts DEF Running, Keeps, Saved
  <2>3. CASE ~running
    BY <2>1, <2>3 DEF Interrupt, IInv, Control, Running, Booting, Switched, Handling, Refilling, Astray, AtK1
  <2> QED
    BY <2>2, <2>3
<1>7. Switched'
  BY <1>5, <1>6 DEF Switched
<1> QED
  BY <1>3, <1>4, <1>7 DEF IInv, Control

-----------------------------------------------------------------------------
(***************************************************************************)
(* The steps of the handlers.                                              *)
(***************************************************************************)

\* With the frame at K1 an environment is running, and the frame's stack pointer
\* is the one it goes on with.
LEMMA FrameFacts ==
  ASSUME Shapes, Nested, NEW pc, AtK1(pc)
  PROVE  /\ curenv \in Env /\ ctx[curenv] \in Context /\ gx[curenv] \in Seq(Context)
         /\ Len(gx[curenv]) \in 0 .. XNest /\ ctx[curenv].sp = XTop(Len(gx[curenv]))
         /\ pc # "bcopy" => frames[K1].sp = XTop(Len(gx[curenv]))
         /\ pc = "bcopy" => frames[K1].sp = <<"X", Len(gx[curenv]) + 1>>
<1>1. curenv \in Env
  BY DEF AtK1, Keeps
<1>2. ctx[curenv] \in Context /\ gx[curenv] \in Seq(Context)
  BY <1>1 DEF Shapes
<1>3. Len(gx[curenv]) \in 0 .. XNest /\ ctx[curenv].sp = XTop(Len(gx[curenv]))
  BY <1>1, <1>2, TrapAssumption DEF Nested
<1>4. ASSUME pc # "bcopy" PROVE frames[K1].sp = XTop(Len(gx[curenv]))
  BY <1>3, <1>4 DEF AtK1, Keeps, Saved
<1>5. ASSUME pc = "bcopy" PROVE frames[K1].sp = <<"X", Len(gx[curenv]) + 1>>
  BY <1>2, <1>5 DEF AtK1, Saved, Context
<1> QED
  BY <1>1, <1>2, <1>3, <1>4, <1>5

\* A handler that reads user memory runs with the frame at K1.
LEMMA HandlingFacts ==
  ASSUME IInv, cpu.pc \in {"page_fault_handler", "bcopy", "handle_sys"}
  PROVE  Handling
BY DEF IInv, Control, Running, Booting, Switched, Refilling, Astray, running, UserPc

LEMMA KernelMissStep ==
  ASSUME IInv, KernelMiss
  PROVE  IInv'
<1>1. /\ cpu.pc \in {"bcopy", "handle_sys"} /\ except_vec3("tlb") /\ UNCHANGED <<tlb, ctl, ctx, gx>>
      /\ Fault(IF cpu.pc = "bcopy" THEN "X" ELSE frames[cpu.sp].sp[1])
  BY DEF KernelMiss
<1>2. Handling
  BY <1>1, HandlingFacts
<1>3. [get_sp("tlb") EXCEPT ![2] = @ + 1] = K2
  BY <1>2 DEF Handling, get_sp, K1, K2
<1>4. Shapes' /\ Nested' /\ Waiting'
  BY <1>1, <1>3, SlotFacts, EntryKeeps DEF ctl
<1>5. Translated'
  <2>1. cpu.pc = "handle_sys" => frames[K1].sp[1] \in Vpn
    BY <1>2, FrameFacts, TopFacts DEF Handling, IInv, Vpn
  <2> QED
    BY <1>1, <1>2, <2>1, FaultKeeps DEF Handling, IInv, ctl, Vpn
<1>6. /\ cpu'.pc = "do_refill" /\ cpu'.sp = K2 /\ ~cpu'.st[3]
      /\ Saved(frames'[K2]) = context /\ frames'[K2].st[2] = cpu.st[3]
      /\ frames'[K1] = frames[K1]
  BY <1>1, <1>3, SlotFacts, EntryFacts DEF IInv, exception_handlers
<1>7. frames'[K2].epc = cpu.pc /\ frames'[K2].sp = K1 /\ ~frames'[K2].st[2]
  BY <1>2, <1>6 DEF Saved, context, Handling
<1>8. AtK1(frames[K2].epc)'
  <2>1. UNCHANGED <<curenv, gx, ctx, PgTrapFrame>>
    BY <1>1 DEF ctl
  <2>2. AtK1(frames'[K2].epc)
    BY <1>2, <1>7 DEF Handling
  <2> QED
    BY <1>6, <2>1, <2>2 DEF AtK1, Keeps, Saved
<1>9. Refilling'
  <2>1. frames'[K2].epc \in {"bcopy", "handle_sys"}
    BY <1>1, <1>7
  <2> QED
    BY <1>6, <1>7, <1>8, <2>1 DEF Refilling
<1> QED
  BY <1>4, <1>5, <1>9 DEF IInv, Control

\* The registers after RESTORE_SOME and what follows it.
LEMMA RestoreFacts ==
  ASSUME Shapes, NEW f
  PROVE  [RESTORE_SOME(f) EXCEPT !.sp = f.sp, !.st = rfe(@)]
           = [pc |-> f.epc, sp |-> f.sp, r |-> f.r, st |-> rfe(f.st)]
<1> DEFINE c1 == [cpu EXCEPT !.r = f.r]
           c2 == [c1 EXCEPT !.st = f.st]
           c3 == [c2 EXCEPT !.pc = f.epc]
           c4 == [c3 EXCEPT !.sp = f.sp]
           c5 == [c4 EXCEPT !.st = rfe(c3.st)]
<1>1. [RESTORE_SOME(f) EXCEPT !.sp = f.sp, !.st = rfe(@)] = c5
  <2>1. RESTORE_SOME(f) = c3
    BY DEF RESTORE_SOME
  <2> HIDE DEF c3
  <2>2. [c3 EXCEPT !.sp = f.sp, !.st = rfe(@)] = c5
    OBVIOUS
  <2> HIDE DEF c5
  <2> QED
    BY <2>1, <2>2
<1>2. c1 = [pc |-> cpu.pc, sp |-> cpu.sp, r |-> f.r, st |-> cpu.st]
  BY DEF Shapes
<1> HIDE DEF c1
<1>3. c2 = [pc |-> cpu.pc, sp |-> cpu.sp, r |-> f.r, st |-> f.st]
  BY <1>2
<1> HIDE DEF c2
<1>4. c3 = [pc |-> f.epc, sp |-> cpu.sp, r |-> f.r, st |-> f.st]
  BY <1>3
<1> HIDE DEF c3
<1>5. c4 = [pc |-> f.epc, sp |-> f.sp, r |-> f.r, st |-> f.st]
  BY <1>4
<1> HIDE DEF c4
<1>6. c3.st = f.st
  BY <1>4
<1>7. c5 = [pc |-> f.epc, sp |-> f.sp, r |-> f.r, st |-> rfe(f.st)]
  BY <1>5, <1>6
<1> HIDE DEF c5
<1> QED
  BY <1>1, <1>7

LEMMA RetStep ==
  ASSUME IInv, ret_from_exception
  PROVE  IInv'
<1> DEFINE f == frames[cpu.sp]
<1>1. Handling \/ Refilling
  BY DEF ret_from_exception, IInv, Control, Running, Booting, Switched, Astray, running, UserPc
<1>2. cpu.sp \in {K1, K2} /\ cpu.sp \in Slot /\ cpu.sp[1] = "K"
  BY <1>1, SlotFacts DEF Handling, Refilling, K2
<1>3. /\ cpu' = [pc |-> f.epc, sp |-> f.sp, r |-> f.r, st |-> rfe(f.st)]
      /\ frames' = [frames EXCEPT ![cpu.sp] = NoFrame] /\ UNCHANGED <<mmu, ctl, ctx, gx>>
  <2>1. cpu' = [RESTORE_SOME(f) EXCEPT !.sp = f.sp, !.st = rfe(@)]
    BY DEF ret_from_exception
  <2>2. cpu.sp[1] # "T"
    BY <1>2
  <2>3. frames' = [frames EXCEPT ![cpu.sp] = NoFrame] /\ UNCHANGED <<mmu, ctl, ctx, gx>>
    BY <2>2 DEF ret_from_exception
  <2> HIDE DEF f
  <2> QED
    BY <2>1, <2>3, RestoreFacts DEF IInv
<1>4. f.st[1] \in BOOLEAN /\ f.st[2] \in BOOLEAN
  BY <1>2 DEF IInv, Shapes, IsFrame
<1>5. rfe(f.st) \in [1 .. 3 -> BOOLEAN] /\ rfe(f.st)[3] = f.st[2]
  <2> HIDE DEF f
  <2> QED
    BY <1>4, StatusFacts DEF rfe
<1>6. /\ frames' = [s \in Slot |-> frames'[s]] /\ frames'[cpu.sp] = NoFrame
      /\ \A s \in Slot : s # cpu.sp => frames'[s] = frames[s]
  BY <1>2, <1>3 DEF IInv, Shapes
<1>7. IsFrame(NoFrame) /\ NoFrame.sp \in Sp
  BY SlotFacts, StatusFacts DEF NoFrame, IsFrame
<1>8. Shapes'
  <2>1. \A s \in Slot : IsFrame(frames[s])' /\ frames'[s].sp \in Sp
    BY <1>6, <1>7 DEF IInv, Shapes, IsFrame
  <2>2. cpu' = [pc |-> cpu'.pc, sp |-> cpu'.sp, r |-> cpu'.r, st |-> cpu'.st] /\ cpu'.st \in [1 .. 3 -> BOOLEAN]
    <3> HIDE DEF f
    <3> QED
      BY <1>3, <1>5
  <2> HIDE DEF f
  <2> QED
    BY <1>3, <1>6, <2>1, <2>2 DEF IInv, Shapes, ctl, IsFrame
<1>9. Nested' /\ Waiting' /\ Translated'
  BY <1>3 DEF IInv, Nested, Waiting, Translated, ctl, mmu
<1>10. Running' \/ Handling'
  <2>1. CASE Handling
    <3>1. Saved(f) = ctx[curenv] /\ f.st[2] /\ curenv \in Env
      <4>1. Keeps(K1) /\ f = frames[K1]
        BY <2>1 DEF Handling, AtK1, ret_from_exception
      <4> HIDE DEF f
      <4> QED
        BY <4>1 DEF Keeps
    <3>2. ctx[curenv].pc \in UserPc
      BY <3>1 DEF IInv, Shapes, Context
    <3> HIDE DEF f
    <3> QED
      <4>1. cpu'.pc = f.epc /\ cpu'.sp = f.sp /\ cpu'.r = f.r /\ cpu'.st = rfe(f.st)
        BY <1>3
      <4>2. UNCHANGED <<curenv, ctx>>
        BY <1>3 DEF ctl
      <4>3. context' = ctx'[curenv']
        BY <3>1, <4>1, <4>2 DEF context, Saved
      <4>4. running'
        BY <3>1, <3>2, <4>1 DEF running, Saved
      <4> QED
        BY <1>5, <3>1, <4>1, <4>2, <4>3, <4>4 DEF Running
  <2>2. CASE Refilling
    <3>1. cpu.sp = K2 /\ f.sp = K1 /\ ~f.st[2] /\ AtK1(f.epc)
      BY <2>2 DEF Refilling
    <3>2. frames'[K1] = frames[K1] /\ UNCHANGED <<ctx, gx, curenv, PgTrapFrame>>
      BY <1>3, <1>6, <3>1, SlotFacts DEF ctl
    <3> HIDE DEF f
    <3>3. cpu'.pc = f.epc /\ cpu'.sp = K1 /\ ~cpu'.st[3]
      BY <1>3, <1>5, <3>1
    <3>4. AtK1(cpu'.pc)
      BY <3>1, <3>3
    <3>5. AtK1(cpu.pc)'
      BY <3>2, <3>4 DEF AtK1, Keeps, Saved
    <3> QED
      BY <3>3, <3>5 DEF Handling
  <2> QED
    BY <1>1, <2>1, <2>2
<1> QED
  BY <1>8, <1>9, <1>10 DEF IInv, Control

LEMMA RefillStep ==
  ASSUME IInv, do_refill
  PROVE  IInv'
<1>1. Handling \/ Refilling
  BY DEF do_refill, IInv, Control, Running, Booting, Switched, Astray, running, UserPc
<1>2. cpu.pc = "do_refill" /\ Handled /\ UNCHANGED <<badvaddr, entryhi, frames, ctl, ctx, gx>>
  BY DEF do_refill
<1>3. cpu' = [pc |-> "ret_from_exception", sp |-> cpu.sp, r |-> cpu.r, st |-> cpu.st]
  BY <1>2 DEF Handled, IInv, Shapes
<1>4. Shapes'
  BY <1>2, <1>3 DEF IInv, Shapes, ctl, IsFrame
<1>5. Nested' /\ Waiting'
  BY <1>2 DEF IInv, Nested, Waiting, ctl
<1>6. curenv \in Env
  BY <1>1, FrameFacts DEF Handling, Refilling, IInv
<1>7. Translated'
  <2> DEFINE new == [vpn |-> entryhi.vpn, asid |-> entryhi.asid, page |-> <<mCONTEXT, badvaddr>>]
  <2>1. PICK rest \in {tlb} \cup {tlb \ {t} : t \in tlb} :
          Cardinality(rest) < TlbSize /\ tlb' = rest \cup {new}
    BY DEF do_refill
  <2>2. rest \subseteq tlb /\ IsFiniteSet(tlb)
    BY DEF IInv, Translated
  <2>3. IsFiniteSet(rest) /\ Cardinality(rest) \in Nat
    BY <2>2, FS_Subset, FS_CardinalityType
  <2>4. IsFiniteSet(tlb') /\ Cardinality(tlb') <= TlbSize
    <3> HIDE DEF new
    <3>1. IsFiniteSet(tlb') /\ (Cardinality(tlb') = Cardinality(rest) \/ Cardinality(tlb') = Cardinality(rest) + 1)
      BY <2>1, <2>3, FS_AddElement
    <3> QED
      BY <2>1, <2>3, <3>1, TrapAssumption
  <2>5. new.vpn # "0" => new.asid = ASID(curenv) /\ new.page = <<curenv, new.vpn>>
    BY <1>6, TrapAssumption DEF IInv, Translated
  <2>6. \A t \in tlb' : t.vpn # "0" => \E e \in Env : t.asid = ASID(e) /\ t.page = <<e, t.vpn>>
    <3> HIDE DEF new
    <3> QED
      BY <1>6, <2>1, <2>2, <2>5 DEF IInv, Translated
  <2> HIDE DEF new
  <2> QED
    BY <1>2, <2>4, <2>6 DEF IInv, Translated, ctl
<1>8. Handling' \/ Refilling'
  <2>1. UNCHANGED <<frames, ctx, gx, curenv, PgTrapFrame>>
    BY <1>2 DEF ctl
  <2>2. CASE Handling
    <3>1. AtK1("ret_from_exception")
      BY <1>2, <2>2 DEF Handling, AtK1
    <3>2. AtK1(cpu.pc)'
      BY <1>3, <2>1, <3>1 DEF AtK1, Keeps, Saved
    <3> QED
      BY <1>3, <2>2, <3>2 DEF Handling
  <2>3. CASE Refilling
    <3>1. AtK1(frames[K2].epc)'
      BY <2>1, <2>3 DEF Refilling, AtK1, Keeps, Saved
    <3> QED
      BY <1>3, <2>1, <2>3, <3>1 DEF Refilling
  <2> QED
    BY <1>1, <2>2, <2>3
<1> QED
  BY <1>4, <1>5, <1>7, <1>8 DEF IInv, Control

LEMMA PageFaultStep ==
  ASSUME IInv, page_fault_handler
  PROVE  IInv'
<1>1. Handling /\ AtK1("page_fault_handler") /\ cpu.sp = K1
  BY HandlingFacts DEF page_fault_handler, Handling
<1> DEFINE n == Len(gx[curenv])
           f == frames[K1]
           sp == <<"X", n + 1>>
<1>2. /\ curenv \in Env /\ n \in 0 .. XNest /\ n < XNest /\ f.sp = XTop(n)
      /\ Saved(f) = ctx[curenv] /\ f.st[2] /\ ctx[curenv] \in Context
  BY <1>1, FrameFacts DEF IInv, AtK1, Keeps
<1>3. (IF f.sp[1] = "X" THEN <<"X", f.sp[2] + 1>> ELSE <<"X", 1>>) = sp
  <2>1. f.sp = XTop(n) /\ n \in Nat
    BY <1>2, TrapAssumption
  <2> HIDE DEF n, f
  <2> QED
    BY <2>1 DEF XTop
<1>4. sp \in Sp
  <2>1. n + 1 \in 1 .. XNest
    BY <1>2, TrapAssumption
  <2> QED
    BY <2>1 DEF Sp
<1>5. /\ PgTrapFrame' = f /\ cpu' = [cpu EXCEPT !.pc = "bcopy"]
      /\ UNCHANGED <<mmu, scheduler, xstack, env_tf, curenv, mCONTEXT, ctx, gx>>
  BY <1>1 DEF page_fault_handler
<1>6. frames' = [frames EXCEPT ![K1] = [f EXCEPT !.sp = sp]]
  <2>1. frames' = [frames EXCEPT ![K1] = [f EXCEPT !.sp = IF f.sp[1] = "X" THEN <<"X", f.sp[2] + 1>> ELSE <<"X", 1>>]]
    BY <1>1 DEF page_fault_handler
  <2> HIDE DEF f, sp
  <2> QED
    BY <1>3, <2>1
<1> HIDE DEF sp
<1>7. IsFrame(f)
  BY SlotFacts DEF IInv, Shapes
<1>8. /\ frames'[K1] = [f EXCEPT !.sp = sp] /\ frames' = [s \in Slot |-> frames'[s]]
      /\ \A s \in Slot : s # K1 => frames'[s] = frames[s]
  BY <1>6, SlotFacts DEF IInv, Shapes
<1> HIDE DEF f, n
<1>9. frames'[K1] = [sp |-> sp, r |-> f.r, st |-> f.st, epc |-> f.epc, pc |-> f.pc]
  BY <1>7, <1>8 DEF IsFrame
<1>10. IsFrame(frames'[K1]) /\ frames'[K1].sp \in Sp
  BY <1>4, <1>7, <1>9 DEF IsFrame
<1>11. cpu' = [pc |-> "bcopy", sp |-> cpu.sp, r |-> cpu.r, st |-> cpu.st]
  BY <1>5 DEF IInv, Shapes
<1>12. Shapes'
  <2>1. \A s \in Slot : IsFrame(frames[s])' /\ frames'[s].sp \in Sp
    BY <1>8, <1>10 DEF IInv, Shapes, IsFrame
  <2> QED
    BY <1>5, <1>8, <1>11, <2>1 DEF IInv, Shapes, IsFrame
<1>13. Nested' /\ Waiting' /\ Translated'
  BY <1>5 DEF IInv, Nested, Waiting, Translated, mmu
<1>14. Saved(frames'[K1]) = [ctx[curenv] EXCEPT !.sp = sp] /\ frames'[K1].st[2]
  <2>1. Saved(frames'[K1]) = [pc |-> f.epc, sp |-> sp, r |-> f.r]
    BY <1>9 DEF Saved
  <2>2. ctx[curenv] = [pc |-> f.epc, sp |-> f.sp, r |-> f.r]
    BY <1>2 DEF Saved
  <2>3. [ctx[curenv] EXCEPT !.sp = sp] = [pc |-> f.epc, sp |-> sp, r |-> f.r]
    BY <2>2
  <2>4. frames'[K1].st = f.st
    BY <1>9
  <2> QED
    BY <1>2, <2>1, <2>3, <2>4
<1>15. AtK1("bcopy")'
  <2>1. UNCHANGED <<curenv, gx, ctx>>
    BY <1>5
  <2> QED
    BY <1>2, <1>5, <1>14, <2>1 DEF AtK1, n, sp
<1>16. Handling'
  BY <1>1, <1>11, <1>15 DEF Handling
<1> QED
  BY <1>12, <1>13, <1>16 DEF IInv, Control

LEMMA ReadArgumentsStep ==
  ASSUME IInv, ReadArguments
  PROVE  IInv'
<1>1. Handling
  BY HandlingFacts DEF ReadArguments
<1>2. cpu.pc = "handle_sys" /\ Handled /\ UNCHANGED <<mmu, frames, ctl, ctx, gx>>
  BY DEF ReadArguments
<1>3. cpu' = [pc |-> "ret_from_exception", sp |-> cpu.sp, r |-> cpu.r, st |-> cpu.st]
  BY <1>2 DEF Handled, IInv, Shapes
<1>4. Shapes'
  BY <1>2, <1>3 DEF IInv, Shapes, ctl, IsFrame
<1>5. Nested' /\ Waiting' /\ Translated'
  BY <1>2 DEF IInv, Nested, Waiting, Translated, ctl, mmu
<1>6. AtK1(cpu.pc)'
  <2>1. UNCHANGED <<frames, ctx, gx, curenv, PgTrapFrame>>
    BY <1>2 DEF ctl
  <2>2. AtK1("ret_from_exception")
    BY <1>1, <1>2 DEF Handling, AtK1
  <2> QED
    BY <1>3, <2>1, <2>2 DEF AtK1, Keeps, Saved
<1>7. Handling'
  BY <1>1, <1>3, <1>6 DEF Handling
<1> QED
  BY <1>4, <1>5, <1>7 DEF IInv, Control

LEMMA CopyFrameStep ==
  ASSUME IInv, CopyFrame
  PROVE  IInv'
<1>1. Handling /\ AtK1("bcopy") /\ cpu.sp = K1
  BY HandlingFacts DEF CopyFrame, Handling
<1> DEFINE n == Len(gx[curenv])
           f == frames[K1]
           sp == <<"X", n + 1>>
           c == ctx[curenv]
<1>2. /\ curenv \in Env /\ n \in Nat /\ n < XNest /\ n + 1 \in 1 .. XNest /\ f.sp = sp
      /\ Saved(PgTrapFrame) = c /\ Saved(f) = [c EXCEPT !.sp = sp] /\ f.st[2]
      /\ c \in Context /\ c.sp = XTop(n) /\ gx[curenv] \in Seq(Context)
  <2>1. curenv \in Env /\ c \in Context /\ gx[curenv] \in Seq(Context) /\ n \in 0 .. XNest /\ c.sp = XTop(n)
        /\ f.sp = sp
    BY <1>1, FrameFacts DEF IInv
  <2>2. Len(gx[curenv]) < XNest /\ Saved(PgTrapFrame) = c /\ Saved(f) = [c EXCEPT !.sp = sp] /\ f.st[2]
    BY <1>1 DEF AtK1
  <2> HIDE DEF c, f, sp
  <2> QED
    BY <2>1, <2>2, TrapAssumption
<1>3. xstack' = [xstack EXCEPT ![curenv] = [xstack[curenv] EXCEPT ![n + 1] = PgTrapFrame]]
  <2>1. PICK t \in hit("X") : xstack' = [xstack EXCEPT ![t.page[1]][frames[cpu.sp].sp[2]] = PgTrapFrame]
    BY DEF CopyFrame
  <2>2. t.page = <<curenv, "X">>
    BY <1>2, <2>1, HitFacts DEF IInv, Vpn
  <2>3. frames[cpu.sp].sp[2] = n + 1
    BY <1>1, <1>2
  <2> QED
    BY <2>1, <2>2, <2>3
<1>4. /\ frames' = [frames EXCEPT ![K1].epc = "pgfault_entry"]
      /\ gx' = [gx EXCEPT ![curenv] = Append(gx[curenv], c)]
      /\ cpu' = [cpu EXCEPT !.pc = "ret_from_exception"]
      /\ UNCHANGED <<mmu, scheduler, env_tf, curenv, mCONTEXT>>
  BY <1>1 DEF CopyFrame, Handled
<1>5. ctx' = [ctx EXCEPT ![curenv].pc = "pgfault_entry", ![curenv].sp = sp]
  BY <1>1, <1>2 DEF CopyFrame
<1>6. /\ ctx' = [e \in Env |-> ctx'[e]] /\ ctx'[curenv] = [pc |-> "pgfault_entry", sp |-> sp, r |-> c.r]
      /\ \A e \in Env : e # curenv => ctx'[e] = ctx[e]
  <2> DEFINE d == [ctx EXCEPT ![curenv].pc = "pgfault_entry"]
  <2>1. ctx' = [d EXCEPT ![curenv].sp = sp]
    <3> HIDE DEF sp
    <3> QED
      BY <1>5
  <2>2. /\ d = [e \in Env |-> d[e]] /\ d[curenv] = [pc |-> "pgfault_entry", sp |-> c.sp, r |-> c.r]
        /\ \A e \in Env : e # curenv => d[e] = ctx[e]
    BY <1>2 DEF IInv, Shapes, Context
  <2> HIDE DEF d, sp
  <2> QED
    BY <1>2, <2>1, <2>2
<1>7. ctx' \in [Env -> Context]
  <2>1. sp \in {"X"} \X (1 .. XNest)
    BY <1>2
  <2>2. c.r \in {0, 1} /\ "pgfault_entry" \in UserPc
    BY <1>2 DEF Context, UserPc
  <2> HIDE DEF sp
  <2>3. ctx'[curenv] \in Context
    BY <1>6, <2>1, <2>2 DEF Context
  <2>4. ctx \in [Env -> Context]
    BY DEF IInv, Shapes
  <2> QED
    BY <1>6, <2>3, <2>4
<1>8. /\ xstack'[curenv][n + 1] = PgTrapFrame
      /\ \A d \in 1 .. XNest : d # n + 1 => xstack'[curenv][d] = xstack[curenv][d]
      /\ \A e \in Env : e # curenv => xstack'[e] = xstack[e]
      /\ xstack' = [e \in Env |-> xstack'[e]]
      /\ \A e \in Env : xstack'[e] = [d \in 1 .. XNest |-> xstack'[e][d]]
  <2>1. xstack = [e \in Env |-> xstack[e]] /\ \A e \in Env : xstack[e] = [d \in 1 .. XNest |-> xstack[e][d]]
    BY DEF IInv, Shapes
  <2> HIDE DEF n
  <2> QED
    BY <1>2, <1>3, <2>1
<1>9. IsFrame(f)
  BY SlotFacts DEF IInv, Shapes
<1>10. /\ frames'[K1] = [sp |-> f.sp, r |-> f.r, st |-> f.st, epc |-> "pgfault_entry", pc |-> f.pc]
       /\ frames' = [s \in Slot |-> frames'[s]] /\ \A s \in Slot : s # K1 => frames'[s] = frames[s]
  <2>1. frames = [s \in Slot |-> frames[s]]
    BY DEF IInv, Shapes
  <2> QED
    BY <1>4, <1>9, <2>1, SlotFacts DEF IsFrame
<1>11. \A s \in Slot : IsFrame(frames'[s]) /\ frames'[s].sp \in Sp
  <2>1. IsFrame(frames'[K1]) /\ frames'[K1].sp = f.sp
    <3> HIDE DEF f
    <3> QED
      BY <1>9, <1>10 DEF IsFrame
  <2>2. \A s \in Slot : IsFrame(frames[s]) /\ frames[s].sp \in Sp
    BY DEF IInv, Shapes
  <2> QED
    BY <1>10, <2>1, <2>2, SlotFacts
<1>12. cpu' = [pc |-> "ret_from_exception", sp |-> cpu.sp, r |-> cpu.r, st |-> cpu.st]
  BY <1>4 DEF IInv, Shapes
<1>13. /\ gx'[curenv] = Append(gx[curenv], c) /\ gx' = [e \in Env |-> gx'[e]]
       /\ \A e \in Env : e # curenv => gx'[e] = gx[e]
  BY <1>2, <1>4 DEF IInv, Shapes
<1> HIDE DEF c, f
<1>14. /\ gx'[curenv] \in Seq(Context) /\ Len(gx'[curenv]) = n + 1
       /\ gx'[curenv][n + 1] = c /\ \A d \in 1 .. n : gx'[curenv][d] = gx[curenv][d]
  BY <1>2, <1>13
<1>15. Shapes'
  <2>1. gx' \in [Env -> Seq(Context)]
    BY <1>13, <1>14 DEF IInv, Shapes
  <2>2. frames' = [s \in Slot |-> frames'[s]]
    BY <1>10
  <2> QED
    BY <1>4, <1>7, <1>8, <1>11, <1>12, <2>1, <2>2 DEF IInv, Shapes, IsFrame
<1>16. Nested'
  <2> SUFFICES ASSUME NEW e \in Env
               PROVE  /\ Len(gx'[e]) <= XNest /\ ctx'[e].sp = XTop(Len(gx'[e]))
                      /\ \A d \in 1 .. Len(gx'[e]) :
                           gx'[e][d].sp = XTop(d - 1) /\ Saved(xstack'[e][d]) = gx'[e][d]
    BY DEF Nested, Saved
  <2>1. CASE e # curenv
    BY <1>6, <1>8, <1>13, <2>1 DEF IInv, Nested
  <2>2. CASE e = curenv
    <3>1. Len(gx'[e]) = n + 1 /\ n + 1 <= XNest /\ ctx'[e].sp = XTop(n + 1)
      <4>1. n + 1 \in Nat \ {0} /\ n + 1 <= XNest
        BY <1>2, TrapAssumption
      <4>2. XTop(n + 1) = sp
        BY <4>1, TopFacts
      <4>3. ctx'[e].sp = sp
        BY <1>6, <2>2
      <4> HIDE DEF sp, n
      <4> QED
        BY <1>14, <2>2, <4>1, <4>2, <4>3
    <3>2. \A d \in 1 .. n : gx'[e][d].sp = XTop(d - 1) /\ Saved(xstack'[e][d]) = gx'[e][d]
      <4>1. \A d \in 1 .. n : d \in 1 .. XNest /\ d # n + 1
        BY <1>2, TrapAssumption
      <4> QED
        BY <1>8, <1>14, <2>2, <4>1 DEF IInv, Nested, n
    <3>3. gx'[e][n + 1].sp = XTop((n + 1) - 1) /\ Saved(xstack'[e][n + 1]) = gx'[e][n + 1]
      BY <1>2, <1>8, <1>14, <2>2
    <3> HIDE DEF n
    <3>4. \A d \in 1 .. (n + 1) : d \in 1 .. n \/ d = n + 1
      BY <1>2
    <3> QED
      BY <3>1, <3>2, <3>3, <3>4
  <2> QED
    BY <2>1, <2>2
<1>17. Waiting' /\ Translated'
  BY <1>4, <1>6 DEF IInv, Waiting, Translated, mmu
<1>18. Handling'
  <2>1. Saved(frames'[K1]) = ctx'[curenv] /\ frames'[K1].st[2]
    <3>1. Saved(f) = [pc |-> c.pc, sp |-> sp, r |-> c.r]
      <4> HIDE DEF sp
      <4>1. c = [pc |-> c.pc, sp |-> c.sp, r |-> c.r]
        BY <1>2 DEF Context
      <4>2. [c EXCEPT !.sp = sp] = [pc |-> c.pc, sp |-> sp, r |-> c.r]
        BY <4>1
      <4> QED
        BY <1>2, <4>2
    <3>2. f.r = c.r
      BY <3>1 DEF Saved
    <3> HIDE DEF sp
    <3> QED
      BY <1>2, <1>6, <1>10, <3>2 DEF Saved
  <2>2. Keeps(K1)'
    BY <1>2, <1>4, <2>1 DEF Keeps, Saved
  <2> QED
    BY <1>1, <1>12, <2>2 DEF Handling, AtK1
<1> QED
  BY <1>15, <1>16, <1>17, <1>18 DEF IInv, Control

\* The handler returns to what the fault interrupted.
LEMMA PgfaultReturnStep ==
  ASSUME IInv, PgfaultReturn
  PROVE  IInv'
<1> DEFINE n == Len(gx[curenv])
           f == xstack[curenv][n]
           g == gx[curenv][n]
<1>1. Running /\ curenv \in Env /\ cpu.sp = ctx[curenv].sp /\ cpu.sp[1] = "X"
  BY RunningFacts DEF PgfaultReturn, Running
<1>2. n \in 0 .. XNest /\ ctx[curenv].sp = XTop(n) /\ gx[curenv] \in Seq(Context)
  BY <1>1, TrapAssumption DEF IInv, Shapes, Nested
<1>3. n # 0 /\ n \in 1 .. XNest /\ n - 1 \in 0 .. XNest /\ cpu.sp[2] = n
  BY <1>1, <1>2, TrapAssumption DEF XTop
<1>4. g \in Context /\ g.sp = XTop(n - 1) /\ Saved(f) = g
  BY <1>1, <1>2, <1>3 DEF IInv, Nested
<1>5. /\ cpu' = [cpu EXCEPT !.pc = f.epc, !.sp = f.sp, !.r = f.r]
      /\ xstack' = [xstack EXCEPT ![curenv] = [xstack[curenv] EXCEPT ![n] = NoFrame]]
  <2>1. PICK t \in hit("X") :
          /\ xstack' = [xstack EXCEPT ![t.page[1]][cpu.sp[2]] = NoFrame]
          /\ cpu' = [cpu EXCEPT !.pc = xstack[t.page[1]][cpu.sp[2]].epc, !.sp = xstack[t.page[1]][cpu.sp[2]].sp,
                                !.r = xstack[t.page[1]][cpu.sp[2]].r]
    BY DEF PgfaultReturn
  <2>2. t.page = <<curenv, "X">>
    BY <1>1, <2>1, HitFacts DEF IInv, Vpn
  <2>3. t.page[1] = curenv
    BY <2>2
  <2> HIDE DEF n
  <2> QED
    BY <1>3, <2>1, <2>3
<1>6. /\ ctx' = [ctx EXCEPT ![curenv] = g] /\ gx' = [gx EXCEPT ![curenv] = SubSeq(gx[curenv], 1, n - 1)]
      /\ UNCHANGED <<mmu, frames, scheduler, env_tf, curenv, mCONTEXT, PgTrapFrame>>
  BY DEF PgfaultReturn
<1>7. cpu' = [pc |-> f.epc, sp |-> f.sp, r |-> f.r, st |-> cpu.st]
  <2> HIDE DEF f
  <2> DEFINE c1 == [cpu EXCEPT !.pc = f.epc]
             c2 == [c1 EXCEPT !.sp = f.sp]
             c3 == [c2 EXCEPT !.r = f.r]
  <2>1. cpu' = c3
    BY <1>5
  <2>2. c1 = [pc |-> f.epc, sp |-> cpu.sp, r |-> cpu.r, st |-> cpu.st]
    BY DEF IInv, Shapes
  <2> HIDE DEF c1
  <2>3. c2 = [pc |-> f.epc, sp |-> f.sp, r |-> cpu.r, st |-> cpu.st]
    BY <2>2
  <2> HIDE DEF c2
  <2>4. c3 = [pc |-> f.epc, sp |-> f.sp, r |-> f.r, st |-> cpu.st]
    BY <2>3
  <2> HIDE DEF c3
  <2> QED
    BY <2>1, <2>4
<1>8. /\ gx' = [e \in Env |-> gx'[e]] /\ gx'[curenv] = SubSeq(gx[curenv], 1, n - 1)
      /\ \A e \in Env : e # curenv => gx'[e] = gx[e]
      /\ ctx' \in [Env -> Context] /\ ctx'[curenv] = g /\ \A e \in Env : e # curenv => ctx'[e] = ctx[e]
  <2> HIDE DEF n, g
  <2> QED
    BY <1>1, <1>4, <1>6 DEF IInv, Shapes
<1>9. /\ gx'[curenv] \in Seq(Context) /\ Len(gx'[curenv]) = n - 1
      /\ \A d \in 1 .. (n - 1) : gx'[curenv][d] = gx[curenv][d]
  BY <1>2, <1>3, <1>8
<1>10. /\ \A d \in 1 .. XNest : d # n => xstack'[curenv][d] = xstack[curenv][d]
       /\ \A e \in Env : e # curenv => xstack'[e] = xstack[e]
       /\ xstack' = [e \in Env |-> xstack'[e]]
       /\ \A e \in Env : xstack'[e] = [d \in 1 .. XNest |-> xstack'[e][d]]
  <2>1. xstack = [e \in Env |-> xstack[e]] /\ \A e \in Env : xstack[e] = [d \in 1 .. XNest |-> xstack[e][d]]
    BY DEF IInv, Shapes
  <2> HIDE DEF n
  <2> QED
    BY <1>1, <1>3, <1>5, <2>1
<1>11. Shapes'
  <2>1. gx' \in [Env -> Seq(Context)]
    BY <1>8, <1>9 DEF IInv, Shapes
  <2>2. cpu' = [pc |-> cpu'.pc, sp |-> cpu'.sp, r |-> cpu'.r, st |-> cpu'.st] /\ cpu'.st = cpu.st
    <3> HIDE DEF f
    <3> QED
      BY <1>7
  <2> HIDE DEF n, g, f
  <2> QED
    BY <1>6, <1>8, <1>10, <2>1, <2>2 DEF IInv, Shapes, IsFrame
<1>12. Nested'
  <2> SUFFICES ASSUME NEW e \in Env
               PROVE  /\ Len(gx'[e]) <= XNest /\ ctx'[e].sp = XTop(Len(gx'[e]))
                      /\ \A d \in 1 .. Len(gx'[e]) :
                           gx'[e][d].sp = XTop(d - 1) /\ Saved(xstack'[e][d]) = gx'[e][d]
    BY DEF Nested, Saved
  <2>1. CASE e # curenv
    BY <1>8, <1>10, <2>1 DEF IInv, Nested
  <2>2. CASE e = curenv
    <3>1. Len(gx'[e]) = n - 1 /\ n - 1 <= XNest /\ ctx'[e].sp = XTop(n - 1)
      <4> HIDE DEF n, g
      <4> QED
        BY <1>3, <1>4, <1>8, <1>9, <2>2, TrapAssumption
    <3>2. \A d \in 1 .. (n - 1) : gx'[e][d].sp = XTop(d - 1) /\ Saved(xstack'[e][d]) = gx'[e][d]
      <4>1. \A d \in 1 .. (n - 1) : d \in 1 .. XNest /\ d # n /\ d \in 1 .. n
        BY <1>3, TrapAssumption
      <4> QED
        BY <1>9, <1>10, <2>2, <4>1 DEF IInv, Nested
    <3> HIDE DEF n
    <3> QED
      BY <3>1, <3>2
  <2> QED
    BY <2>1, <2>2
<1>13. Waiting' /\ Translated'
  BY <1>6, <1>8 DEF IInv, Waiting, Translated, mmu
<1>14. Running'
  <2> HIDE DEF f, g
  <2>1. context' = g /\ cpu'.pc = g.pc /\ cpu'.st = cpu.st
    BY <1>4, <1>7 DEF context, Saved
  <2>2. running'
    BY <1>4, <2>1 DEF running, Context
  <2>3. cpu'.st[3]
    BY <1>1, <2>1 DEF Running
  <2>4. curenv' \in Env /\ context' = ctx'[curenv']
    BY <1>1, <1>6, <1>8, <2>1
  <2> QED
    BY <2>2, <2>3, <2>4 DEF Running
<1> QED
  BY <1>11, <1>12, <1>13, <1>14 DEF IInv, Control

\* The scheduler's turn.  With two environments the next one is another one.
LEMMA NextFacts ==
  ASSUME Switching, IInv, NEW e \in Chosen, scheduler # "empty"
  PROVE  e \in Env /\ e # curenv
<1>1. scheduler = "next"
  BY DEF IInv, Shapes, Switching
<1>2. e = IF curenv = NULL THEN 1 ELSE (curenv % NENV) + 1
  BY <1>1 DEF Chosen
<1>3. NENV \in Nat /\ NENV > 1 /\ NULL \notin Env /\ curenv \in Env \cup {NULL}
  BY TrapAssumption DEF Switching, IInv, Translated
<1>4. CASE curenv = NULL
  BY <1>2, <1>3, <1>4 DEF Env
<1>5. CASE curenv # NULL
  <2>1. curenv \in 1 .. NENV /\ e = (curenv % NENV) + 1
    BY <1>2, <1>3, <1>5 DEF Env
  <2>2. (curenv < NENV => curenv % NENV = curenv) /\ (curenv = NENV => curenv % NENV = 0)
    BY <1>3, <2>1, SMT
  <2> QED
    BY <1>3, <2>1, <2>2 DEF Env
<1> QED
  BY <1>4, <1>5

LEMMA HandleIntStep ==
  ASSUME Switching, IInv, handle_int
  PROVE  IInv'
<1>1. Switched
  BY DEF handle_int, IInv, Control, Running, Booting, Handling, Refilling, Astray, running, UserPc, AtK1
<1>2. UNCHANGED <<scheduler, badvaddr, tlb, frames, xstack, PgTrapFrame, ctx, gx>>
  BY DEF handle_int
<1>3. CASE sched_yield
  <2>1. cpu' = [pc |-> "astray", sp |-> cpu.sp, r |-> cpu.r, st |-> cpu.st]
    BY <1>3 DEF sched_yield, IInv, Shapes
  <2>2. UNCHANGED <<env_tf, curenv, mCONTEXT, entryhi>>
    BY <1>3 DEF sched_yield
  <2>3. Shapes'
    BY <1>2, <2>1, <2>2 DEF IInv, Shapes, IsFrame
  <2>4. Nested' /\ Waiting' /\ Translated'
    BY <1>2, <2>2 DEF IInv, Nested, Waiting, Translated
  <2>5. Astray'
    BY <1>1, <2>1 DEF Astray, Switched
  <2> QED
    BY <2>3, <2>4, <2>5 DEF IInv, Control
<1>4. CASE Schedule
  <2>1. PICK e \in Chosen : scheduler # "empty" /\ env_run(e)
    BY <1>4 DEF Schedule
  <2>2. e \in Env /\ e # curenv
    BY <2>1, NextFacts
  <2> DEFINE old == frames[T1]
             new == [old EXCEPT !.pc = old.epc]
             tf == env_tf[e]
  <2>3. Resumed(tf) = ctx[e] /\ tf.st[2] /\ IsFrame(tf) /\ ctx[e] \in Context /\ e # NULL
    BY <2>2, TrapAssumption DEF IInv, Waiting, Shapes
  <2>4. /\ curenv' = e /\ mCONTEXT' = e /\ entryhi' = [vpn |-> "0", asid |-> ASID(e)]
        /\ cpu' = [pc |-> tf.pc, sp |-> tf.sp, r |-> tf.r, st |-> rfe(tf.st)]
    BY <2>1 DEF env_run, lcontext, env_pop_tf
  <2>5. env_tf' = IF curenv # NULL THEN [env_tf EXCEPT ![curenv] = new] ELSE env_tf
    BY <2>1, <2>2 DEF env_run, T1
  <2>6. IsFrame(new) /\ (curenv # NULL => curenv \in Env /\ Resumed(new) = ctx[curenv] /\ new.st[2])
    <3>1. IsFrame(old)
      BY SlotFacts DEF IInv, Shapes
    <3>2. curenv # NULL => curenv \in Env /\ Saved(old) = ctx[curenv] /\ old.st[2]
      BY <1>1 DEF Switched, Keeps
    <3> HIDE DEF old
    <3>3. new = [sp |-> old.sp, r |-> old.r, st |-> old.st, epc |-> old.epc, pc |-> old.epc]
      BY <3>1 DEF IsFrame
    <3> HIDE DEF new
    <3>4. IsFrame(new)
      BY <3>1, <3>3 DEF IsFrame
    <3>5. Resumed(new) = Saved(old) /\ new.st = old.st
      BY <3>3 DEF Resumed, Saved
    <3> QED
      BY <3>2, <3>4, <3>5
  <2> HIDE DEF new, tf
  <2>7. /\ env_tf' = [x \in Env |-> env_tf'[x]]
        /\ \A x \in Env : x # curenv => env_tf'[x] = env_tf[x]
        /\ curenv # NULL => env_tf'[curenv] = new
    <3>1. env_tf = [x \in Env |-> env_tf[x]]
      BY DEF IInv, Shapes
    <3> QED
      BY <2>5, <2>6, <3>1
  <2>8. \A x \in Env : IsFrame(env_tf'[x])
    <3>1. \A x \in Env : IsFrame(env_tf[x])
      BY DEF IInv, Shapes
    <3>2. \A x \in Env : x = curenv => curenv # NULL
      BY TrapAssumption
    <3>3. \A x \in Env : env_tf'[x] = env_tf[x] \/ env_tf'[x] = new
      BY <2>7, <3>2
    <3> QED
      BY <2>6, <3>1, <3>3, Zenon
  <2>9. rfe(tf.st) \in [1 .. 3 -> BOOLEAN] /\ rfe(tf.st)[3] = tf.st[2]
    <3>1. tf.st[1] \in BOOLEAN /\ tf.st[2] \in BOOLEAN
      BY <2>3 DEF IsFrame
    <3> QED
      BY <3>1, StatusFacts DEF rfe
  <2>10. cpu' = [pc |-> cpu'.pc, sp |-> cpu'.sp, r |-> cpu'.r, st |-> cpu'.st] /\ cpu'.st = rfe(tf.st)
    BY <2>4
  <2>11. Shapes'
    BY <1>2, <2>7, <2>8, <2>9, <2>10 DEF IInv, Shapes, IsFrame
  <2>12. Nested'
    BY <1>2 DEF IInv, Nested
  <2>13. Waiting'
    <3> SUFFICES ASSUME NEW x \in Env, x # e
                 PROVE  Resumed(env_tf'[x]) = ctx[x] /\ env_tf'[x].st[2]
      BY <1>2, <2>4 DEF Waiting, Resumed
    <3>1. CASE x = curenv
      BY <2>6, <2>7, <3>1, TrapAssumption
    <3>2. CASE x # curenv
      BY <2>7, <3>2 DEF IInv, Waiting
    <3> QED
      BY <3>1, <3>2
  <2>14. Translated'
    <3>1. Translated
      BY DEF IInv
    <3>2. curenv' \in Env /\ mCONTEXT' = curenv' /\ curenv' # NULL
      BY <2>2, <2>3, <2>4
    <3>3. entryhi'.vpn = "0" /\ entryhi'.asid = ASID(curenv')
          /\ entryhi' = [vpn |-> entryhi'.vpn, asid |-> entryhi'.asid]
      BY <2>4
    <3> QED
      BY <1>2, <3>1, <3>2, <3>3 DEF Translated
  <2>15. Running'
    <3>1. context' = ctx'[curenv'] /\ cpu'.pc = ctx[e].pc
      BY <1>2, <2>3, <2>4 DEF context, Resumed
    <3>2. running'
      BY <2>3, <3>1 DEF running, Context
    <3>3. cpu'.st[3]
      BY <2>3, <2>9, <2>10
    <3> QED
      BY <2>2, <2>4, <3>1, <3>2, <3>3 DEF Running
  <2> QED
    BY <2>11, <2>12, <2>13, <2>14, <2>15 DEF IInv, Control
<1> QED
  BY <1>3, <1>4 DEF handle_int, timer_irq

-----------------------------------------------------------------------------
(***************************************************************************)
(* The theorems.                                                           *)
(***************************************************************************)

LEMMA FirstFrameFacts ==
  FirstFrame = [sp |-> <<"U", 0>>, r |-> 0, st |-> <<FALSE, TRUE, FALSE>>, epc |-> "none", pc |-> "user"]
<1> DEFINE u == <<"U", 0>>
           t == <<FALSE, FALSE, FALSE>>
           on == <<FALSE, TRUE, FALSE>>
           a == [NoFrame EXCEPT !.st = on]
           b == [a EXCEPT !.pc = "user"]
<1>1. FirstFrame = b
  BY DEF FirstFrame
<1>2. NoFrame = [sp |-> u, r |-> 0, st |-> t, epc |-> "none", pc |-> "none"]
  BY DEF NoFrame
<1> HIDE DEF u, t, on
<1>3. a = [sp |-> u, r |-> 0, st |-> on, epc |-> "none", pc |-> "none"]
  BY <1>2
<1> HIDE DEF a
<1>4. b = [sp |-> u, r |-> 0, st |-> on, epc |-> "none", pc |-> "user"]
  BY <1>3
<1> HIDE DEF b
<1> QED
  BY <1>1, <1>4 DEF u, on

LEMMA InitIInv ==
  ASSUME Init
  PROVE  IInv
<1>1. IsFrame(NoFrame) /\ IsFrame(FirstFrame) /\ NoFrame.sp \in Sp
  <2>1. NoFrame = [sp |-> <<"U", 0>>, r |-> 0, st |-> <<FALSE, FALSE, FALSE>>, epc |-> "none", pc |-> "none"]
    BY DEF NoFrame
  <2>2. FirstFrame = [sp |-> <<"U", 0>>, r |-> 0, st |-> <<FALSE, TRUE, FALSE>>, epc |-> "none", pc |-> "user"]
    BY FirstFrameFacts
  <2>3. <<FALSE, FALSE, FALSE>> \in [1 .. 3 -> BOOLEAN] /\ <<FALSE, TRUE, FALSE>> \in [1 .. 3 -> BOOLEAN]
    BY StatusFacts
  <2> QED
    BY <2>1, <2>2, <2>3, SlotFacts DEF IsFrame
<1> DEFINE c == [pc |-> "user", sp |-> <<"U", 0>>, r |-> 0]
<1>2. Resumed(FirstFrame) = c /\ FirstFrame.st[2]
  BY FirstFrameFacts DEF Resumed
<1>3. /\ scheduler \in Schedulers /\ cpu = set_timer
      /\ badvaddr \in Vpn /\ entryhi = [vpn |-> "0", asid |-> 0] /\ tlb = {}
      /\ frames = [s \in Slot |-> NoFrame] /\ xstack = [e \in Env |-> [d \in 1 .. XNest |-> NoFrame]]
      /\ env_tf = [e \in Env |-> FirstFrame] /\ curenv = NULL /\ mCONTEXT = NULL
      /\ ctx = [e \in Env |-> c] /\ gx = [e \in Env |-> << >>]
  BY DEF Init
<1>4. c \in Context /\ c.sp = <<"U", 0>>
  BY DEF Context, UserPc
<1> HIDE DEF c
<1>5. /\ cpu = [pc |-> cpu.pc, sp |-> cpu.sp, r |-> cpu.r, st |-> cpu.st]
      /\ cpu.st \in [1 .. 3 -> BOOLEAN] /\ cpu.pc = "mips_init" /\ cpu.sp = <<"K", 0>>
  <2>1. cpu = [pc |-> "mips_init", sp |-> <<"K", 0>>, r |-> 0, st |-> <<FALSE, FALSE, TRUE>>]
    BY <1>3 DEF set_timer
  <2>2. <<FALSE, FALSE, TRUE>> \in [1 .. 3 -> BOOLEAN]
    BY StatusFacts
  <2> QED
    BY <2>1, <2>2
<1>6. Shapes
  <2>1. gx \in [Env -> Seq(Context)] /\ ctx \in [Env -> Context]
    BY <1>3, <1>4
  <2> QED
    BY <1>1, <1>3, <1>5, <2>1 DEF Shapes
<1>7. Nested
  <2>1. \A e \in Env : gx[e] = << >> /\ ctx[e] = c /\ Len(gx[e]) = 0
    BY <1>3
  <2>2. 0 <= XNest /\ c.sp = XTop(0)
    BY <1>4, TopFacts, TrapAssumption
  <2> QED
    BY <2>1, <2>2 DEF Nested
<1>8. Waiting
  BY <1>2, <1>3 DEF Waiting
<1>9. Translated
  <2>1. IsFiniteSet(tlb) /\ Cardinality(tlb) = 0
    BY <1>3, FS_EmptySet
  <2> QED
    BY <1>3, <2>1, TrapAssumption DEF Translated
<1>10. Booting
  BY <1>3, <1>5 DEF Booting
<1> QED
  BY <1>6, <1>7, <1>8, <1>9, <1>10 DEF IInv, Control

LEMMA StepIInv ==
  ASSUME Switching, IInv, [Next]_vars
  PROVE  IInv'
<1>1. CASE Kernel
  BY <1>1, RetStep, RefillStep, PageFaultStep, CopyFrameStep, ReadArgumentsStep, KernelMissStep,
     HandleIntStep DEF Kernel
<1>2. CASE User
  BY <1>2, ComputeStep, TouchMissStep, WriteFaultStep, SyscallStep, ReservedStep, PgfaultReturnStep DEF User
<1>3. CASE Interrupt
  BY <1>3, InterruptStep
<1>4. CASE UNCHANGED vars
  BY <1>4 DEF vars, IInv, Shapes, Nested, Waiting, Translated, Control, Running, Booting, Switched,
     Handling, Refilling, Astray, AtK1, Keeps, running, context, IsFrame, Saved, Resumed
<1> QED
  BY <1>1, <1>2, <1>3, <1>4 DEF Next

\* The inductive invariant holds in every reachable state.
THEOREM AlwaysIInv ==
  ASSUME Switching
  PROVE  Spec => []IInv
<1>1. Init => IInv
  BY InitIInv
<1>2. IInv /\ [Next]_vars => IInv'
  BY StepIInv
<1> QED
  BY <1>1, <1>2, PTL DEF Spec

\* Registers, stacks and tables keep their types, and an exception inside an
\* exception inside an exception never happens: K2 is the deepest frame.
THEOREM TrapTyped ==
  ASSUME Switching
  PROVE  Spec => []TrapTypeOK
<1>1. IInv => TrapTypeOK
  <2> SUFFICES ASSUME IInv PROVE TrapTypeOK
    OBVIOUS
  <2>1. cpu.sp \in Sp /\ cpu.st \in [1 .. 3 -> BOOLEAN]
    BY StackFacts DEF IInv, Shapes
  <2>2. /\ cpu.pc \in UserPc \cup Handler \cup {"mips_init", "astray"}
        /\ cpu.pc \in Handler => cpu.sp \in Slot
    BY SlotFacts DEF IInv, Control, Running, Booting, Switched, Handling, Refilling, Astray, AtK1, running,
       Handler, UserPc
  <2>3. DOMAIN frames = Slot /\ \A s \in Slot : frames[s].sp \in Sp
    BY DEF IInv, Shapes
  <2>4. entryhi.asid \in 0 .. NASID - 1
    <3>1. \A e \in Env : EnvNo[e] \in Nat /\ NASID \in Nat \ {0}
      BY TrapAssumption
    <3>2. \A e \in Env : EnvNo[e] % NASID \in 0 .. NASID - 1
      BY <3>1
    <3> QED
      BY <3>2, TrapAssumption DEF IInv, Translated, ASID
  <2>5. /\ badvaddr \in Vpn /\ entryhi.vpn \in Vpn \cup {"0"} /\ Cardinality(tlb) <= TlbSize
        /\ {curenv, mCONTEXT} \subseteq Env \cup {NULL}
    BY DEF IInv, Translated
  <2>6. \A e \in Env : DOMAIN env_tf[e] = DOMAIN NoFrame /\ Len(gx[e]) <= XNest
    <3>1. \A e \in Env : IsFrame(env_tf[e]) /\ Len(gx[e]) <= XNest
      BY DEF IInv, Shapes, Nested
    <3>2. \A f : IsFrame(f) => DOMAIN f = {"sp", "r", "st", "epc", "pc"}
      BY DEF IsFrame
    <3>3. DOMAIN NoFrame = {"sp", "r", "st", "epc", "pc"}
      BY DEF NoFrame
    <3> QED
      BY <3>1, <3>2, <3>3
  <2> QED
    BY <2>1, <2>2, <2>3, <2>4, <2>5, <2>6 DEF TrapTypeOK
<1> QED
  BY <1>1, AlwaysIInv, PTL

\* However refills, system calls, nested misses, page faults and switches
\* interleave, an environment that runs has the context it was interrupted
\* with, and one that waits has it in env_tf.
THEOREM ContextPreserved ==
  ASSUME Switching
  PROVE  Spec => []ContextKept
<1>1. IInv => ContextKept
  <2> SUFFICES ASSUME IInv PROVE ContextKept
    OBVIOUS
  <2>1. running => context = ctx[curenv]
    BY RunningFacts DEF Running
  <2>2. \A e \in Env \ {curenv} : Resumed(env_tf[e]) = ctx[e]
    BY DEF IInv, Waiting
  <2> QED
    BY <2>1, <2>2 DEF ContextKept, Resumed
<1> QED
  BY <1>1, AlwaysIInv, PTL

\* What a page fault interrupted stays on the exception stack until its handler
\* goes back to it, however many faults nest above it.
THEOREM ExceptionStacksKept ==
  ASSUME Switching
  PROVE  Spec => []XFramesKept
<1>1. IInv => XFramesKept
  BY DEF IInv, Nested, XFramesKept, Saved
<1> QED
  BY <1>1, AlwaysIInv, PTL

\* No handler runs with interrupts on, and no environment with interrupts off.
THEOREM InterruptsRestored ==
  ASSUME Switching
  PROVE  Spec => []InterruptsBack
<1>1. IInv => InterruptsBack
  BY DEF IInv, InterruptsBack, Control, Running, Booting, Switched, Handling, Refilling, Astray, AtK1, running,
     Handler, UserPc
<1> QED
  BY <1>1, AlwaysIInv, PTL

\* No TLB entry shows an environment a page of another one.
THEOREM PagesOwned ==
  ASSUME Switching
  PROVE  Spec => []OwnPages
<1>1. IInv => OwnPages
  <2> SUFFICES ASSUME IInv, running, NEW t \in tlb, t.asid = ASID(curenv), t.vpn # "0"
               PROVE  t.page = <<curenv, t.vpn>>
    BY DEF OwnPages
  <2>1. PICK e \in Env : t.asid = ASID(e) /\ t.page = <<e, t.vpn>>
    BY DEF IInv, Translated
  <2>2. curenv \in Env
    BY RunningFacts DEF Running
  <2> QED
    BY <2>1, <2>2, AsidAssumption
<1> QED
  BY <1>1, AlwaysIInv, PTL
=============================================================================
