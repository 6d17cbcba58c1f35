------------------------------- MODULE EnvSys -------------------------------
(***************************************************************************)
(* Environments, lib/env.c, on top of the memory manager of PmapSys: the   *)
(* table envs[], its free list, ids, env_alloc, env_run, env_free and      *)
(* env_destroy.  What a program or the kernel does with pages meanwhile    *)
(* are the actions of PmapSys.                                             *)
(***************************************************************************)
EXTENDS PmapSys

CONSTANTS
  NULL,
  ENV_FREE, ENV_RUNNABLE     \* values of env_status

Slot == 0 .. NENV - 1

ASSUME EnvSysAssumption ==
  /\ 0 < NENV /\ NULL \notin AllPages \cup Slot /\ ENV_FREE # ENV_RUNNABLE
  /\ Idx \subseteq Nat

VARIABLES
  envs,            \* env_status, env_id, env_parent_id, env_pgdir of each slot
  env_free_list,   \* the slots a traversal of the list visits
  next_env_id,     \* the static counter of mkenvid
  curenv,          \* the slot that runs, or NULL
  freeing          \* the slot env_free is at, or NULL

evars == <<envs, env_free_list, next_env_id, curenv, freeing>>

NoEnv == [status |-> ENV_FREE, id |-> 0, parent |-> 0, pgdir |-> NULL]

slip_env_init_free == [k \in 1 .. NENV + 1 |-> k - 1]      \* from i = NENV
\* env_init inserts the slots at the head in reverse order.
env_init_free == [k \in 1 .. NENV |-> k - 1]

EnvInit ==
  /\ Init
  /\ envs = [s \in Slot |-> NoEnv]
  /\ env_free_list = env_init_free
  /\ next_env_id = 0 /\ curenv = NULL /\ freeing = NULL

-----------------------------------------------------------------------------
(***************************************************************************)
(* Ids.                                                                    *)
(***************************************************************************)

slip_mkenvid(s) == next_env_id * 2 * NENV + s          \* next_env_id++
mkenvid(s) == (next_env_id + 1) * 2 * NENV + s
ENVX(id)   == id % NENV

\* What envid2env(id, &e, 0) stores in e.
envid2env(id) ==
  IF id = 0 THEN curenv
  ELSE IF envs[ENVX(id)].status = ENV_FREE \/ envs[ENVX(id)].id # id THEN NULL
  ELSE ENVX(id)

\* The same with checkperm: of the others, only children of the running one.
envid2env_perm(id) ==
  LET e == envid2env(id)
  IN  IF id = 0 \/ e \in {NULL, curenv} \/ envs[e].parent = envs[curenv].id
      THEN e ELSE NULL

Ids == 0 .. 2 * NENV * (NENV + 1)          \* every id there can be, and more

-----------------------------------------------------------------------------
(***************************************************************************)
(* Allocating and running.                                                 *)
(***************************************************************************)

\* With an empty list env_alloc returns -E_NO_FREE_ENV and nothing changes; with
\* no page env_setup_vm panics before the environment has an id.
EnvAlloc(parent) ==
  /\ freeing = NULL /\ env_free_list # << >>
  /\ EnvSetupVm
  /\ LET s == Head(env_free_list)
     IN  IF halted' THEN UNCHANGED <<envs, env_free_list, next_env_id>>
         ELSE /\ envs' = [envs EXCEPT ![s] =
                   [status |-> ENV_RUNNABLE, id |-> mkenvid(s), parent |-> parent,
                    pgdir |-> page_alloc_pp(m)]]
              /\ env_free_list' = Tail(env_free_list)
              /\ next_env_id' = next_env_id + 1
  /\ UNCHANGED <<curenv, freeing>>

\* A program's parent is none (0) or the running environment.
Alloc == \E parent \in {0} \cup {envs[s].id : s \in {curenv} \ {NULL}} : EnvAlloc(parent)

\* env_run: curenv, env_status, and the address space (EnvRun of PmapSys).
Run == \E s \in Slot :
  /\ freeing = NULL /\ envs[s].status # ENV_FREE
  /\ EnvRun /\ mCONTEXT' = envs[s].pgdir
  /\ curenv' = s
  /\ envs' = [envs EXCEPT ![s].status = ENV_RUNNABLE]
  /\ UNCHANGED <<env_free_list, next_env_id, freeing>>

\* A call of envid2env with checkperm.  It only returns envid2env_perm(id); but
\* while no environment runs, it reads curenv->env_id through NULL for every id
\* but 0 that it finds.
CheckPerm == \E id \in {envs[s].id : s \in Slot} \ {0} :
  /\ Ready /\ freeing = NULL /\ envid2env(id) # NULL
  /\ halted' = (curenv = NULL)
  /\ UNCHANGED <<m, dirs, uvpt, fresh, mCONTEXT, held, pinned, fault, evars>>

-----------------------------------------------------------------------------
(***************************************************************************)
(* Freeing.                                                                *)
(***************************************************************************)

\* env_free is two loops, and a page it removes or a table it drops is a step;
\* nothing else happens in between.  The entries a loop skips are no steps.
EnvFree(s) ==
  /\ Ready /\ freeing = NULL /\ envs[s].status # ENV_FREE
  /\ freeing' = s
  /\ UNCHANGED <<vars, envs, env_free_list, next_env_id, curenv>>

env_pgdir    == envs[freeing].pgdir
valid(t)     == {i \in Idx : word(m, <<t, i>>) # Zero}
First(S)     == {i \in S : \A j \in S : i <= j}
pt(pdeno)    == word(m, <<env_pgdir, pdeno>>).pg
Freeing      == freeing # NULL /\ ~halted
KeepTheRest  == UNCHANGED <<mCONTEXT, held, pinned, fault, next_env_id, curenv, freeing>>

FreePage ==
  /\ Freeing
  /\ \E pdeno \in First(valid(env_pgdir)) : \E pteno \in First(valid(pt(pdeno))) :
       m' = page_remove(m, env_pgdir, <<pdeno, pteno>>)
  /\ KeepTheRest /\ UNCHANGED <<dirs, uvpt, fresh, halted, envs, env_free_list>>

FreeTable ==
  /\ Freeing
  /\ \E pdeno \in First(valid(env_pgdir)) :
       /\ valid(pt(pdeno)) = {}
       /\ m' = page_decref(store(m, <<env_pgdir, pdeno>>, Zero), pt(pdeno))
  /\ KeepTheRest /\ UNCHANGED <<dirs, uvpt, fresh, halted, envs, env_free_list>>

slip_FreeDirectory ==                             \* env_status stays
  /\ Freeing /\ valid(env_pgdir) = {}
  /\ m' = page_decref(m, env_pgdir)
  /\ dirs' = dirs \ {env_pgdir} /\ fresh' = fresh \ {env_pgdir}
  /\ uvpt' = [d \in dirs' \ {boot_pgdir} |-> uvpt[d]]
  /\ envs' = [envs EXCEPT ![freeing].pgdir = NULL]
  /\ env_free_list' = <<freeing>> \o env_free_list
  /\ halted' = TRUE
  /\ KeepTheRest

slip_FreeDirectory_count ==                       \* no page_decref of env_cr3
  /\ Freeing /\ valid(env_pgdir) = {}
  /\ dirs' = dirs \ {env_pgdir} /\ fresh' = fresh \ {env_pgdir}
  /\ uvpt' = [d \in dirs' \ {boot_pgdir} |-> uvpt[d]]
  /\ envs' = [envs EXCEPT ![freeing].status = ENV_FREE, ![freeing].pgdir = NULL]
  /\ env_free_list' = <<freeing>> \o env_free_list
  /\ halted' = TRUE
  /\ KeepTheRest /\ UNCHANGED m

\* Behind the loops.  env_free's last statement removes env_sched_link from a
\* list nothing ever put it on: le_prev is NULL, the store through it misses the
\* TLB, and pageout refuses the address.  So env_destroy, too, never gets past
\* env_free.
FreeDirectory ==
  /\ Freeing /\ valid(env_pgdir) = {}
  /\ m' = page_decref(m, env_pgdir)
  /\ dirs' = dirs \ {env_pgdir} /\ fresh' = fresh \ {env_pgdir}
  /\ uvpt' = [d \in dirs' \ {boot_pgdir} |-> uvpt[d]]
  /\ envs' = [envs EXCEPT ![freeing].status = ENV_FREE, ![freeing].pgdir = NULL]
  /\ env_free_list' = <<freeing>> \o env_free_list
  /\ halted' = TRUE
  /\ KeepTheRest

Destroy == (\E s \in Slot : EnvFree(s)) \/ FreePage \/ FreeTable \/ FreeDirectory

-----------------------------------------------------------------------------
PageOp ==
  /\ freeing = NULL
  /\ \/ PageAlloc \/ PageFree \/ PageInsert \/ PageRemove
     \/ TlbMiss \/ UserStore \/ RefillLoad \/ RefillPageout
  /\ UNCHANGED evars

Panicked == PanicLoop /\ UNCHANGED evars

EnvNext == Alloc \/ Run \/ CheckPerm \/ Destroy \/ PageOp \/ Panicked

EnvSpec == EnvInit /\ [][EnvNext]_<<vars, evars>>
-----------------------------------------------------------------------------
(***************************************************************************)
(* Properties.                                                             *)
(***************************************************************************)

\* Types of struct Env's fields (env.h:23-52) and of env.c's statics.
EnvTypeOK ==
  /\ envs \in [Slot -> [status : {ENV_FREE, ENV_RUNNABLE}, id : Ids, parent : Ids,
                        pgdir : AllPages \cup {NULL}]]
  /\ env_free_list \in Seq(Slot) /\ next_env_id \in 0 .. NENV
  /\ {curenv, freeing} \subseteq Slot \cup {NULL}

Live == {s \in Slot : envs[s].status # ENV_FREE}

\* env_free_list holds each free slot once; the live ones have a directory each,
\* their own, and the memory manager has no other but boot_pgdir.
SlotsExact ==
  /\ \A j, k \in 1 .. Len(env_free_list) : env_free_list[j] = env_free_list[k] => j = k
  /\ {env_free_list[k] : k \in 1 .. Len(env_free_list)} = Slot \ Live
  /\ \A r, s \in Live : envs[r].pgdir = envs[s].pgdir => r = s
  /\ dirs = {boot_pgdir} \cup {envs[s].pgdir : s \in Live}

\* An id finds the live environment it was given to, and any other id nothing;
\* no environment has the id 0, which means the running one.  With checkperm the
\* running one finds, under their ids, itself and those it is the parent of.
IdsResolve ==
  /\ \A s \in Live : envid2env(envs[s].id) = s
  /\ \A id \in Ids \ {0} : envid2env(id) # NULL => \E s \in Live : envs[s].id = id
  /\ curenv # NULL => \A s \in Live :
       envid2env_perm(envs[s].id) =
         IF s = curenv \/ envs[s].parent = envs[curenv].id THEN s ELSE NULL

\* env_free gives back the environment's directory, its tables, and one count of
\* each of its pages, and nothing else: counts and free list are exact after
\* every turn of its loops, also for pages another environment maps or pageout
\* pinned.
MemoryExact == FreeListExact /\ RefCountExact

\* An environment that is made or freed takes nothing from the others: their
\* tables say what they said, and the pages they map hold what they held.
OthersKeepMemory ==
  [][freeing # NULL \/ dirs' # dirs =>
       \A d \in dirs \cap dirs', va \in Va : (freeing # NULL => d # env_pgdir) =>
         /\ Translation(d, va)' = Translation(d, va)
         /\ Translation(d, va) # Zero =>
              m'.mem[Translation(d, va).pg] = m.mem[Translation(d, va).pg]]_<<vars, evars>>

\* env.c:491: `Frees env e, and schedules to run a new env if e is the current env':
\* env_destroy gets past env_free.
DestroyGoesOn == [][(\E s \in Slot : envs[s].status # ENV_FREE /\ envs'[s].status = ENV_FREE)
                    => ~halted']_<<vars, evars>>
=============================================================================
