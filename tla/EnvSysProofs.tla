---------------------------- MODULE EnvSysProofs ----------------------------
(***************************************************************************)
(* What EnvSys guarantees for every number of environments, pages and      *)
(* addresses.  The memory manager's invariant (PmapInvariant) holds        *)
(* between calls; in the middle of env_free the directory being freed may  *)
(* be the one the refill handler walks, and the TLB may hold what is gone  *)
(* from its tables, so there only Good is left of it.  That is why the     *)
(* invariant here says Good always, and the rest while `freeing' is NULL.  *)
(***************************************************************************)
EXTENDS EnvSys, PmapInvariant

-----------------------------------------------------------------------------
(***************************************************************************)
(* What env_free does to the tables (env.c:461-488).                       *)
(***************************************************************************)

\* A table whose entries are gone is taken out of its directory and counted down.
LEMMA DropTable ==
  ASSUME NEW x, NEW D, NEW H, NEW P, Good(x, D, H, P),
         NEW s \in D \X Idx, word(x, s) # Zero,
         \A j \in Idx : word(x, <<word(x, s).pg, j>>) = Zero
  PROVE  LET y == page_decref(store(x, s, Zero), word(x, s).pg) IN
         /\ Good(y, D, H, P)
         /\ \A q \in AllPages : q # s[1] => y.mem[q] = x.mem[q]
         /\ \A e \in D, u \in Va : e # s[1] => page_lookup(y, e, u) = page_lookup(x, e, u)
<1> DEFINE d == s[1]
           t == word(x, s).pg
           z == store(x, s, Zero)
           y == page_decref(z, t)
<1>x. /\ x \in MemState /\ d \in AllPages /\ d # LowPage /\ s \in AllPages \X Idx
      /\ s \in D \X Idx /\ s \in live(x, D) \X Idx /\ Zero \in Word
      /\ D \X Idx \subseteq AllPages \X Idx
  BY DEF Good, Sets, live, Word
<1>s. /\ s[1] = d /\ d \in D /\ word(x, s).pg = t /\ word(x, s) # Zero
      /\ \A j \in Idx : word(x, <<t, j>>) = Zero
  OBVIOUS
<1> HIDE DEF d, t
<1>t. /\ t \in tables(x, D) /\ t \in Page /\ t \notin D /\ t \notin H
      /\ t \notin data_pages(x, D)
  <2>1. t \in tables(x, D)
    BY <1>x, <1>s DEF tables
  <2> QED
    BY <2>1, LiveType DEF Good, Sets, Forest
<1>p. pointers(x, D, t) = {s}
  <2>1. s \in pointers(x, D, t)
    BY <1>x, <1>s DEF pointers
  <2> QED
    BY <1>t, <2>1 DEF Good, Forest
<1>r. x.ref[t] # 0 /\ x.ref[t] \in Nat
  BY <1>x, <1>t, CountZero, PageFacts DEF MemState
<1>1. /\ z \in MemState /\ z.free = x.free /\ z.ref = x.ref
      /\ \A r \in AllPages \X Idx : word(z, r) = IF r = s THEN Zero ELSE word(x, r)
      /\ \A q \in AllPages : q # d => z.mem[q] = x.mem[q]
  BY <1>x, <1>s, StoreFacts
<1> HIDE DEF z
<1>2. /\ y \in MemState /\ y.mem = z.mem
      /\ y.free = IF x.ref[t] = 1 THEN <<t>> \o x.free ELSE x.free
      /\ \A p \in Page : y.ref[p] = IF p = t THEN x.ref[p] - 1 ELSE x.ref[p]
  BY <1>1, <1>t, <1>r, DecrefFacts
<1> HIDE DEF y
<1>3. \A r \in AllPages \X Idx : word(y, r) = IF r = s THEN Zero ELSE word(x, r)
  BY <1>1, <1>2 DEF word
<1>4. tables(y, D) = tables(x, D) \ {t}
  <2>1. ASSUME NEW r \in D \X Idx, word(y, r) # Zero
        PROVE  word(y, r) = word(x, r) /\ word(x, r).pg \in tables(x, D) \ {t}
    <3>1. r # s /\ word(y, r) = word(x, r)
      BY <1>3, <1>x, <2>1
    <3>2. word(x, r).pg \in tables(x, D)
      BY <2>1, <3>1 DEF tables
    <3>3. word(x, r).pg # t
      BY <1>p, <2>1, <3>1 DEF pointers, live
    <3> QED
      BY <3>1, <3>2, <3>3
  <2>2. ASSUME NEW r \in D \X Idx, word(x, r) # Zero, word(x, r).pg # t
        PROVE  word(y, r) = word(x, r)
    BY <1>3, <1>x, <1>s, <2>2
  <2> QED
    BY <2>1, <2>2 DEF tables
<1>5. live(y, D) = live(x, D) \ {t}
  BY <1>4, <1>t DEF live
<1>6. data_pages(y, D) = data_pages(x, D)
  <2>1. /\ tables(x, D) \X Idx \subseteq AllPages \X Idx
        /\ \A r \in tables(x, D) \X Idx : r # s
    BY <1>s, LiveType, PageFacts DEF Good, Sets, Forest
  <2>2. \A r \in tables(x, D) \X Idx : word(y, r) = word(x, r)
    BY <1>3, <2>1
  <2>3. \A r \in tables(x, D) \X Idx : word(x, r) # Zero => r \in tables(y, D) \X Idx
    BY <1>s, <1>4
  <2>4. \A r \in tables(y, D) \X Idx : r \in tables(x, D) \X Idx
    BY <1>4
  <2> QED
    BY <2>2, <2>3, <2>4 DEF data_pages
<1>7. ASSUME NEW p PROVE pointers(y, D, p) = IF p = t THEN {} ELSE pointers(x, D, p)
  <2>0. live(x, D) \X Idx \subseteq AllPages \X Idx
    BY LiveType DEF Good, Sets
  <2>1. ASSUME NEW r \in pointers(y, D, p) PROVE r \in pointers(x, D, p) /\ r # s
    BY <1>3, <1>5, <2>0, <2>1 DEF pointers
  <2>2. ASSUME NEW r \in pointers(x, D, p), p # t PROVE r \in pointers(y, D, p)
    <3>1. r \in live(x, D) \X Idx /\ word(x, r) # Zero /\ word(x, r).pg = p
      BY <2>2 DEF pointers
    <3>2. r # s /\ r[1] # t
      BY <1>s, <2>2, <3>1
    <3>3. word(y, r) = word(x, r) /\ r \in live(y, D) \X Idx
      BY <1>3, <1>5, <2>0, <3>1, <3>2
    <3> QED
      BY <3>1, <3>3 DEF pointers
  <2>3. p = t => pointers(y, D, p) = {}
    BY <1>p, <2>1
  <2>4. p # t => pointers(y, D, p) = pointers(x, D, p)
    BY <2>1, <2>2
  <2> QED
    BY <2>3, <2>4
<1>8. CountExact(y, D, P)
  <2>1. ASSUME NEW p \in Page, p # t
        PROVE  y.ref[p] = x.ref[p] /\ pointers(y, D, p) = pointers(x, D, p)
    BY <1>2, <1>7, <2>1
  <2>2. x.ref[t] = 1 + (IF t \in D THEN 1 ELSE 0) + (IF t \in P THEN 1 ELSE 0)
    <3>1. Cardinality(pointers(x, D, t)) = 1
      BY <1>p, FS_Singleton
    <3> QED
      BY <1>t, <3>1 DEF Good, CountExact
  <2>3. Cardinality(pointers(y, D, t)) = 0 /\ y.ref[t] = x.ref[t] - 1
    BY <1>2, <1>7, <1>t, FS_EmptySet
  <2> QED
    BY <1>t, <2>1, <2>2, <2>3 DEF Good, CountExact
<1>9. ListExact(y, H)
  <2>0. t \notin Freed(x)
    BY <1>t, <1>r DEF Good, ListExact
  <2>1. CASE x.ref[t] = 1
    <3>0. /\ y.free = <<t>> \o x.free
          /\ \A j, k \in 1 .. Len(x.free) : x.free[j] = x.free[k] => j = k
      BY <1>2, <2>1 DEF Good, ListExact
    <3>1. /\ \A j, k \in 1 .. Len(y.free) : y.free[j] = y.free[k] => j = k
          /\ Freed(y) = Freed(x) \cup {t}
      BY <1>x, <1>t, <1>2, <2>0, <3>0, Pushed
    <3> QED
      BY <1>2, <1>t, <2>0, <2>1, <3>1 DEF Good, ListExact
  <2>2. CASE x.ref[t] # 1
    BY <1>2, <1>r, <2>2 DEF Good, ListExact, Freed
  <2> QED
    BY <2>1, <2>2
<1>10. Forest(y, D, H)
  BY <1>4, <1>6, <1>7 DEF Good, Forest
<1>11. \A q \in AllPages : q # d => y.mem[q] = x.mem[q]
  BY <1>1, <1>2
<1>12. Clear(y, H)
  <2>1. d \notin H /\ H \subseteq AllPages /\ LowPage \in AllPages
    BY <1>s, PageFacts DEF Good, Sets, Forest
  <2> QED
    BY <1>11, <1>x, <2>1 DEF Good, Clear
<1>13. ASSUME NEW e \in D, NEW u \in Va, e # d
       PROVE  page_lookup(y, e, u) = page_lookup(x, e, u)
  <2>1. e \in AllPages
    BY DEF Good, Sets
  <2>2. pde(y, e, u) = pde(x, e, u)
    BY <1>11, <1>13, <2>1 DEF pde
  <2>3. walk(y, e, u) = walk(x, e, u)
    BY <2>2 DEF walk
  <2>4. walk(x, e, u) \in AllPages \X Idx
    BY Lookup
  <2>5. walk(x, e, u)[1] # d
    <3>1. CASE pde(x, e, u) = Zero
      BY <1>x, <3>1 DEF walk
    <3>2. CASE pde(x, e, u) # Zero
      <4>1. walk(x, e, u)[1] \in tables(x, D)
        BY <3>2, Lookup
      <4> QED
        BY <1>s, <4>1 DEF Good, Forest
    <3> QED
      BY <3>1, <3>2
  <2> QED
    BY <1>11, <2>3, <2>4, <2>5 DEF page_lookup, word
<1>14. Good(y, D, H, P)
  BY <1>2, <1>8, <1>9, <1>10, <1>12 DEF Good
<1> QED
  BY <1>11, <1>13, <1>14 DEF y, z, d, t

\* An empty directory is counted down and is none any more.
LEMMA DropDirectory ==
  ASSUME NEW x, NEW D, NEW H, NEW P, Good(x, D, H, P),
         NEW d \in D, d \in Page, \A i \in Idx : word(x, <<d, i>>) = Zero
  PROVE  LET y == page_decref(x, d) IN
         Good(y, D \ {d}, H, P) /\ y.mem = x.mem
<1> DEFINE y == page_decref(x, d)
           E == D \ {d}
<1>x. x \in MemState /\ d \notin tables(x, D) /\ d \notin H
  BY DEF Good, Forest
<1>r. x.ref[d] # 0 /\ x.ref[d] \in Nat
  BY <1>x, CountZero, PageFacts DEF MemState
<1>1. /\ y \in MemState /\ y.mem = x.mem
      /\ y.free = IF x.ref[d] = 1 THEN <<d>> \o x.free ELSE x.free
      /\ \A p \in Page : y.ref[p] = IF p = d THEN x.ref[p] - 1 ELSE x.ref[p]
  BY <1>x, <1>r, DecrefFacts
<1> HIDE DEF y
<1>2. \A r : word(y, r) = word(x, r)
  BY <1>1 DEF word
<1>3. tables(y, E) = tables(x, D)
  <2>1. \A r \in D \X Idx : word(x, r) # Zero => r \in E \X Idx
    OBVIOUS
  <2> QED
    BY <1>2, <2>1 DEF tables
<1>4. data_pages(y, E) = data_pages(x, D)
  BY <1>2, <1>3 DEF data_pages
<1>5. \A p : pointers(y, E, p) = pointers(x, D, p)
  <2>1. live(y, E) = live(x, D) \ {d}
    BY <1>3, <1>x DEF live
  <2>2. \A r \in live(x, D) \X Idx : word(x, r) # Zero => r \in live(y, E) \X Idx
    BY <2>1
  <2>3. \A r \in live(y, E) \X Idx : r \in live(x, D) \X Idx
    BY <2>1
  <2> QED
    BY <1>2, <2>2, <2>3 DEF pointers
<1>6. CountExact(y, E, P)
  <2>1. \A p \in Page : Cardinality(pointers(x, D, p)) \in Nat
    BY LiveType, SlotFinite DEF Good, Sets
  <2>2. ASSUME NEW p \in Page, p # d
        PROVE  y.ref[p] = x.ref[p] /\ pointers(y, E, p) = pointers(x, D, p)
               /\ (p \in E <=> p \in D)
    BY <1>1, <1>5, <2>2
  <2>3. y.ref[d] = x.ref[d] - 1 /\ pointers(y, E, d) = pointers(x, D, d) /\ d \notin E
    BY <1>1, <1>5
  <2>4. \A p \in Page :
          x.ref[p] = Cardinality(pointers(x, D, p)) + (IF p \in D THEN 1 ELSE 0)
                                                    + (IF p \in P THEN 1 ELSE 0)
    BY DEF Good, CountExact
  <2> HIDE DEF E
  <2>5. ASSUME NEW p \in Page
        PROVE  y.ref[p] = Cardinality(pointers(y, E, p)) + (IF p \in E THEN 1 ELSE 0)
                                                         + (IF p \in P THEN 1 ELSE 0)
    <3>1. CASE p = d
      BY <2>1, <2>3, <2>4, <3>1
    <3>2. CASE p # d
      <4>1. y.ref[p] = x.ref[p] /\ pointers(y, E, p) = pointers(x, D, p)
        BY <2>2, <3>2
      <4>2. p \in E <=> p \in D
        BY <2>2, <3>2
      <4> QED
        BY <2>4, <4>1, <4>2
    <3> QED
      BY <3>1, <3>2
  <2> QED
    BY <2>5 DEF CountExact
<1>7. ListExact(y, H)
  <2>0. d \notin Freed(x)
    BY <1>r DEF Good, ListExact
  <2>1. CASE x.ref[d] = 1
    <3>0. /\ y.free = <<d>> \o x.free
          /\ \A j, k \in 1 .. Len(x.free) : x.free[j] = x.free[k] => j = k
      BY <1>1, <2>1 DEF Good, ListExact
    <3>1. /\ \A j, k \in 1 .. Len(y.free) : y.free[j] = y.free[k] => j = k
          /\ Freed(y) = Freed(x) \cup {d}
      BY <1>x, <1>1, <2>0, <3>0, Pushed
    <3> QED
      BY <1>1, <1>x, <2>0, <2>1, <3>1 DEF Good, ListExact
  <2>2. CASE x.ref[d] # 1
    BY <1>1, <1>r, <2>2 DEF Good, ListExact, Freed
  <2> QED
    BY <2>1, <2>2
<1>8. Forest(y, E, H)
  BY <1>3, <1>4, <1>5 DEF Good, Forest
<1>9. Clear(y, H) /\ Sets(E, H, P)
  BY <1>1 DEF Good, Clear, Sets
<1>10. Good(y, E, H, P)
  BY <1>1, <1>6, <1>7, <1>8, <1>9 DEF Good
<1> QED
  BY <1>1, <1>10 DEF y

-----------------------------------------------------------------------------
(***************************************************************************)
(* Ids and the list of free slots.                                         *)
(***************************************************************************)

\* The slot is what ENVX takes from an id, however many ids were made before.
LEMMA Modulus ==
  ASSUME NEW b \in Nat \ {0}, NEW q \in Nat, NEW r \in 0 .. b - 1
  PROVE  (q * b + r) % b = r
<1> DEFINE n == q * b + r
<1>1. n \in Nat
  BY Z3
<1>2. n = b * (n \div b) + (n % b) /\ n % b \in 0 .. b - 1 /\ n \div b \in Int
  BY <1>1, SMTT(30)
<1> QED
  BY <1>1, <1>2, SMTT(30)

LEMMA IdFacts ==
  ASSUME NEW k \in 1 .. NENV, NEW s \in Slot
  PROVE  /\ k * 2 * NENV + s \in Ids \ {0}
         /\ ENVX(k * 2 * NENV + s) = s
<1>1. NENV \in Nat \ {0} /\ s \in 0 .. NENV - 1 /\ k \in Nat /\ 0 < k /\ k <= NENV
  BY PmapSysAssumption, EnvSysAssumption DEF Slot
<1>2. k * 2 \in Nat
  BY <1>1
<1>3. ENVX(k * 2 * NENV + s) = s
  BY <1>1, <1>2, Modulus DEF ENVX
<1>4. k * 2 * NENV \in Nat /\ k * 2 * NENV <= NENV * 2 * NENV /\ 0 < k * 2 * NENV
  BY <1>1, Z3
<1>5. 2 * NENV * (NENV + 1) = NENV * 2 * NENV + 2 * NENV /\ NENV * 2 * NENV \in Nat
  BY <1>1, Z3
<1> QED
  BY <1>1, <1>3, <1>4, <1>5 DEF Ids

Members(q) == {q[k] : k \in 1 .. Len(q)}
Once(q)    == \A j, k \in 1 .. Len(q) : q[j] = q[k] => j = k

\* LIST_FIRST and LIST_REMOVE of it.
LEMMA HeadTaken ==
  ASSUME NEW S, NEW q \in Seq(S), q # << >>, Once(q)
  PROVE  /\ Head(q) \in Members(q) /\ Members(q) \subseteq S /\ Tail(q) \in Seq(S)
         /\ Len(Tail(q)) = Len(q) - 1 /\ Len(q) \in Nat /\ 0 < Len(q)
         /\ Once(Tail(q)) /\ Members(Tail(q)) = Members(q) \ {Head(q)}
<1> DEFINE r == Tail(q)
<1>1. /\ Len(q) \in Nat /\ 0 < Len(q) /\ Head(q) = q[1] /\ r \in Seq(S)
      /\ Len(r) = Len(q) - 1 /\ \A k \in 1 .. Len(r) : r[k] = q[k + 1]
      /\ \A k \in 1 .. Len(q) : q[k] \in S
  OBVIOUS
<1> HIDE DEF r
<1>2. ASSUME NEW j \in 1 .. Len(r), NEW k \in 1 .. Len(r), r[j] = r[k] PROVE j = k
  <2>1. j + 1 \in 1 .. Len(q) /\ k + 1 \in 1 .. Len(q) /\ q[j + 1] = q[k + 1]
    BY <1>1, <1>2
  <2>2. j + 1 = k + 1
    BY <2>1 DEF Once
  <2> QED
    BY <2>2, <1>1
<1>3. ASSUME NEW k \in 1 .. Len(r) PROVE r[k] \in Members(q) \ {Head(q)}
  <2>1. k + 1 \in 1 .. Len(q) /\ 1 \in 1 .. Len(q) /\ k + 1 # 1 /\ r[k] = q[k + 1]
    BY <1>1
  <2> QED
    BY <1>1, <2>1 DEF Members, Once
<1>4. ASSUME NEW e \in Members(q), e # Head(q) PROVE e \in Members(r)
  <2>1. PICK k \in 1 .. Len(q) : e = q[k]
    BY DEF Members
  <2>2. k # 1 /\ k - 1 \in 1 .. Len(r) /\ r[k - 1] = e
    BY <1>1, <1>4, <2>1
  <2> QED
    BY <2>2 DEF Members
<1>5. Members(r) = Members(q) \ {Head(q)}
  BY <1>3, <1>4 DEF Members
<1>6. Head(q) \in Members(q) /\ Members(q) \subseteq S
  BY <1>1 DEF Members
<1> QED
  BY <1>1, <1>2, <1>5, <1>6 DEF Once, r

\* LIST_INSERT_HEAD of what is not on the list.
LEMMA HeadPut ==
  ASSUME NEW S, NEW q \in Seq(S), NEW e \in S, e \notin Members(q), Once(q)
  PROVE  /\ <<e>> \o q \in Seq(S)
         /\ Once(<<e>> \o q) /\ Members(<<e>> \o q) = Members(q) \cup {e}
<1> DEFINE r == <<e>> \o q
<1>1. /\ r \in Seq(S) /\ Len(q) \in Nat /\ Len(r) = Len(q) + 1 /\ r[1] = e
      /\ \A k \in 2 .. Len(r) : r[k] = q[k - 1]
  OBVIOUS
<1> HIDE DEF r
<1>2. ASSUME NEW j \in 1 .. Len(r), j # 1
      PROVE  j - 1 \in 1 .. Len(q) /\ r[j] = q[j - 1] /\ r[j] \in Members(q) /\ j \in Int
  <2>1. j - 1 \in 1 .. Len(q) /\ r[j] = q[j - 1] /\ j \in Int
    BY <1>1, <1>2
  <2> QED
    BY <2>1 DEF Members
<1>3. ASSUME NEW j \in 1 .. Len(r), NEW k \in 1 .. Len(r), r[j] = r[k] PROVE j = k
  <2>1. CASE j = 1 \/ k = 1
    BY <1>1, <1>2, <1>3, <2>1
  <2>2. CASE j # 1 /\ k # 1
    <3>1. j - 1 = k - 1 /\ j \in Int /\ k \in Int
      BY <1>2, <1>3, <2>2 DEF Once
    <3> QED
      BY <3>1
  <2> QED
    BY <2>1, <2>2
<1>4. ASSUME NEW k \in 1 .. Len(q) PROVE q[k] \in Members(r)
  <2>1. k + 1 \in 2 .. Len(r) /\ r[k + 1] = q[k] /\ k + 1 \in 1 .. Len(r)
    BY <1>1
  <2> QED
    BY <2>1 DEF Members
<1>5. Members(r) = Members(q) \cup {e}
  <2>1. e \in Members(r)
    BY <1>1 DEF Members
  <2>2. \A j \in 1 .. Len(r) : r[j] \in Members(q) \cup {e}
    BY <1>1, <1>2
  <2> QED
    BY <1>4, <2>1, <2>2 DEF Members
<1> QED
  BY <1>1, <1>3, <1>5 DEF Once, r

-----------------------------------------------------------------------------
(***************************************************************************)
(* The inductive invariant.                                                *)
(***************************************************************************)

\* The memory, with a call or env_free in progress or not.
MemInv ==
  /\ Good(m, dirs, held, pinned)
  /\ freeing = NULL => IInv

\* The table of environments: each id was made by mkenvid for its slot, and as
\* env_free never returns, no slot is used twice: next_env_id counts those taken.
TableInv ==
  /\ EnvTypeOK /\ SlotsExact
  /\ \A s \in Live : envs[s].pgdir \in Page
  /\ \A s \in Live : \E k \in 1 .. next_env_id : envs[s].id = k * 2 * NENV + s
  /\ next_env_id + Len(env_free_list) = NENV \/ halted
  /\ freeing \in Live \cup {NULL} \/ halted

EnvIInv == MemInv /\ TableInv

LEMMA EnvInitInv == EnvInit => EnvIInv
<1> SUFFICES ASSUME EnvInit PROVE EnvIInv
  OBVIOUS
<1>n. NENV \in Nat /\ 0 < NENV /\ NULL \notin Slot
  BY PmapSysAssumption, EnvSysAssumption
<1>1. /\ Init /\ envs = [s \in Slot |-> NoEnv] /\ env_free_list = [k \in 1 .. NENV |-> k - 1]
      /\ next_env_id = 0 /\ curenv = NULL /\ freeing = NULL
  BY DEF EnvInit, env_init_free
<1>2. MemInv
  BY <1>1, InitIInv DEF MemInv, IInv
<1>3. Live = {}
  BY <1>1 DEF Live, NoEnv
<1>4. 0 \in Ids
  BY <1>n DEF Ids
<1>5. /\ env_free_list \in Seq(Slot) /\ Len(env_free_list) = NENV
      /\ \A k \in 1 .. NENV : env_free_list[k] = k - 1
  BY <1>1, <1>n DEF Slot
<1>6. EnvTypeOK
  BY <1>1, <1>4, <1>5, <1>n DEF EnvTypeOK, NoEnv
<1>7. SlotsExact
  <2>1. \A j, k \in 1 .. Len(env_free_list) : env_free_list[j] = env_free_list[k] => j = k
    BY <1>5, <1>n
  <2>2. ASSUME NEW s \in Slot PROVE s \in {env_free_list[k] : k \in 1 .. Len(env_free_list)}
    <3>1. s + 1 \in 1 .. NENV /\ (s + 1) - 1 = s
      BY <1>n DEF Slot
    <3> QED
      BY <1>5, <3>1
  <2>3. \A k \in 1 .. Len(env_free_list) : env_free_list[k] \in Slot
    BY <1>5, <1>n DEF Slot
  <2>4. dirs = {boot_pgdir}
    BY <1>1 DEF Init
  <2> QED
    BY <1>3, <2>1, <2>2, <2>3, <2>4 DEF SlotsExact
<1>8. next_env_id + Len(env_free_list) = NENV
  BY <1>1, <1>5, <1>n
<1> QED
  BY <1>1, <1>2, <1>3, <1>6, <1>7, <1>8 DEF EnvIInv, TableInv

\* The directory env_free works on.
LEMMA FreeingFacts ==
  ASSUME EnvIInv, Freeing
  PROVE  /\ freeing \in Live /\ freeing \in Slot /\ freeing # NULL /\ ~halted
         /\ env_pgdir \in Page /\ env_pgdir \in dirs /\ env_pgdir # boot_pgdir
         /\ Good(m, dirs, held, pinned)
<1>1. freeing # NULL /\ ~halted /\ freeing \in Live
  BY DEF Freeing, EnvIInv, TableInv
<1>2. freeing \in Slot /\ env_pgdir = envs[freeing].pgdir
  BY <1>1 DEF Live, env_pgdir
<1>3. env_pgdir \in Page /\ env_pgdir \in dirs
  BY <1>1, <1>2 DEF EnvIInv, TableInv, SlotsExact
<1> QED
  BY <1>1, <1>2, <1>3, PageFacts, BootPage DEF EnvIInv, MemInv

LEMMA FreePageFacts ==
  ASSUME EnvIInv, FreePage
  PROVE  /\ Freeing
         /\ Good(m', dirs, held, pinned)
         /\ UNCHANGED <<dirs, held, pinned, envs, env_free_list, next_env_id, curenv, freeing, halted>>
         /\ \A e \in dirs, u \in Va : e # env_pgdir => page_lookup(m', e, u) = page_lookup(m, e, u)
         /\ \A q \in AllPages \ tables(m, dirs) : m'.mem[q] = m.mem[q]
<1>1. Freeing /\ env_pgdir \in dirs /\ Good(m, dirs, held, pinned)
  BY FreeingFacts DEF FreePage
<1>2. PICK i \in Idx, j \in Idx : m' = page_remove(m, env_pgdir, <<i, j>>)
  BY DEF FreePage, First, valid
<1>3. <<i, j>> \in Va
  BY DEF Va
<1>4. UNCHANGED <<dirs, held, pinned, envs, env_free_list, next_env_id, curenv, freeing, halted>>
  BY DEF FreePage, KeepTheRest
<1> DEFINE d == env_pgdir
           va == <<i, j>>
<1>5. d \in dirs /\ va \in Va /\ m' = page_remove(m, d, va)
  BY <1>1, <1>2, <1>3
<1> HIDE DEF d, va
<1>6. /\ Good(m', dirs, held, pinned)
      /\ m' = m \/ Edited(m, m', dirs, d, va)
  BY <1>1, <1>5, RemoveGood
<1>7. \A q \in AllPages \ tables(m, dirs) : m'.mem[q] = m.mem[q]
  BY <1>1, <1>5, RemoveMemory
<1>8. \A e \in dirs, u \in Va : e # d => page_lookup(m', e, u) = page_lookup(m, e, u)
  <2>1. CASE m' = m
    BY <2>1
  <2>2. CASE Edited(m, m', dirs, d, va)
    BY <2>2 DEF Edited
  <2> QED
    BY <1>6, <2>1, <2>2
<1> QED
  BY <1>1, <1>4, <1>6, <1>7, <1>8 DEF d

LEMMA FreeTableFacts ==
  ASSUME EnvIInv, FreeTable
  PROVE  /\ Freeing
         /\ Good(m', dirs, held, pinned)
         /\ UNCHANGED <<dirs, held, pinned, envs, env_free_list, next_env_id, curenv, freeing, halted>>
         /\ \A e \in dirs, u \in Va : e # env_pgdir => page_lookup(m', e, u) = page_lookup(m, e, u)
         /\ \A q \in AllPages : q # env_pgdir => m'.mem[q] = m.mem[q]
<1>1. Freeing /\ env_pgdir \in dirs /\ Good(m, dirs, held, pinned)
  BY FreeingFacts DEF FreeTable
<1>2. PICK i \in Idx : /\ word(m, <<env_pgdir, i>>) # Zero /\ valid(pt(i)) = {}
                       /\ m' = page_decref(store(m, <<env_pgdir, i>>, Zero), pt(i))
  BY DEF FreeTable, First, valid
<1>3. pt(i) = word(m, <<env_pgdir, i>>).pg /\ \A j \in Idx : word(m, <<pt(i), j>>) = Zero
  BY <1>2 DEF pt, valid
<1>4. UNCHANGED <<dirs, held, pinned, envs, env_free_list, next_env_id, curenv, freeing, halted>>
  BY DEF FreeTable, KeepTheRest
<1> DEFINE s == <<env_pgdir, i>>
<1>5. /\ s \in dirs \X Idx /\ word(m, s) # Zero /\ s[1] = env_pgdir
      /\ \A j \in Idx : word(m, <<word(m, s).pg, j>>) = Zero
      /\ m' = page_decref(store(m, s, Zero), word(m, s).pg)
  BY <1>1, <1>2, <1>3
<1> HIDE DEF s
<1>6. /\ Good(m', dirs, held, pinned)
      /\ \A q \in AllPages : q # s[1] => m'.mem[q] = m.mem[q]
      /\ \A e \in dirs, u \in Va : e # s[1] => page_lookup(m', e, u) = page_lookup(m, e, u)
  BY <1>1, <1>5, DropTable
<1> QED
  BY <1>1, <1>4, <1>5, <1>6

LEMMA FreeDirectoryFacts ==
  ASSUME EnvIInv, FreeDirectory
  PROVE  /\ Freeing
         /\ Good(m', dirs', held', pinned')
         /\ m'.mem = m.mem /\ dirs' = dirs \ {env_pgdir}
<1>1. Freeing /\ env_pgdir \in dirs /\ env_pgdir \in Page /\ Good(m, dirs, held, pinned)
  BY FreeingFacts DEF FreeDirectory
<1>2. \A i \in Idx : word(m, <<env_pgdir, i>>) = Zero
  BY DEF FreeDirectory, valid
<1>3. m' = page_decref(m, env_pgdir) /\ dirs' = dirs \ {env_pgdir} /\ UNCHANGED <<held, pinned>>
  BY DEF FreeDirectory, KeepTheRest
<1> QED
  BY <1>1, <1>2, <1>3, DropDirectory

\* What PmapSys does alone, or under env_alloc and env_run, keeps its invariant.
LEMMA PmapStep ==
  ASSUME EnvIInv, freeing = NULL, freeing' = NULL, Next
  PROVE  MemInv'
<1>1. IInv'
  BY StepIInv DEF EnvIInv, MemInv
<1> QED
  BY <1>1 DEF MemInv, IInv

LEMMA MemStep == EnvIInv /\ [EnvNext]_<<vars, evars>> => MemInv'
<1> SUFFICES ASSUME EnvIInv, [EnvNext]_<<vars, evars>> PROVE MemInv'
  OBVIOUS
<1>1. CASE Alloc
  <2>1. EnvSetupVm /\ freeing = NULL /\ freeing' = NULL
    BY <1>1 DEF Alloc, EnvAlloc
  <2> QED
    BY <2>1, PmapStep DEF Next
<1>2. CASE Run
  <2>1. EnvRun /\ freeing = NULL /\ freeing' = NULL
    BY <1>2 DEF Run
  <2> QED
    BY <2>1, PmapStep DEF Next
<1>3. CASE CheckPerm
  <2>1. /\ halted' \in BOOLEAN /\ freeing = NULL
        /\ UNCHANGED <<m, dirs, uvpt, fresh, mCONTEXT, held, pinned, fault, freeing>>
    BY <1>3 DEF CheckPerm, evars
  <2>2. IInv /\ Good(m, dirs, held, pinned)
    BY <2>1 DEF EnvIInv, MemInv
  <2>3. TypeOK'
    BY <2>1, <2>2 DEF IInv, TypeOK
  <2>4. IInv'
    BY <2>1, <2>2, <2>3 DEF IInv
  <2> QED
    BY <2>4 DEF MemInv, IInv
<1>4. CASE \E s \in Slot : EnvFree(s)
  <2>1. /\ freeing = NULL /\ freeing' # NULL
        /\ UNCHANGED <<m, dirs, held, pinned>>
    BY <1>4, EnvSysAssumption DEF EnvFree, vars
  <2> QED
    BY <2>1 DEF EnvIInv, MemInv
<1>5. CASE FreePage
  <2>1. freeing' # NULL /\ Good(m', dirs', held', pinned')
    BY <1>5, FreePageFacts DEF Freeing
  <2> QED
    BY <2>1 DEF MemInv
<1>6. CASE FreeTable
  <2>1. freeing' # NULL /\ Good(m', dirs', held', pinned')
    BY <1>6, FreeTableFacts DEF Freeing
  <2> QED
    BY <2>1 DEF MemInv
<1>7. CASE FreeDirectory
  <2>1. freeing' # NULL /\ Good(m', dirs', held', pinned')
    BY <1>7, FreeDirectoryFacts DEF Freeing, FreeDirectory, KeepTheRest
  <2> QED
    BY <2>1 DEF MemInv
<1>8. CASE PageOp
  <2>1. freeing = NULL /\ freeing' = NULL /\ Next
    BY <1>8 DEF PageOp, Next, evars
  <2> QED
    BY <2>1, PmapStep
<1>9. CASE Panicked \/ UNCHANGED <<vars, evars>>
  <2>1. UNCHANGED <<m, dirs, uvpt, fresh, mCONTEXT, held, pinned, fault, halted, freeing>>
    BY <1>9 DEF Panicked, PanicLoop, vars, evars
  <2> QED
    BY <2>1 DEF EnvIInv, MemInv, IInv, TypeOK
<1> QED
  BY <1>1, <1>2, <1>3, <1>4, <1>5, <1>6, <1>7, <1>8, <1>9 DEF EnvNext, Destroy

\* What leaves the table and the directories alone keeps the table right.
LEMMA TableKept ==
  ASSUME TableInv, UNCHANGED <<envs, env_free_list, next_env_id, dirs>>,
         curenv' \in Slot \cup {NULL}, freeing' \in Live \cup {NULL} \/ halted',
         freeing' \in Slot \cup {NULL}, halted => halted'
  PROVE  TableInv'
<1>1. Live' = Live
  BY DEF Live
<1>2. EnvTypeOK'
  BY DEF TableInv, EnvTypeOK
<1>3. SlotsExact'
  BY <1>1 DEF TableInv, SlotsExact
<1>4. \A s \in Live' : envs'[s].pgdir \in Page
  BY <1>1 DEF TableInv
<1>5. \A s \in Live' : \E k \in 1 .. next_env_id' : envs'[s].id = k * 2 * NENV + s
  BY <1>1 DEF TableInv
<1>6. next_env_id' + Len(env_free_list') = NENV \/ halted'
  BY DEF TableInv
<1> QED
  BY <1>1, <1>2, <1>3, <1>4, <1>5, <1>6 DEF TableInv

\* env_alloc with a page for the directory.
LEMMA AllocFacts ==
  ASSUME EnvIInv, EnvSetupVm, ~page_alloc_fails(m)
  PROVE  LET p == page_alloc_pp(m) IN
         /\ p \in Page /\ p \notin dirs /\ dirs' = dirs \cup {p} /\ halted' = halted /\ ~halted
         /\ p \notin data_pages(m, dirs)
         /\ \A d \in dirs, va \in Va : page_lookup(m', d, va) = page_lookup(m, d, va)
         /\ \A q \in AllPages : q # p => m'.mem[q] = m.mem[q]
<1> DEFINE p == page_alloc_pp(m)
           a == page_alloc(m)
<1>1. Good(m, dirs, held, pinned)
  BY DEF EnvIInv, MemInv
<1>2. m' = page_incref(a, p) /\ dirs' = dirs \cup {p} /\ halted' = halted /\ ~halted
  BY DEF EnvSetupVm, Ready
<1>3. /\ p \notin dirs
      /\ \A d \in dirs, va \in Va : page_lookup(a, d, va) = page_lookup(m, d, va)
  BY <1>1, AllocKeepsMaps
<1>4. /\ m \in MemState /\ a \in MemState /\ p \in Page
      /\ a.mem = [m.mem EXCEPT ![p] = ZeroPage]
  <2>1. m \in MemState /\ a \in MemState /\ p \in Page
    BY <1>1, AllocType DEF Good
  <2> QED
    BY <2>1 DEF page_alloc, MemState
<1>5. p \in held \cup {p} /\ Good(a, dirs, held \cup {p}, pinned)
  BY <1>1, GoodAlloc
<1> HIDE DEF a, p
<1>6. a.ref[p] = 0 /\ p \notin data_pages(a, dirs) /\ p \notin live(a, dirs)
  BY <1>5, HeldFacts
<1>7. m'.mem = a.mem
  BY <1>2, <1>4, <1>6, IncrefFacts, PmapAssumption
<1>8. \A d \in dirs, va \in Va : page_lookup(m', d, va) = page_lookup(m, d, va)
  BY <1>3, <1>7, SameMem
<1>9. \A q \in AllPages : q # p => m'.mem[q] = m.mem[q]
  BY <1>4, <1>7 DEF MemState
<1>10. p \notin data_pages(m, dirs)
  <2>1. p \in Freed(m)
    BY <1>1, <1>4 DEF p, page_alloc_fails, page_alloc_pp, Freed, MemState
  <2>2. m.ref[p] = 0
    BY <1>1, <1>4, <2>1 DEF Good, ListExact
  <2> QED
    BY <1>1, <1>4, <2>2, CountZero
<1> QED
  BY <1>2, <1>3, <1>4, <1>8, <1>9, <1>10 DEF p

LEMMA AllocTable ==
  ASSUME EnvIInv, Alloc PROVE TableInv'
<1>n. NENV \in Nat /\ 0 < NENV /\ NULL \notin Slot /\ NULL \notin AllPages
  BY PmapSysAssumption, EnvSysAssumption
<1>0. /\ EnvTypeOK /\ SlotsExact /\ TableInv
      /\ \A s \in Live : envs[s].pgdir \in Page
      /\ \A s \in Live : \E k \in 1 .. next_env_id : envs[s].id = k * 2 * NENV + s
      /\ next_env_id + Len(env_free_list) = NENV \/ halted
  BY DEF EnvIInv, TableInv
<1>t. /\ envs \in [Slot -> [status : {ENV_FREE, ENV_RUNNABLE}, id : Ids, parent : Ids,
                            pgdir : AllPages \cup {NULL}]]
      /\ env_free_list \in Seq(Slot) /\ next_env_id \in 0 .. NENV
      /\ curenv \in Slot \cup {NULL}
  BY <1>0 DEF EnvTypeOK
<1>1. PICK parent \in {0} \cup {envs[s].id : s \in {curenv} \ {NULL}} : EnvAlloc(parent)
  BY DEF Alloc
<1>p. parent \in Ids
  <2>1. 0 \in Ids
    BY <1>n DEF Ids
  <2>2. \A s \in Slot : envs[s].id \in Ids
    BY <1>t
  <2> QED
    BY <2>1, <2>2, <1>t
<1>2. /\ EnvSetupVm /\ freeing = NULL /\ freeing' = NULL /\ curenv' = curenv
      /\ env_free_list # << >> /\ halted \in BOOLEAN /\ ~halted
  BY <1>1 DEF EnvAlloc, EnvIInv, MemInv, IInv, TypeOK, EnvSetupVm, Ready
<1>3. CASE page_alloc_fails(m)
  <2>1. halted' = TRUE /\ dirs' = dirs
    BY <1>2, <1>3 DEF EnvSetupVm
  <2>2. UNCHANGED <<envs, env_free_list, next_env_id>>
    BY <1>1, <2>1 DEF EnvAlloc
  <2> QED
    BY <1>0, <1>2, <1>t, <2>1, <2>2, TableKept
<1>4. CASE ~page_alloc_fails(m)
  <2> DEFINE p == page_alloc_pp(m)
             s == Head(env_free_list)
             e == [status |-> ENV_RUNNABLE, id |-> mkenvid(s), parent |-> parent, pgdir |-> p]
  <2>1. p \in Page /\ p \notin dirs /\ dirs' = dirs \cup {p} /\ ~halted'
    BY <1>2, <1>4, AllocFacts
  <2>2. /\ envs' = [envs EXCEPT ![s] = e]
        /\ env_free_list' = Tail(env_free_list) /\ next_env_id' = next_env_id + 1
    BY <1>1, <2>1 DEF EnvAlloc
  <2>3. Once(env_free_list) /\ Members(env_free_list) = Slot \ Live
    BY <1>0 DEF SlotsExact, Once, Members
  <2>4. /\ s \in Members(env_free_list) /\ env_free_list' \in Seq(Slot)
        /\ Len(env_free_list') = Len(env_free_list) - 1
        /\ Len(env_free_list) \in Nat /\ 0 < Len(env_free_list)
        /\ Once(env_free_list') /\ Members(env_free_list') = Members(env_free_list) \ {s}
    BY <1>2, <1>t, <2>2, <2>3, HeadTaken
  <2>s. s \in Slot /\ s \notin Live
    BY <2>3, <2>4
  <2>5. /\ next_env_id' \in 1 .. NENV
        /\ next_env_id' + Len(env_free_list') = NENV
        /\ next_env_id + 1 = next_env_id'
    BY <1>0, <1>2, <1>t, <1>n, <2>2, <2>4
  <2>6. mkenvid(s) = next_env_id' * 2 * NENV + s
    BY <2>5 DEF mkenvid
  <2>7. mkenvid(s) \in Ids
    BY <2>5, <2>6, <2>s, IdFacts
  <2>e. /\ e \in [status : {ENV_FREE, ENV_RUNNABLE}, id : Ids, parent : Ids,
                  pgdir : AllPages \cup {NULL}]
        /\ e.status # ENV_FREE /\ e.pgdir = p /\ e.id = next_env_id' * 2 * NENV + s
    BY <1>p, <2>1, <2>6, <2>7, PageFacts, EnvSysAssumption
  <2> HIDE DEF e, s, p
  <2>8. envs'[s] = e /\ \A r \in Slot : r # s => envs'[r] = envs[r]
    BY <1>t, <2>2, <2>s
  <2>9. Live' = Live \cup {s}
    BY <2>8, <2>e, <2>s DEF Live
  <2>10. EnvTypeOK'
    BY <1>t, <1>2, <2>2, <2>4, <2>5, <2>e, <2>s DEF EnvTypeOK
  <2>11. \A r \in Live : r # s /\ r \in Slot /\ envs'[r] = envs[r]
    BY <2>8, <2>s DEF Live
  <2>12. SlotsExact'
    <3>1. Members(env_free_list') = Slot \ Live'
      BY <2>3, <2>4, <2>9
    <3>2. \A r, q \in Live' : envs'[r].pgdir = envs'[q].pgdir => r = q
      <4>1. \A r \in Live : envs'[r].pgdir \in dirs
        BY <1>0, <2>11 DEF SlotsExact
      <4>2. envs'[s].pgdir = p /\ p \notin dirs
        BY <2>1, <2>8, <2>e
      <4>3. \A r, q \in Live : envs'[r].pgdir = envs'[q].pgdir => r = q
        BY <1>0, <2>11 DEF SlotsExact
      <4> QED
        BY <2>9, <4>1, <4>2, <4>3
    <3>3. dirs' = {boot_pgdir} \cup {envs'[r].pgdir : r \in Live'}
      <4>1. {envs'[r].pgdir : r \in Live'} = {envs[r].pgdir : r \in Live} \cup {p}
        BY <2>8, <2>9, <2>11, <2>e
      <4> QED
        BY <1>0, <2>1, <4>1 DEF SlotsExact
    <3>4. boot_pgdir' = boot_pgdir
      BY DEF boot_pgdir
    <3> QED
      BY <2>4, <3>1, <3>2, <3>3, <3>4 DEF SlotsExact, Once, Members
  <2>13. \A r \in Live' : envs'[r].pgdir \in Page
    BY <1>0, <2>1, <2>8, <2>9, <2>11, <2>e
  <2>14. \A r \in Live' : \E k \in 1 .. next_env_id' : envs'[r].id = k * 2 * NENV + r
    <3>1. \A r \in Live : \E k \in 1 .. next_env_id : envs'[r].id = k * 2 * NENV + r
      BY <1>0, <2>11
    <3>2. 1 .. next_env_id \subseteq 1 .. next_env_id' /\ next_env_id' \in 1 .. next_env_id'
      BY <1>t, <2>5
    <3> QED
      BY <2>8, <2>9, <2>e, <3>1, <3>2
  <2> QED
    BY <1>2, <2>5, <2>10, <2>12, <2>13, <2>14 DEF TableInv
<1> QED
  BY <1>3, <1>4

LEMMA FreeTableOfEnvs ==
  ASSUME EnvIInv, FreeDirectory PROVE TableInv'
<1>0. /\ EnvTypeOK /\ SlotsExact
      /\ \A s \in Live : envs[s].pgdir \in Page
      /\ \A s \in Live : \E k \in 1 .. next_env_id : envs[s].id = k * 2 * NENV + s
  BY DEF EnvIInv, TableInv
<1>t. /\ envs \in [Slot -> [status : {ENV_FREE, ENV_RUNNABLE}, id : Ids, parent : Ids,
                            pgdir : AllPages \cup {NULL}]]
      /\ env_free_list \in Seq(Slot) /\ next_env_id \in 0 .. NENV
      /\ curenv \in Slot \cup {NULL}
  BY <1>0 DEF EnvTypeOK
<1> DEFINE s == freeing
           e == [envs[s] EXCEPT !.status = ENV_FREE]
           f == [e EXCEPT !.pgdir = NULL]
<1>1. /\ s \in Live /\ s \in Slot /\ env_pgdir = envs[s].pgdir
      /\ env_pgdir \in dirs /\ env_pgdir # boot_pgdir
  BY FreeingFacts DEF FreeDirectory, env_pgdir
<1>2. /\ envs' = [envs EXCEPT ![s].status = ENV_FREE, ![s].pgdir = NULL]
      /\ env_free_list' = <<s>> \o env_free_list /\ halted' = TRUE
      /\ dirs' = dirs \ {env_pgdir}
      /\ UNCHANGED <<next_env_id, curenv, freeing>>
  BY DEF FreeDirectory, KeepTheRest
<1>e. /\ e \in [status : {ENV_FREE, ENV_RUNNABLE}, id : Ids, parent : Ids,
                pgdir : AllPages \cup {NULL}]
      /\ e.status = ENV_FREE
  BY <1>t, <1>1
<1> HIDE DEF e
<1>f. /\ f \in [status : {ENV_FREE, ENV_RUNNABLE}, id : Ids, parent : Ids,
                pgdir : AllPages \cup {NULL}]
      /\ f.status = ENV_FREE
  BY <1>e
<1>3. envs'[s] = f /\ \A r \in Slot : r # s => envs'[r] = envs[r]
  BY <1>t, <1>1, <1>2 DEF e
<1>4. envs' \in [Slot -> [status : {ENV_FREE, ENV_RUNNABLE}, id : Ids, parent : Ids,
                          pgdir : AllPages \cup {NULL}]]
  <2>1. DOMAIN envs' = Slot /\ envs' = [r \in Slot |-> envs'[r]]
    BY <1>t, <1>2
  <2> HIDE DEF f
  <2> QED
    BY <1>f, <1>t, <1>3, <2>1
<1> HIDE DEF f, s
<1>5. Live' = Live \ {s}
  BY <1>1, <1>3, <1>f DEF Live
<1>6. /\ Once(env_free_list) /\ Members(env_free_list) = Slot \ Live
  BY <1>0 DEF SlotsExact, Once, Members
<1>7. /\ env_free_list' \in Seq(Slot) /\ Once(env_free_list')
      /\ Members(env_free_list') = Members(env_free_list) \cup {s}
  BY <1>1, <1>2, <1>6, <1>t, HeadPut
<1>8. EnvTypeOK'
  BY <1>4, <1>7, <1>2, <1>t, <1>1 DEF EnvTypeOK, s
<1>9. \A r \in Live' : r \in Live /\ r # s /\ envs'[r] = envs[r]
  BY <1>3, <1>5 DEF Live
<1>10. SlotsExact'
  <2>1. Members(env_free_list') = Slot \ Live'
    BY <1>1, <1>5, <1>6, <1>7
  <2>2. \A r, q \in Live' : envs'[r].pgdir = envs'[q].pgdir => r = q
    BY <1>0, <1>9 DEF SlotsExact
  <2>3. dirs' = {boot_pgdir} \cup {envs'[r].pgdir : r \in Live'}
    <3>1. ASSUME NEW r \in Live' PROVE envs'[r].pgdir \in dirs /\ envs'[r].pgdir # env_pgdir
      BY <1>0, <1>1, <1>9, <3>1 DEF SlotsExact
    <3>2. ASSUME NEW d \in dirs, d # env_pgdir, d # boot_pgdir
          PROVE  \E r \in Live' : d = envs'[r].pgdir
      <4>1. PICK r \in Live : d = envs[r].pgdir
        BY <1>0, <3>2 DEF SlotsExact
      <4>2. r # s
        BY <1>1, <3>2, <4>1
      <4>3. r \in Live'
        BY <1>5, <4>2
      <4> QED
        BY <1>9, <4>1, <4>3
    <3>3. boot_pgdir \in dirs
      BY <1>0 DEF SlotsExact
    <3> DEFINE R == {envs'[r].pgdir : r \in Live'}
    <3>4. R \subseteq dirs /\ env_pgdir \notin R
      BY <3>1
    <3>5. \A d \in dirs : d = env_pgdir \/ d = boot_pgdir \/ d \in R
      BY <3>2
    <3> HIDE DEF R
    <3>6. dirs \ {env_pgdir} = {boot_pgdir} \cup R
      BY <1>1, <3>3, <3>4, <3>5
    <3> QED
      BY <1>2, <3>6 DEF R
  <2>4. boot_pgdir' = boot_pgdir
    BY DEF boot_pgdir
  <2> QED
    BY <1>7, <2>1, <2>2, <2>3, <2>4 DEF SlotsExact, Once, Members
<1>11. \A r \in Live' : envs'[r].pgdir \in Page
  BY <1>0, <1>9
<1>12. \A r \in Live' : \E k \in 1 .. next_env_id' : envs'[r].id = k * 2 * NENV + r
  BY <1>0, <1>2, <1>9
<1> QED
  BY <1>2, <1>8, <1>10, <1>11, <1>12 DEF TableInv

LEMMA TableStep == EnvIInv /\ [EnvNext]_<<vars, evars>> => TableInv'
<1> SUFFICES ASSUME EnvIInv, [EnvNext]_<<vars, evars>> PROVE TableInv'
  OBVIOUS
<1>n. NULL \notin Slot /\ ENV_FREE # ENV_RUNNABLE
  BY EnvSysAssumption
<1>0. /\ TableInv /\ curenv \in Slot \cup {NULL} /\ freeing \in Slot \cup {NULL}
      /\ freeing \in Live \cup {NULL} \/ halted
      /\ Live \subseteq Slot
  BY DEF EnvIInv, TableInv, EnvTypeOK, Live
<1>1. CASE Alloc
  BY <1>1, AllocTable
<1>2. CASE Run
  <2>1. PICK s \in Slot :
          /\ freeing = NULL /\ envs[s].status # ENV_FREE /\ EnvRun /\ curenv' = s
          /\ envs' = [envs EXCEPT ![s].status = ENV_RUNNABLE]
          /\ UNCHANGED <<env_free_list, next_env_id, freeing>>
    BY <1>2 DEF Run
  <2>2. UNCHANGED <<dirs, halted>>
    BY <2>1 DEF EnvRun
  <2>3. /\ envs \in [Slot -> [status : {ENV_FREE, ENV_RUNNABLE}, id : Ids, parent : Ids,
                              pgdir : AllPages \cup {NULL}]]
    BY <1>0 DEF TableInv, EnvTypeOK
  <2>4. /\ envs' \in [Slot -> [status : {ENV_FREE, ENV_RUNNABLE}, id : Ids, parent : Ids,
                               pgdir : AllPages \cup {NULL}]]
        /\ \A r \in Slot : /\ envs'[r].id = envs[r].id /\ envs'[r].pgdir = envs[r].pgdir
                           /\ envs'[r].status = ENV_FREE <=> envs[r].status = ENV_FREE
    BY <1>n, <2>1, <2>3
  <2>5. Live' = Live
    BY <2>4 DEF Live
  <2>6. EnvTypeOK'
    BY <1>0, <2>1, <2>4 DEF TableInv, EnvTypeOK
  <2>7. \A r \in Live : envs'[r].id = envs[r].id /\ envs'[r].pgdir = envs[r].pgdir
    BY <1>0, <2>4
  <2>8. SlotsExact'
    <3>1. {envs'[r].pgdir : r \in Live} = {envs[r].pgdir : r \in Live}
      BY <2>7
    <3>2. \A r, q \in Live : envs'[r].pgdir = envs'[q].pgdir => r = q
      BY <1>0, <2>7 DEF TableInv, SlotsExact
    <3>3. boot_pgdir' = boot_pgdir
      BY DEF boot_pgdir
    <3> QED
      BY <1>0, <2>1, <2>2, <2>5, <3>1, <3>2, <3>3 DEF TableInv, SlotsExact
  <2> QED
    BY <1>0, <2>1, <2>2, <2>5, <2>6, <2>7, <2>8 DEF TableInv
<1>3. CASE CheckPerm
  <2>1. /\ UNCHANGED <<envs, env_free_list, next_env_id, dirs, curenv, freeing>>
        /\ ~halted /\ freeing = NULL
    BY <1>3 DEF CheckPerm, Ready, evars
  <2> QED
    BY <1>0, <2>1, TableKept
<1>4. CASE \E s \in Slot : EnvFree(s)
  <2>1. /\ UNCHANGED <<envs, env_free_list, next_env_id, dirs, curenv, halted>>
        /\ freeing' \in Live
    BY <1>4 DEF EnvFree, vars, Live
  <2> QED
    BY <1>0, <2>1, TableKept
<1>5. CASE FreePage
  BY <1>5, <1>0, FreePageFacts, TableKept
<1>6. CASE FreeTable
  BY <1>6, <1>0, FreeTableFacts, TableKept
<1>7. CASE FreeDirectory
  BY <1>7, FreeTableOfEnvs
<1>8. CASE PageOp
  <2>1. /\ UNCHANGED <<envs, env_free_list, next_env_id, curenv, freeing>>
        /\ freeing = NULL
    BY <1>8 DEF PageOp, evars
  <2>2. dirs' = dirs /\ (halted => halted')
    BY <1>8 DEF PageOp, PageAlloc, PageFree, PageInsert, PageRemove, TlbMiss, UserStore,
                RefillLoad, RefillPageout, Ready
  <2> QED
    BY <1>0, <2>1, <2>2, TableKept
<1>9. CASE Panicked \/ UNCHANGED <<vars, evars>>
  <2>1. UNCHANGED <<envs, env_free_list, next_env_id, dirs, curenv, freeing, halted>>
    BY <1>9 DEF Panicked, PanicLoop, vars, evars
  <2> QED
    BY <1>0, <2>1, TableKept
<1> QED
  BY <1>1, <1>2, <1>3, <1>4, <1>5, <1>6, <1>7, <1>8, <1>9 DEF EnvNext, Destroy

LEMMA EnvInvariant == EnvSpec => []EnvIInv
<1> QED
  BY EnvInitInv, MemStep, TableStep, PTL DEF EnvSpec, EnvIInv

-----------------------------------------------------------------------------
(***************************************************************************)
(* What follows from it.                                                   *)
(***************************************************************************)

\* The fields of struct Env and the statics of env.c keep their types; an id
\* stays within the range mkenvid's counter can reach with NENV slots.
THEOREM EnvTypeCorrect == EnvSpec => []EnvTypeOK
<1>1. EnvIInv => EnvTypeOK
  BY DEF EnvIInv, TableInv
<1> QED
  BY <1>1, EnvInvariant, PTL

\* env_free_list holds each free slot once, each live slot has its own directory,
\* and there are no other directories: also after env_alloc found no page, and
\* after each step of env_free (env_init, env_alloc, env_free).
THEOREM SlotsCorrect == EnvSpec => []SlotsExact
<1>1. EnvIInv => SlotsExact
  BY DEF EnvIInv, TableInv
<1> QED
  BY <1>1, EnvInvariant, PTL

\* envid2env finds each live environment under its id and nothing under any
\* other: mkenvid and ENVX are inverse for every NENV.  With checkperm it finds
\* the running one and its children.
THEOREM IdsCorrect == EnvSpec => []IdsResolve
<1>1. ASSUME EnvIInv PROVE IdsResolve
  <2>n. NENV \in Nat \ {0} /\ next_env_id \in 0 .. NENV
    BY <1>1, PmapSysAssumption, EnvSysAssumption DEF EnvIInv, TableInv, EnvTypeOK
  <2>1. ASSUME NEW s \in Live PROVE envid2env(envs[s].id) = s
    <3>1. PICK k \in 1 .. next_env_id : envs[s].id = k * 2 * NENV + s
      BY <1>1, <2>1 DEF EnvIInv, TableInv
    <3>2. k \in 1 .. NENV /\ s \in Slot /\ envs[s].status # ENV_FREE
      BY <2>n, <2>1 DEF Live
    <3>3. envs[s].id # 0 /\ ENVX(envs[s].id) = s
      BY <3>1, <3>2, IdFacts
    <3> QED
      BY <3>2, <3>3 DEF envid2env
  <2>3. ASSUME curenv # NULL, NEW s \in Live
        PROVE  envid2env_perm(envs[s].id) =
                 IF s = curenv \/ envs[s].parent = envs[curenv].id THEN s ELSE NULL
    <3>1. envid2env(envs[s].id) = s /\ s # NULL
      BY <2>1, <2>3, EnvSysAssumption DEF Live
    <3>2. envs[s].id = 0 => s = curenv
      BY <3>1 DEF envid2env
    <3> QED
      BY <3>1, <3>2 DEF envid2env_perm
  <2>2. ASSUME NEW id \in Ids \ {0}, envid2env(id) # NULL
        PROVE  \E s \in Live : envs[s].id = id
    <3>1. ENVX(id) \in Slot
      <4>1. id \in Nat
        BY DEF Ids
      <4>2. \A n \in Nat : n % NENV \in 0 .. NENV - 1
        BY <2>n
      <4> QED
        BY <4>1, <4>2 DEF ENVX, Slot
    <3>2. envs[ENVX(id)].status # ENV_FREE /\ envs[ENVX(id)].id = id
      BY <2>2 DEF envid2env
    <3> QED
      BY <3>1, <3>2 DEF Live
  <2> QED
    BY <2>1, <2>2, <2>3 DEF IdsResolve
<1> QED
  BY <1>1, EnvInvariant, PTL

\* Through every turn of env_free's loops pp_ref and page_free_list are exact: what
\* the environment had goes back, and a page another one maps stays with it.
THEOREM EnvMemoryCorrect == EnvSpec => []MemoryExact
<1>1. EnvIInv => MemoryExact
  BY DEF EnvIInv, MemInv, Good, ListExact, CountExact, Freed, MemoryExact, FreeListExact,
         FreeSet, RefCountExact, Pointers
<1> QED
  BY <1>1, EnvInvariant, PTL

\* What the refill handler loads is what pgdir_walk and page_lookup find.
LEMMA TranslationIs ==
  ASSUME NEW x, NEW D, NEW H, NEW P, Good(x, D, H, P), NEW d \in D, NEW va \in Va
  PROVE  /\ (IF refill_finds(x, d, va) THEN page_lookup(x, d, va) ELSE Zero)
              = page_lookup(x, d, va)
         /\ page_lookup(x, d, va) # Zero =>
              page_lookup(x, d, va).pg \in data_pages(x, D) /\ page_lookup(x, d, va).pg \in Page
<1>1. refill_finds(x, d, va) <=> page_lookup(x, d, va) # Zero
  BY Lookup
<1>2. ASSUME page_lookup(x, d, va) # Zero PROVE page_lookup(x, d, va).pg \in data_pages(x, D)
  <2>1. walk(x, d, va) \in tables(x, D) \X Idx
    BY <1>2, Lookup
  <2> QED
    BY <1>2, <2>1 DEF page_lookup, data_pages
<1>3. data_pages(x, D) \subseteq Page
  BY LiveType DEF Good, Sets
<1> QED
  BY <1>1, <1>2, <1>3

\* Making and freeing an environment leaves the maps and the pages of the others
\* alone, at each step of env_alloc and env_free: a table or page that is freed is
\* in no other environment's reach, and a new directory is nobody's page.
THEOREM OthersCorrect == EnvSpec => OthersKeepMemory
<1> DEFINE A == freeing # NULL \/ dirs' # dirs =>
       \A d \in dirs \cap dirs', va \in Va : (freeing # NULL => d # env_pgdir) =>
         /\ Translation(d, va)' = Translation(d, va)
         /\ Translation(d, va) # Zero =>
              m'.mem[Translation(d, va).pg] = m.mem[Translation(d, va).pg]
<1>1. ASSUME EnvIInv, EnvIInv', [EnvNext]_<<vars, evars>> PROVE A
  <2> SUFFICES ASSUME freeing # NULL \/ dirs' # dirs,
                      NEW d \in dirs, d \in dirs', NEW va \in Va, freeing # NULL => d # env_pgdir
               PROVE  /\ Translation(d, va)' = Translation(d, va)
                      /\ Translation(d, va) # Zero =>
                           m'.mem[Translation(d, va).pg] = m.mem[Translation(d, va).pg]
    OBVIOUS
  <2> DEFINE w == page_lookup(m, d, va)
  <2>g. Good(m, dirs, held, pinned) /\ Good(m', dirs', held', pinned')
    BY <1>1 DEF EnvIInv, MemInv
  <2>t. /\ Translation(d, va) = w /\ Translation(d, va)' = page_lookup(m', d, va)
        /\ w # Zero => w.pg \in data_pages(m, dirs) /\ w.pg \in AllPages
    BY <2>g, TranslationIs, PageFacts DEF Translation
  <2> SUFFICES page_lookup(m', d, va) = w /\ (w # Zero => m'.mem[w.pg] = m.mem[w.pg])
    BY <2>t
  <2> HIDE DEF w
  <2>f. data_pages(m, dirs) \cap (dirs \cup tables(m, dirs)) = {}
    BY <2>g DEF Good, Forest
  <2>1. CASE Alloc
    <3>1. EnvSetupVm /\ freeing = NULL
      BY <2>1 DEF Alloc, EnvAlloc
    <3>2. ~page_alloc_fails(m)
      BY <3>1 DEF EnvSetupVm
    <3> DEFINE p == page_alloc_pp(m)
    <3>3. /\ p \notin data_pages(m, dirs)
          /\ page_lookup(m', d, va) = page_lookup(m, d, va)
          /\ \A q \in AllPages : q # p => m'.mem[q] = m.mem[q]
      BY <1>1, <3>1, <3>2, AllocFacts
    <3> QED
      BY <2>t, <3>3 DEF w
  <2>2. CASE FreePage
    <3>1. /\ page_lookup(m', d, va) = page_lookup(m, d, va)
          /\ \A q \in AllPages \ tables(m, dirs) : m'.mem[q] = m.mem[q]
      BY <1>1, <2>2, FreePageFacts DEF Freeing
    <3> QED
      BY <2>t, <2>f, <3>1 DEF w
  <2>3. CASE FreeTable
    <3>1. /\ page_lookup(m', d, va) = page_lookup(m, d, va)
          /\ \A q \in AllPages : q # env_pgdir => m'.mem[q] = m.mem[q]
      BY <1>1, <2>3, FreeTableFacts DEF Freeing
    <3>2. env_pgdir \in dirs
      BY <1>1, <2>3, FreeTableFacts, FreeingFacts
    <3> QED
      BY <2>t, <2>f, <3>1, <3>2 DEF w
  <2>4. CASE FreeDirectory
    <3>1. m'.mem = m.mem
      BY <1>1, <2>4, FreeDirectoryFacts
    <3> QED
      BY <3>1, SameMem DEF w
  <2>5. CASE Run \/ CheckPerm \/ (\E s \in Slot : EnvFree(s)) \/ PageOp
    <3>1. freeing = NULL
      BY <2>5 DEF Run, CheckPerm, EnvFree, PageOp
    <3>2. dirs' = dirs
      <4>1. CASE Run
        BY <4>1 DEF Run, EnvRun
      <4>2. CASE CheckPerm
        BY <4>2 DEF CheckPerm
      <4>3. CASE \E s \in Slot : EnvFree(s)
        BY <4>3 DEF EnvFree, vars
      <4>4. CASE PageOp
        BY <4>4 DEF PageOp, PageAlloc, PageFree, PageInsert, PageRemove, TlbMiss, UserStore,
                    RefillLoad, RefillPageout
      <4> QED
        BY <2>5, <4>1, <4>2, <4>3, <4>4
    <3> QED
      BY <3>1, <3>2
  <2>6. CASE Panicked \/ UNCHANGED <<vars, evars>>
    <3>1. m' = m
      BY <2>6 DEF Panicked, PanicLoop, vars
    <3> QED
      BY <3>1 DEF w
  <2> QED
    BY <1>1, <2>1, <2>2, <2>3, <2>4, <2>5, <2>6 DEF EnvNext, Destroy
<1>2. EnvIInv /\ EnvIInv' /\ [EnvNext]_<<vars, evars>> => [A]_<<vars, evars>>
  BY <1>1
<1>3. EnvSpec => [][EnvNext]_<<vars, evars>>
  BY DEF EnvSpec
<1> QED
  BY <1>2, <1>3, EnvInvariant, PTL DEF OthersKeepMemory
=============================================================================
