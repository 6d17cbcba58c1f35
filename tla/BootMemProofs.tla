---------------------------- MODULE BootMemProofs ----------------------------
(***************************************************************************)
(* Boot, for every size of a page, every memory and every end of the       *)
(* kernel image: alloc's chunks lie apart, the maps of UPAGES and UENVS    *)
(* are exact, and the page allocator starts with just the pages nobody     *)
(* uses.                                                                   *)
(*                                                                         *)
(* ChunksApart is not inductive: that a new chunk shares no page with an   *)
(* older one needs freemem to be past every chunk, and that a turn of      *)
(* boot_map_segment writes in its own table only needs to know what the    *)
(* directory holds.  The invariant has a part for the chunks, a part for   *)
(* the directory and its two tables, as far as they are filled, and a part *)
(* for page_init.                                                          *)
(***************************************************************************)
EXTENDS BootMem, SequenceTheorems, TLAPS

Chunk(at, n) == [at |-> at, n |-> n]

\* The pages in use below freemem: of the image, or of a chunk.
Used == {PPN(a) : a \in 0 .. machine.end - 1}
          \cup {PPN(a) : a \in UNION {Words(ch) : ch \in chunks}}

\* The chunks, in the order of their addresses, up to freemem.
ChunkInv ==
  /\ pc = "pgdir" <=> freemem = 0
  /\ freemem = 0 => chunks = {}
  /\ freemem # 0 => machine.end <= freemem
  /\ \A ch \in chunks : /\ ch = Chunk(ch.at, ch.n) /\ ch.at \in Nat /\ ch.n \in Nat \ {0}
                        /\ ch.at % BY2PG = 0 /\ machine.end <= ch.at
                        /\ ch.at + ch.n <= freemem
  /\ \A c, d \in chunks : c = d \/ c.at + c.n <= d.at \/ d.at + d.n <= c.at
  /\ \A p \in 0 .. npage - 1 : p * BY2PG < freemem => p \in Used
  /\ \A a \in Addr : a < machine.end => mem[a] = Image
  /\ pc # "panic" => IF pc \in {"init", "done"} THEN freemem <= maxpa ELSE freemem < maxpa

\* How far the table of a region is filled, when `doing' is where it is filled
\* and `before' are the places before that.
Filled(before, doing, n) ==
  IF pc \in before THEN 0 ELSE IF pc = doing THEN i ELSE ROUND(n, BY2PG)
PagesFilled == Filled({"pgdir", "pages"}, "map pages", npage * SizeofPage)
EnvsFilled  == Filled({"pgdir", "pages", "map pages", "envs"}, "map envs", machine.envs)

\* Entry pdx of the directory dir, and the table behind it, one of the chunks
\* chs: the first pages of the region at `at', up to `filled'.
Table(words, dir, chs, pdx, at, filled) ==
  LET e == words[dir + pdx]
  IN  IF filled = 0 THEN e = Zero
      ELSE /\ e = Entry(e.pa, {}) /\ Chunk(e.pa, BY2PG) \in chs /\ e.pa # dir
           /\ \A j \in 0 .. BY2PG - 1 :
                words[e.pa + j] = IF j * BY2PG < filled THEN Entry(at + j * BY2PG, {"PTE_R"})
                                  ELSE Zero

MapInv ==
  pc \notin {"pgdir", "panic"} =>
    /\ Chunk(boot_pgdir, BY2PG) \in chunks
    /\ \A k \in 0 .. BY2PG - 1 : k \notin {UPAGES, UENVS} => mem[boot_pgdir + k] = Zero
    /\ Table(mem, boot_pgdir, chunks, UPAGES, pages, PagesFilled)
    /\ Table(mem, boot_pgdir, chunks, UENVS, envs, EnvsFilled)
    /\ PagesFilled % BY2PG = 0 /\ PagesFilled <= ROUND(npage * SizeofPage, BY2PG)
    /\ EnvsFilled % BY2PG = 0 /\ EnvsFilled <= ROUND(machine.envs, BY2PG)
    /\ PagesFilled # 0 /\ EnvsFilled # 0 =>
         mem[boot_pgdir + UPAGES].pa # mem[boot_pgdir + UENVS].pa

\* page_init has done the pages below i.
InitInv ==
  IF pc \in {"init", "done"}
  THEN /\ i <= npage /\ freemem % BY2PG = 0 /\ (pc = "done" => i = npage)
       /\ pp_ref = [p \in 0 .. npage - 1 |-> IF p < i /\ p < PPN(freemem) THEN 1 ELSE 0]
       /\ free = [k \in 1 .. (IF i <= PPN(freemem) THEN 0 ELSE i - PPN(freemem)) |-> i - k]
  ELSE pp_ref = [p \in 0 .. npage - 1 |-> 0] /\ free = << >>

BInv == BootTypeOK /\ ChunkInv /\ MapInv /\ InitInv

-----------------------------------------------------------------------------
(***************************************************************************)
(* Pages and their multiples.                                              *)
(***************************************************************************)

LEMMA DivMod ==
  ASSUME NEW n \in Nat, NEW b \in Nat \ {0}
  PROVE  n = b * (n \div b) + (n % b) /\ n % b \in 0 .. b - 1 /\ n \div b \in Nat
BY SMTT(30)

LEMMA Unique ==
  ASSUME NEW b \in Nat \ {0}, NEW q \in Nat, NEW r \in 0 .. b - 1
  PROVE  (q * b + r) % b = r /\ (q * b + r) \div b = q
<1> DEFINE n == q * b + r
<1>1. n \in Nat
  BY Z3
<1>2. n = b * (n \div b) + (n % b) /\ n % b \in 0 .. b - 1 /\ n \div b \in Int
  BY <1>1, SMTT(30)
<1> QED
  BY <1>1, <1>2, SMTT(30)

LEMMA Multiple ==
  ASSUME NEW x \in Nat
  PROVE  /\ PPN(x) \in Nat /\ PPN(x) * BY2PG <= x /\ x < PPN(x) * BY2PG + BY2PG
         /\ x % BY2PG = 0 <=> x = PPN(x) * BY2PG
         /\ x * BY2PG \in Nat /\ (x * BY2PG) % BY2PG = 0 /\ PPN(x * BY2PG) = x
<1>b. BY2PG \in Nat \ {0}
  BY BootMemAssumption
<1> DEFINE q == x \div BY2PG
           r == x % BY2PG
<1>1. x = BY2PG * q + r /\ r \in 0 .. BY2PG - 1 /\ q \in Nat
  BY <1>b, DivMod
<1>2. BY2PG * q = q * BY2PG /\ q * BY2PG \in Nat
  BY <1>b, <1>1, Z3
<1>3. PPN(x) = q
  BY DEF PPN
<1>4. x * BY2PG \in Nat
  BY <1>b, Z3
<1>5. (x * BY2PG + 0) % BY2PG = 0 /\ (x * BY2PG + 0) \div BY2PG = x
  BY <1>b, Unique
<1>6. x * BY2PG + 0 = x * BY2PG
  BY <1>4
<1>7. (x * BY2PG) % BY2PG = 0 /\ PPN(x * BY2PG) = x
  BY <1>5, <1>6 DEF PPN
<1> HIDE DEF q, r
<1>8. q * BY2PG <= x /\ x < q * BY2PG + BY2PG /\ (r = 0 <=> x = q * BY2PG)
  BY <1>b, <1>1, <1>2
<1> QED
  BY <1>1, <1>3, <1>4, <1>7, <1>8 DEF q, r

LEMMA TimesLess ==
  ASSUME NEW p \in Nat, NEW q \in Nat
  PROVE  /\ p < q <=> p * BY2PG < q * BY2PG
         /\ p < q => p * BY2PG + BY2PG <= q * BY2PG
         /\ p * BY2PG \in Nat /\ q * BY2PG \in Nat
<1>b. BY2PG \in Nat /\ 0 < BY2PG
  BY BootMemAssumption
<1>1. p * BY2PG \in Nat /\ q * BY2PG \in Nat
  BY <1>b, Z3
<1>2. ASSUME p < q PROVE p * BY2PG + BY2PG <= q * BY2PG
  <2>1. p + 1 <= q
    BY <1>2
  <2>2. (p + 1) * BY2PG <= q * BY2PG
    BY <1>b, <2>1, Z3
  <2>3. (p + 1) * BY2PG = p * BY2PG + BY2PG
    BY <1>b, Z3
  <2> QED
    BY <2>2, <2>3
<1>3. ASSUME q <= p PROVE q * BY2PG <= p * BY2PG
  BY <1>b, <1>3, Z3
<1> QED
  BY <1>b, <1>1, <1>2, <1>3

\* Multiples of BY2PG are BY2PG apart.
LEMMA MultipleLess ==
  ASSUME NEW x \in Nat, NEW y \in Nat, x % BY2PG = 0, y % BY2PG = 0, x < y
  PROVE  x + BY2PG <= y
<1>1. /\ x = PPN(x) * BY2PG /\ y = PPN(y) * BY2PG /\ PPN(x) \in Nat /\ PPN(y) \in Nat
  BY Multiple
<1> QED
  BY <1>1, TimesLess

LEMMA MultipleNext ==
  ASSUME NEW x \in Nat, x % BY2PG = 0
  PROVE  (x + BY2PG) % BY2PG = 0 /\ x + BY2PG \in Nat /\ PPN(x + BY2PG) = PPN(x) + 1
<1>b. BY2PG \in Nat /\ 0 < BY2PG
  BY BootMemAssumption
<1>1. x = PPN(x) * BY2PG /\ PPN(x) \in Nat
  BY Multiple
<1> DEFINE q == PPN(x)
<1> HIDE DEF q
<1>2. q \in Nat /\ x = q * BY2PG
  BY <1>1 DEF q
<1>3. x + BY2PG = (q + 1) * BY2PG
  BY <1>b, <1>2, Z3
<1>4. ((q + 1) * BY2PG) % BY2PG = 0 /\ PPN((q + 1) * BY2PG) = q + 1
  BY <1>2, Multiple
<1> QED
  BY <1>b, <1>3, <1>4 DEF q

\* The page of an address, against an address where a page begins.
LEMMA PageLess ==
  ASSUME NEW a \in Nat, NEW x \in Nat, x % BY2PG = 0
  PROVE  a < x <=> PPN(a) < PPN(x)
<1>b. BY2PG \in Nat /\ 0 < BY2PG
  BY BootMemAssumption
<1>1. /\ x = PPN(x) * BY2PG /\ PPN(x) \in Nat /\ PPN(a) \in Nat
      /\ PPN(a) * BY2PG <= a /\ a < PPN(a) * BY2PG + BY2PG
  BY Multiple
<1>2. /\ PPN(a) < PPN(x) <=> PPN(a) * BY2PG < PPN(x) * BY2PG
      /\ PPN(a) < PPN(x) => PPN(a) * BY2PG + BY2PG <= PPN(x) * BY2PG
      /\ PPN(a) * BY2PG \in Nat
  BY <1>1, TimesLess
<1> DEFINE s == PPN(a) * BY2PG
<1> HIDE DEF s
<1>3. /\ x = PPN(x) * BY2PG /\ s <= a /\ a < s + BY2PG /\ s \in Nat
      /\ PPN(a) < PPN(x) <=> s < x
      /\ PPN(a) < PPN(x) => s + BY2PG <= x
  BY <1>1, <1>2 DEF s
<1> QED
  BY <1>b, <1>3

LEMMA RoundFacts ==
  ASSUME NEW n \in Nat
  PROVE  LET r == ROUND(n, BY2PG) IN
         r \in Nat /\ r % BY2PG = 0 /\ n <= r /\ r < n + BY2PG
<1>b. BY2PG \in Nat /\ 0 < BY2PG
  BY BootMemAssumption
<1> DEFINE x == n + BY2PG - 1
           q == x \div BY2PG
<1>1. x \in Nat
  BY <1>b
<1>2. PPN(x) = q /\ ROUND(n, BY2PG) = q * BY2PG
  BY DEF PPN, ROUND
<1>3. q \in Nat /\ q * BY2PG <= x /\ x < q * BY2PG + BY2PG
  BY <1>1, <1>2, Multiple
<1>4. q * BY2PG \in Nat /\ (q * BY2PG) % BY2PG = 0
  BY <1>3, Multiple
<1> HIDE DEF q
<1>5. n <= q * BY2PG /\ q * BY2PG < n + BY2PG
  <2> DEFINE s == q * BY2PG
  <2>1. s \in Nat /\ s <= n + BY2PG - 1 /\ n + BY2PG - 1 < s + BY2PG
    BY <1>3, <1>4
  <2> HIDE DEF s
  <2>2. n <= s /\ s < n + BY2PG
    BY <1>b, <2>1
  <2> QED
    BY <2>2 DEF s
<1> QED
  BY <1>2, <1>4, <1>5

\* Below the end of a region, page by page, are the entries of one table.
LEMMA OneTable ==
  ASSUME NEW n \in 1 .. BY2PG * BY2PG, NEW x \in Nat, x % BY2PG = 0, x < ROUND(n, BY2PG)
  PROVE  /\ PPN(x) \in 0 .. BY2PG - 1 /\ PPN(x) \div BY2PG = 0 /\ PPN(x) % BY2PG = PPN(x)
         /\ x = PPN(x) * BY2PG
<1>b. BY2PG \in Nat /\ 0 < BY2PG
  BY BootMemAssumption
<1>0. BY2PG * BY2PG \in Nat /\ n \in Nat /\ n <= BY2PG * BY2PG
  BY <1>b, Z3
<1>1. ROUND(n, BY2PG) \in Nat /\ ROUND(n, BY2PG) % BY2PG = 0 /\ ROUND(n, BY2PG) < n + BY2PG
  BY <1>0, RoundFacts
<1>2. (BY2PG * BY2PG) % BY2PG = 0 /\ PPN(BY2PG * BY2PG) = BY2PG
  BY <1>b, Multiple
<1>3. x < n
  <2>1. x + BY2PG <= ROUND(n, BY2PG)
    BY <1>1, MultipleLess
  <2> QED
    BY <1>b, <1>0, <1>1, <2>1
<1>4. x < BY2PG * BY2PG
  BY <1>0, <1>3
<1>5. PPN(x) < BY2PG /\ PPN(x) \in Nat /\ x = PPN(x) * BY2PG
  BY <1>0, <1>2, <1>4, PageLess, Multiple
<1>6. PPN(x) \in 0 .. BY2PG - 1
  BY <1>b, <1>5
<1>7. (0 * BY2PG + PPN(x)) % BY2PG = PPN(x) /\ (0 * BY2PG + PPN(x)) \div BY2PG = 0
  <2>1. 0 \in Nat /\ BY2PG \in Nat \ {0}
    BY <1>b
  <2> QED
    BY <1>6, <2>1, Unique
<1>8. 0 * BY2PG + PPN(x) = PPN(x)
  BY <1>b, <1>5
<1> QED
  BY <1>5, <1>6, <1>7, <1>8

-----------------------------------------------------------------------------
(***************************************************************************)
(* alloc.                                                                  *)
(***************************************************************************)

LEMMA MachineFacts ==
  ASSUME BootTypeOK
  PROVE  /\ machine \in Machines /\ npage \in 1 .. BY2PG * BY2PG
         /\ machine.envs \in 1 .. BY2PG * BY2PG
         /\ machine.end \in Nat /\ 0 < machine.end /\ machine.end < maxpa
         /\ npage \in Nat /\ maxpa \in Nat /\ maxpa % BY2PG = 0 /\ PPN(maxpa) = npage
         /\ machine.envs \in Nat \ {0} /\ npage \in Nat \ {0}
         /\ npage * SizeofPage = npage
<1>b. BY2PG \in Nat /\ 0 < BY2PG /\ BY2PG * BY2PG \in Nat
  <2>1. BY2PG \in Nat /\ 0 < BY2PG
    BY BootMemAssumption
  <2> QED
    BY <2>1, Z3
<1>1. /\ machine \in Machines /\ machine.npage \in 1 .. BY2PG * BY2PG
      /\ machine.envs \in 1 .. BY2PG * BY2PG /\ machine.end \in 1 .. machine.npage * BY2PG - 1
  BY BootMemAssumption DEF BootTypeOK
<1>2. machine.npage \in Nat
  BY <1>b, <1>1
<1>3. /\ machine.npage * BY2PG \in Nat /\ (machine.npage * BY2PG) % BY2PG = 0
      /\ PPN(machine.npage * BY2PG) = machine.npage
  BY <1>2, Multiple
<1> QED
  BY <1>b, <1>1, <1>2, <1>3 DEF npage, maxpa, SizeofPage

LEMMA AllocFacts ==
  ASSUME BootTypeOK, ChunkInv, NEW n \in Nat \ {0}
  PROVE  LET r == alloc(n, BY2PG, TRUE) IN
         /\ r.at \in Nat /\ r.at % BY2PG = 0 /\ machine.end <= r.at /\ freemem <= r.at
         /\ r.at < (IF freemem = 0 THEN machine.end ELSE freemem) + BY2PG
         /\ r.next = r.at + n /\ (r.oom <=> r.next >= maxpa)
         /\ DOMAIN r.mem = Addr
         /\ \A a \in Addr : r.mem[a] = IF a \in r.at .. r.at + n - 1 THEN Zero ELSE mem[a]
<1> DEFINE from == IF freemem = 0 THEN machine.end ELSE freemem
           at   == ROUND(from, BY2PG)
<1>0. freemem \in Nat /\ machine.end \in Nat
  BY MachineFacts DEF BootTypeOK
<1>1. from \in Nat /\ freemem <= from
  BY <1>0
<1>2. at \in Nat /\ at % BY2PG = 0 /\ from <= at /\ at < from + BY2PG
  BY <1>1, RoundFacts
<1>3. machine.end <= from
  BY <1>0 DEF ChunkInv
<1>4. DOMAIN mem = Addr
  BY DEF BootTypeOK
<1>5. bzero(mem, at, n) = [a \in Addr |-> IF a \in at .. at + n - 1 THEN Zero ELSE mem[a]]
  BY <1>4 DEF bzero
<1> DEFINE cleared == bzero(mem, at, n)
<1>6. DOMAIN cleared = Addr /\ \A a \in Addr : cleared[a] = IF a \in at .. at + n - 1 THEN Zero ELSE mem[a]
  BY <1>5
<1> DEFINE next == at + n
           oom  == next >= maxpa
<1> HIDE DEF at, cleared
<1> HIDE DEF next, oom
<1>7. /\ freemem <= at /\ machine.end <= at
      /\ at < (IF freemem = 0 THEN machine.end ELSE freemem) + BY2PG
  <2>1. from = IF freemem = 0 THEN machine.end ELSE freemem
    OBVIOUS
  <2> HIDE DEF from
  <2>2. freemem <= at /\ machine.end <= at /\ at < from + BY2PG
    BY <1>0, <1>1, <1>2, <1>3
  <2> QED
    BY <2>1, <2>2
<1> DEFINE r == alloc(n, BY2PG, TRUE)
<1>8. r.at = at /\ r.next = next /\ r.mem = cleared /\ r.oom = oom
  <2>1. r.at = at
    BY DEF alloc, at, cleared, next, oom, from
  <2>2. r.next = next
    BY DEF alloc, at, cleared, next, oom, from
  <2>3. r.mem = cleared
    BY DEF alloc, at, cleared, next, oom, from
  <2>4. r.oom = oom
    BY DEF alloc, at, cleared, next, oom, from
  <2> QED
    BY <2>1, <2>2, <2>3, <2>4
<1> HIDE DEF r
<1>9. /\ r.at \in Nat /\ r.at % BY2PG = 0 /\ machine.end <= r.at /\ freemem <= r.at
       /\ r.at < (IF freemem = 0 THEN machine.end ELSE freemem) + BY2PG
  BY <1>2, <1>7, <1>8
<1>10. r.next = r.at + n /\ (r.oom <=> r.next >= maxpa) /\ DOMAIN r.mem = Addr
  BY <1>6, <1>8 DEF next, oom
<1>11. \A a \in Addr : r.mem[a] = IF a \in r.at .. r.at + n - 1 THEN Zero ELSE mem[a]
  BY <1>6, <1>8
<1> QED
  BY <1>9, <1>10, <1>11 DEF r

\* A page in use is one with an address in the image or in a chunk.
LEMMA UsedForm ==
  ASSUME NEW p
  PROVE  p \in Used <=> \/ \E a \in 0 .. machine.end - 1 : p = PPN(a)
                        \/ \E ch \in chunks : \E a \in Words(ch) : p = PPN(a)
BY DEF Used

\* A step that calls alloc keeps the invariant of the chunks, if what else it
\* writes is not in the image.
LEMMA AllocChunks ==
  ASSUME BootTypeOK, ChunkInv, pc \notin {"panic", "init", "done"}, NEW n \in Nat \ {0},
         NEW next, next \notin {"pgdir", "panic", "init", "done"},
         Alloced(alloc(n, BY2PG, TRUE), n, next), machine' = machine,
         \A a \in Addr : a < machine.end => mem'[a] = Image
  PROVE  /\ ChunkInv'
         /\ pc' \in {next, "panic"} /\ freemem' \in Nat
         /\ \A ch \in chunks' : ch.at \in Nat /\ ch.n \in Nat \ {0}
<1>b. BY2PG \in Nat /\ 0 < BY2PG
  BY BootMemAssumption
<1> DEFINE r  == alloc(n, BY2PG, TRUE)
           at == r.at
           new == Chunk(at, n)
<1>1. /\ at \in Nat /\ at % BY2PG = 0 /\ machine.end <= at /\ freemem <= at
      /\ at < (IF freemem = 0 THEN machine.end ELSE freemem) + BY2PG
      /\ r.next = at + n /\ (r.oom <=> r.next >= maxpa)
  BY AllocFacts
<1>2. /\ freemem' = r.next /\ chunks' = chunks \cup {new}
      /\ pc' = IF r.oom THEN "panic" ELSE next
  BY DEF Alloced, Chunk
<1>m. /\ machine.end \in Nat /\ 0 < machine.end /\ npage \in Nat /\ maxpa \in Nat
      /\ maxpa' = maxpa /\ npage' = npage /\ Addr' = Addr /\ freemem \in Nat
  BY MachineFacts DEF maxpa, npage, Addr, BootTypeOK
<1> HIDE DEF r
<1>n. new.at = at /\ new.n = n /\ Words(new) = at .. at + n - 1
  BY DEF Chunk, Words
<1> HIDE DEF at, new
<1>3. freemem' = at + n /\ freemem' # 0 /\ pc' # "pgdir" /\ machine.end <= freemem'
      /\ pc' \in {next, "panic"}
  BY <1>1, <1>2, <1>m
<1>4. pc' # "panic" => freemem' < maxpa /\ pc' \notin {"init", "done"}
  BY <1>1, <1>2, <1>m, <1>3
<1>5. \A ch \in chunks' : /\ ch = Chunk(ch.at, ch.n) /\ ch.at \in Nat /\ ch.n \in Nat \ {0}
                          /\ ch.at % BY2PG = 0 /\ machine.end <= ch.at
                          /\ ch.at + ch.n <= freemem'
  <2>1. \A ch \in chunks : /\ ch = Chunk(ch.at, ch.n) /\ ch.at \in Nat /\ ch.n \in Nat \ {0}
                           /\ ch.at % BY2PG = 0 /\ machine.end <= ch.at
                           /\ ch.at + ch.n <= freemem
    BY DEF ChunkInv
  <2>2. new = Chunk(new.at, new.n)
    BY <1>n DEF new
  <2> SUFFICES ASSUME NEW ch \in chunks'
               PROVE  /\ ch = Chunk(ch.at, ch.n) /\ ch.at \in Nat /\ ch.n \in Nat \ {0}
                      /\ ch.at % BY2PG = 0 /\ machine.end <= ch.at
                      /\ ch.at + ch.n <= freemem'
    OBVIOUS
  <2>3. CASE ch \in chunks
    BY <1>1, <1>3, <1>m, <2>1, <2>3
  <2>4. CASE ch = new
    BY <1>1, <1>3, <1>n, <2>2, <2>4
  <2> QED
    BY <1>2, <2>3, <2>4
<1>6. \A c, d \in chunks' : c = d \/ c.at + c.n <= d.at \/ d.at + d.n <= c.at
  <2>1. \A ch \in chunks : ch.at \in Nat /\ ch.n \in Nat /\ ch.at + ch.n <= new.at
    BY <1>1, <1>m, <1>n DEF ChunkInv
  <2>2. \A c, d \in chunks : c = d \/ c.at + c.n <= d.at \/ d.at + d.n <= c.at
    BY DEF ChunkInv
  <2> QED
    BY <1>2, <2>1, <2>2
<1>7. ASSUME NEW p \in 0 .. npage - 1, p * BY2PG < freemem'
      PROVE  p \in Used'
  <2>u. p \in Used' <=> \/ \E a \in 0 .. machine.end - 1 : p = PPN(a)
                        \/ \E ch \in chunks' : \E a \in Words(ch) : p = PPN(a)
    BY DEF Used, Words, PPN
  <2> DEFINE x == p * BY2PG
  <2>1. x \in Nat /\ x % BY2PG = 0 /\ PPN(x) = p
    BY <1>m, Multiple
  <2>x. x < at + n
    BY <1>3, <1>7
  <2> HIDE DEF x
  <2>2. CASE at <= x
    <3>1. x \in Words(new) /\ new \in chunks'
      BY <1>1, <1>2, <1>n, <2>1, <2>2, <2>x
    <3> QED
      BY <2>1, <2>u, <3>1
  <2>3. CASE x < at
    <3>1. x + BY2PG <= at
      BY <1>1, <2>1, <2>3, MultipleLess
    <3>2. CASE freemem = 0
      <4>1. x \in 0 .. machine.end - 1
        BY <1>b, <1>1, <1>m, <2>1, <3>1, <3>2
      <4> QED
        BY <2>1, <2>u, <4>1
    <3>3. CASE freemem # 0
      <4>1. x < freemem
        BY <1>b, <1>1, <1>m, <2>1, <3>1, <3>3
      <4>2. p \in Used
        BY <4>1 DEF ChunkInv, x
      <4> QED
        BY <1>2, <2>u, <4>2, UsedForm
    <3> QED
      BY <3>2, <3>3
  <2> QED
    BY <1>1, <2>1, <2>2, <2>3
<1>8. \A a \in Addr' : a < machine'.end => mem'[a] = Image
  BY <1>m
<1> QED
  <2>1. ChunkInv'
    BY <1>3, <1>4, <1>5, <1>6, <1>7, <1>8, <1>m DEF ChunkInv
  <2> QED
    BY <1>1, <1>3, <1>5, <2>1

-----------------------------------------------------------------------------
(***************************************************************************)
(* The directory and its tables.                                           *)
(***************************************************************************)

LEMMA ChunkWords ==
  ASSUME BootTypeOK, ChunkInv, pc # "panic", NEW at, Chunk(at, BY2PG) \in chunks
  PROVE  /\ at \in Nat /\ machine.end <= at /\ at + BY2PG <= freemem /\ freemem <= maxpa
         /\ \A k \in 0 .. BY2PG - 1 : at + k \in Addr /\ at + k < freemem /\ machine.end <= at + k
<1>b. BY2PG \in Nat /\ 0 < BY2PG
  BY BootMemAssumption
<1>1. Chunk(at, BY2PG).at = at /\ Chunk(at, BY2PG).n = BY2PG
  BY DEF Chunk
<1>2. at \in Nat /\ machine.end <= at /\ at + BY2PG <= freemem
  BY <1>1 DEF ChunkInv
<1>3. freemem \in Nat /\ maxpa \in Nat /\ machine.end \in Nat
  BY MachineFacts DEF BootTypeOK
<1>4. freemem <= maxpa
  BY <1>3 DEF ChunkInv
<1> QED
  BY <1>b, <1>2, <1>3, <1>4 DEF Addr

LEMMA ApartChunks ==
  ASSUME BootTypeOK, ChunkInv, pc # "panic",
         NEW at, Chunk(at, BY2PG) \in chunks, NEW other, Chunk(other, BY2PG) \in chunks,
         at # other
  PROVE  \A j, k \in 0 .. BY2PG - 1 : at + j # other + k
<1>b. BY2PG \in Nat /\ 0 < BY2PG
  BY BootMemAssumption
<1>1. /\ Chunk(at, BY2PG).at = at /\ Chunk(at, BY2PG).n = BY2PG
      /\ Chunk(other, BY2PG).at = other /\ Chunk(other, BY2PG).n = BY2PG
  BY DEF Chunk
<1>2. at \in Nat /\ other \in Nat
  BY ChunkWords
<1>3. at + BY2PG <= other \/ other + BY2PG <= at
  BY <1>1 DEF ChunkInv
<1> QED
  BY <1>b, <1>2, <1>3

\* A table stays when its entry and its words do.
LEMMA TableKept ==
  ASSUME NEW words, NEW dir, NEW chs, NEW pdx, NEW at, NEW filled,
         Table(words, dir, chs, pdx, at, filled),
         NEW new, NEW more, chs \subseteq more, new[dir + pdx] = words[dir + pdx],
         filled # 0 => \A j \in 0 .. BY2PG - 1 :
                         new[words[dir + pdx].pa + j] = words[words[dir + pdx].pa + j]
  PROVE  Table(new, dir, more, pdx, at, filled)
BY DEF Table

\* An entry that points to a table is not Zero.
LEMMA EntryNotZero ==
  ASSUME NEW e, NEW pa, e = Entry(pa, {}) \/ e = Entry(pa, {"PTE_R"})
  PROVE  e # Zero /\ e.pa = pa
<1>1. e.pa = pa /\ (e.perm = {} \/ e.perm = {"PTE_R"})
  BY DEF Entry
<1>2. Zero.perm = {"zero"}
  BY DEF Zero, Entry
<1>3. "PTE_R" # "zero"
  OBVIOUS
<1> QED
  BY <1>1, <1>2, <1>3

\* Page i of the region joins those before it.
LEMMA TableGrows ==
  ASSUME NEW words, NEW dir, NEW chs, NEW pdx, NEW at, NEW filled \in Nat, filled % BY2PG = 0,
         PPN(filled) \in 0 .. BY2PG - 1, filled = PPN(filled) * BY2PG,
         NEW new, NEW pa,
         new[dir + pdx] = Entry(pa, {}), Chunk(pa, BY2PG) \in chs, pa # dir,
         \A j \in 0 .. BY2PG - 1 : j # PPN(filled) =>
           new[pa + j] = IF j * BY2PG < filled THEN Entry(at + j * BY2PG, {"PTE_R"}) ELSE Zero,
         new[pa + PPN(filled)] = Entry(at + filled, {"PTE_R"})
  PROVE  Table(new, dir, chs, pdx, at, filled + BY2PG)
<1>b. BY2PG \in Nat /\ 0 < BY2PG
  BY BootMemAssumption
<1>1. filled + BY2PG # 0
  BY <1>b
<1>2. Entry(pa, {}).pa = pa
  BY DEF Entry
<1>3. ASSUME NEW j \in 0 .. BY2PG - 1
      PROVE  new[pa + j] = IF j * BY2PG < filled + BY2PG THEN Entry(at + j * BY2PG, {"PTE_R"})
                           ELSE Zero
  <2>0. j \in Nat
    BY <1>b
  <2>1. j * BY2PG \in Nat /\ (j * BY2PG) % BY2PG = 0
    BY <2>0, Multiple
  <2>2. CASE j = PPN(filled)
    <3>1. j * BY2PG = filled
      BY <2>2
    <3>2. j * BY2PG < filled + BY2PG
      BY <1>b, <3>1
    <3> QED
      BY <2>2, <3>1, <3>2
  <2>3. CASE j # PPN(filled)
    <3>1. j * BY2PG # filled
      <4>1. PPN(j * BY2PG) = j
        BY <2>0, Multiple
      <4> QED
        BY <2>3, <4>1
    <3>2. j * BY2PG < filled + BY2PG <=> j * BY2PG < filled
      <4> DEFINE x == j * BY2PG
      <4>1. x \in Nat /\ x % BY2PG = 0 /\ x # filled
        BY <2>0, <2>1, <3>1
      <4> HIDE DEF x
      <4>2. x > filled => filled + BY2PG <= x
        BY <4>1, MultipleLess
      <4>3. x < filled + BY2PG <=> x < filled
        BY <1>b, <4>1, <4>2
      <4> QED
        BY <4>3 DEF x
    <3> QED
      BY <2>3, <3>2
  <2> QED
    BY <2>2, <2>3
<1> QED
  BY <1>1, <1>2, <1>3 DEF Table

\* A turn of boot_map_segment in the region of entry pdx, with what the other
\* entry odx holds: before and after.
MapBefore(pdx, odx, n, at, oat, filled) ==
  /\ pc \notin {"panic", "pgdir", "init", "done"} /\ i < ROUND(n, BY2PG) /\ i % BY2PG = 0
  /\ Chunk(boot_pgdir, BY2PG) \in chunks
  /\ Table(mem, boot_pgdir, chunks, pdx, at, i)
  /\ Table(mem, boot_pgdir, chunks, odx, oat, filled)
  /\ i # 0 /\ filled # 0 => mem[boot_pgdir + pdx].pa # mem[boot_pgdir + odx].pa

MapAfter(pdx, odx, at, oat, filled) ==
  /\ chunks \subseteq chunks'
  /\ Table(mem', boot_pgdir, chunks', pdx, at, i + BY2PG)
  /\ Table(mem', boot_pgdir, chunks', odx, oat, filled)
  /\ \A k \in 0 .. BY2PG - 1 : k # pdx => mem'[boot_pgdir + k] = mem[boot_pgdir + k]
  /\ filled # 0 => mem'[boot_pgdir + pdx].pa # mem'[boot_pgdir + odx].pa

\* What BootTypeOK says of the words of the memory.
OfEntries(words) == DOMAIN words = Addr /\ \A a \in Addr : DOMAIN words[a] = {"pa", "perm"}

\* The directory has the table already.
LEMMA MapOld ==
  ASSUME BootTypeOK, ChunkInv, NEW n \in 1 .. BY2PG * BY2PG,
         NEW pdx \in 0 .. BY2PG - 1, NEW odx \in 0 .. BY2PG - 1, pdx # odx,
         NEW at, NEW oat, NEW filled, NEW next,
         MapBefore(pdx, odx, n, at, oat, filled),
         mem[boot_pgdir + pdx] # Zero,
         MapPage(pdx, n, at, {"PTE_R"}, next), machine' = machine
  PROVE  /\ ChunkInv' /\ pc' = pc /\ i' = i + BY2PG /\ freemem' = freemem /\ chunks' = chunks
         /\ OfEntries(mem') /\ MapAfter(pdx, odx, at, oat, filled)
<1>b. BY2PG \in Nat /\ 0 < BY2PG
  BY BootMemAssumption
<1>0. /\ pc \notin {"panic", "pgdir", "init", "done"} /\ i < ROUND(n, BY2PG) /\ i % BY2PG = 0
      /\ Chunk(boot_pgdir, BY2PG) \in chunks
      /\ Table(mem, boot_pgdir, chunks, pdx, at, i)
      /\ Table(mem, boot_pgdir, chunks, odx, oat, filled)
      /\ i # 0 /\ filled # 0 => mem[boot_pgdir + pdx].pa # mem[boot_pgdir + odx].pa
  BY DEF MapBefore
<1>m. /\ i \in Nat /\ freemem \in Nat /\ boot_pgdir \in Nat
      /\ DOMAIN mem = Addr /\ \A a \in Addr : DOMAIN mem[a] = {"pa", "perm"}
  BY DEF BootTypeOK
<1> DEFINE e == mem[boot_pgdir + pdx]
           j == PPN(i)
<1>1. /\ j \in 0 .. BY2PG - 1 /\ j \div BY2PG = 0 /\ j % BY2PG = j /\ i = j * BY2PG
  BY <1>0, <1>m, OneTable
<1>2. /\ i # 0 /\ e = Entry(e.pa, {}) /\ Chunk(e.pa, BY2PG) \in chunks /\ e.pa # boot_pgdir
      /\ \A k \in 0 .. BY2PG - 1 :
           mem[e.pa + k] = IF k * BY2PG < i THEN Entry(at + k * BY2PG, {"PTE_R"}) ELSE Zero
  BY <1>0 DEF Table
<1>3. boot_pgdir + pdx + (j \div BY2PG) = boot_pgdir + pdx
  BY <1>b, <1>m, <1>1
<1>4. /\ i' = i + BY2PG /\ pc' = pc /\ freemem' = freemem /\ chunks' = chunks
      /\ mem' = [mem EXCEPT ![e.pa + (j % BY2PG)] = Entry(at + i, {"PTE_R"})]
  <2>1. ~(i >= ROUND(n, BY2PG))
    <3>1. n \in Nat
      BY <1>b, Z3
    <3>2. ROUND(n, BY2PG) \in Nat
      BY <3>1, RoundFacts
    <3> QED
      BY <1>0, <1>m, <3>2
  <2> QED
    BY <1>3, <2>1 DEF MapPage
<1>5. mem' = [mem EXCEPT ![e.pa + j] = Entry(at + i, {"PTE_R"})]
  BY <1>1, <1>4
<1> DEFINE x == e.pa + j
<1>6. /\ x \in Addr /\ machine.end <= x /\ \A k \in 0 .. BY2PG - 1 : e.pa + k \in Addr
      /\ e.pa \in Nat
  BY <1>0, <1>1, <1>2, ChunkWords
<1>7. /\ DOMAIN mem' = Addr
      /\ \A a \in Addr : mem'[a] = IF a = x THEN Entry(at + i, {"PTE_R"}) ELSE mem[a]
  BY <1>5, <1>m
<1>8. OfEntries(mem')
  BY <1>7, <1>m DEF OfEntries, Entry
<1>9. \A k \in 0 .. BY2PG - 1 : boot_pgdir + k \in Addr /\ boot_pgdir + k # x
  BY <1>0, <1>1, <1>2, ChunkWords, ApartChunks
<1> HIDE DEF e, j
<1>10. \A k \in 0 .. BY2PG - 1 : mem'[boot_pgdir + k] = mem[boot_pgdir + k]
  BY <1>7, <1>9
<1>11. ChunkInv'
  <2>0. machine.end \in Nat
    BY MachineFacts
  <2>1. \A a \in Addr' : a < machine'.end => mem'[a] = Image
    <3>1. Addr' = Addr
      BY DEF Addr, maxpa, npage
    <3>2. \A a \in Addr : a < machine.end => mem[a] = Image
      BY DEF ChunkInv
    <3>3. \A a \in Addr : a < machine.end => a # x
      BY <1>6, <2>0 DEF Addr
    <3> QED
      BY <1>7, <3>1, <3>2, <3>3
  <2> QED
    BY <1>4, <2>1 DEF ChunkInv, Used, Words, PPN, npage, maxpa
<1>12. Table(mem', boot_pgdir, chunks', pdx, at, i + BY2PG)
  <2>1. mem'[boot_pgdir + pdx] = Entry(e.pa, {}) /\ Chunk(e.pa, BY2PG) \in chunks' /\ e.pa # boot_pgdir
    BY <1>2, <1>4, <1>10 DEF e
  <2>2. ASSUME NEW k \in 0 .. BY2PG - 1, k # j
        PROVE  mem'[e.pa + k] = IF k * BY2PG < i THEN Entry(at + k * BY2PG, {"PTE_R"}) ELSE Zero
    <3>1. e.pa + k # x
      BY <1>b, <1>1, <1>6, <2>2
    <3>2. mem'[e.pa + k] = mem[e.pa + k]
      BY <1>6, <1>7, <3>1
    <3> QED
      BY <1>2, <3>2
  <2>3. mem'[e.pa + j] = Entry(at + i, {"PTE_R"})
    BY <1>6, <1>7
  <2>4. PPN(i) = j
    BY DEF j
  <2> QED
    BY <1>0, <1>m, <1>1, <2>1, <2>2, <2>3, <2>4, TableGrows
<1>13. Table(mem', boot_pgdir, chunks', odx, oat, filled)
  <2>1. mem'[boot_pgdir + odx] = mem[boot_pgdir + odx]
    BY <1>10
  <2> DEFINE opa == mem[boot_pgdir + odx].pa
  <2>2. ASSUME filled # 0, NEW k \in 0 .. BY2PG - 1 PROVE mem'[opa + k] = mem[opa + k]
    <3>1. Chunk(opa, BY2PG) \in chunks /\ opa # e.pa
      BY <1>0, <1>2, <2>2 DEF Table, e
    <3>2. opa + k # x
      BY <1>0, <1>1, <1>2, <3>1, ApartChunks
    <3>3. opa + k \in Addr
      BY <1>0, <3>1, ChunkWords
    <3> QED
      BY <1>7, <3>2, <3>3
  <2>3. chunks \subseteq chunks'
    BY <1>4
  <2> QED
    BY <1>0, <2>1, <2>2, <2>3, TableKept
<1>14. MapAfter(pdx, odx, at, oat, filled)
  <2>1. filled # 0 => mem'[boot_pgdir + pdx].pa # mem'[boot_pgdir + odx].pa
    BY <1>0, <1>2, <1>10
  <2> QED
    BY <1>4, <1>10, <1>12, <1>13, <2>1 DEF MapAfter
<1> QED
  BY <1>4, <1>8, <1>11, <1>14

\* boot_pgdir_walk makes the table, or alloc panics.
LEMMA MapNew ==
  ASSUME BootTypeOK, ChunkInv, NEW n \in 1 .. BY2PG * BY2PG,
         NEW pdx \in 0 .. BY2PG - 1, NEW odx \in 0 .. BY2PG - 1, pdx # odx,
         NEW at, NEW oat, NEW filled, NEW next,
         MapBefore(pdx, odx, n, at, oat, filled),
         mem[boot_pgdir + pdx] = Zero,
         MapPage(pdx, n, at, {"PTE_R"}, next), machine' = machine
  PROVE  /\ ChunkInv' /\ pc' \in {pc, "panic"} /\ i' = i + BY2PG /\ freemem' \in Nat
         /\ \A ch \in chunks' : ch.at \in Nat /\ ch.n \in Nat \ {0}
         /\ OfEntries(mem')
         /\ pc' # "panic" => MapAfter(pdx, odx, at, oat, filled)
<1>b. BY2PG \in Nat /\ 0 < BY2PG
  BY BootMemAssumption
<1>0. /\ pc \notin {"panic", "pgdir", "init", "done"} /\ i < ROUND(n, BY2PG) /\ i % BY2PG = 0
      /\ Chunk(boot_pgdir, BY2PG) \in chunks
      /\ Table(mem, boot_pgdir, chunks, pdx, at, i)
      /\ Table(mem, boot_pgdir, chunks, odx, oat, filled)
  BY DEF MapBefore
<1>m. /\ i \in Nat /\ freemem \in Nat /\ boot_pgdir \in Nat
      /\ DOMAIN mem = Addr /\ \A a \in Addr : DOMAIN mem[a] = {"pa", "perm"}
      /\ machine.end \in Nat /\ maxpa \in Nat
  BY MachineFacts DEF BootTypeOK
<1>1. i = 0
  <2>1. CASE i # 0
    <3>1. mem[boot_pgdir + pdx] = Entry(mem[boot_pgdir + pdx].pa, {})
      BY <1>0, <2>1 DEF Table
    <3> QED
      BY <3>1, EntryNotZero
  <2> QED
    BY <2>1
<1>2. PPN(i) = 0 /\ PPN(i) \div BY2PG = 0 /\ PPN(i) % BY2PG = 0
  <2>1. PPN(0 * BY2PG) = 0 /\ 0 * BY2PG = 0
    BY <1>b, Multiple
  <2>2. (0 * BY2PG + 0) \div BY2PG = 0 /\ (0 * BY2PG + 0) % BY2PG = 0
    BY <1>b, Unique
  <2>3. 0 * BY2PG + 0 = 0
    BY <2>1
  <2> QED
    BY <1>1, <2>1, <2>2, <2>3
<1> DEFINE r == alloc(BY2PG, BY2PG, TRUE)
           t == r.at
           entry == Entry(at + i, {"PTE_R"})
<1>3. /\ t \in Nat /\ machine.end <= t /\ freemem <= t
      /\ r.next = t + BY2PG /\ (r.oom <=> r.next >= maxpa)
      /\ DOMAIN r.mem = Addr
      /\ \A a \in Addr : r.mem[a] = IF a \in t .. t + BY2PG - 1 THEN Zero ELSE mem[a]
  <2>1. BY2PG \in Nat \ {0}
    BY <1>b
  <2> QED
    BY <2>1, AllocFacts
<1>4. /\ i' = i + BY2PG /\ Alloced(r, BY2PG, pc)
      /\ mem' = IF r.oom THEN r.mem
                ELSE [[r.mem EXCEPT ![boot_pgdir + pdx] = Entry(t, {})] EXCEPT ![t] = entry]
  <2>1. ~(i >= ROUND(n, BY2PG))
    <3>1. n \in Nat
      BY <1>b, Z3
    <3>2. ROUND(n, BY2PG) \in Nat
      BY <3>1, RoundFacts
    <3> QED
      BY <1>0, <1>m, <3>2
  <2>2. boot_pgdir + pdx + (PPN(i) \div BY2PG) = boot_pgdir + pdx /\ t + (PPN(i) % BY2PG) = t
    <3>1. t \in Nat
      BY <1>3
    <3> HIDE DEF t
    <3> QED
      BY <1>b, <1>m, <1>2, <3>1
  <2>3. mem[boot_pgdir + pdx + (PPN(i) \div BY2PG)] = Zero
    BY <2>2
  <2>4. /\ i' = i + BY2PG /\ Alloced(r, BY2PG, pc)
        /\ mem' = IF r.oom THEN r.mem
                  ELSE [[r.mem EXCEPT ![boot_pgdir + pdx + (PPN(i) \div BY2PG)] = Entry(t, {})]
                          EXCEPT ![t + (PPN(i) % BY2PG)] = entry]
    BY <2>1, <2>3, Zenon DEF MapPage
  <2> HIDE DEF r
  <2> QED
    BY <2>2, <2>4
<1>5. /\ freemem' = r.next /\ chunks' = chunks \cup {Chunk(t, BY2PG)}
      /\ pc' = IF r.oom THEN "panic" ELSE pc
  <2>1. Alloced(r, BY2PG, pc)
    BY <1>4
  <2> QED
    BY <2>1 DEF Alloced, Chunk
<1>6. \A k \in 0 .. BY2PG - 1 : /\ boot_pgdir + k \in Addr /\ boot_pgdir + k < t
                                /\ machine.end <= boot_pgdir + k
  <2>1. t \in Nat /\ freemem <= t
    BY <1>3
  <2>2. \A k \in 0 .. BY2PG - 1 : /\ boot_pgdir + k \in Addr /\ boot_pgdir + k < freemem
                                 /\ machine.end <= boot_pgdir + k
    BY <1>0, ChunkWords
  <2> HIDE DEF t
  <2> QED
    BY <1>b, <1>m, <2>1, <2>2
<1>7. /\ DOMAIN mem' = Addr
      /\ r.oom => \A a \in Addr : mem'[a] = IF a \in t .. t + BY2PG - 1 THEN Zero ELSE mem[a]
      /\ ~r.oom => /\ t + BY2PG < maxpa
                   /\ \A a \in Addr : mem'[a] = IF a = t THEN entry
                                                ELSE IF a = boot_pgdir + pdx THEN Entry(t, {})
                                                ELSE IF a \in t .. t + BY2PG - 1 THEN Zero
                                                ELSE mem[a]
  <2> HIDE DEF r, entry
  <2>1. CASE r.oom
    BY <1>3, <1>4, <2>1
  <2>2. CASE ~r.oom
    <3>1. t + BY2PG < maxpa
      BY <1>b, <1>m, <1>3, <2>2
    <3>2. t \in Addr
      BY <1>b, <1>3, <1>m, <3>1 DEF Addr
    <3>3. mem' = [[r.mem EXCEPT ![boot_pgdir + pdx] = Entry(t, {})] EXCEPT ![t] = entry]
      BY <1>4, <2>2
    <3> QED
      BY <1>3, <1>6, <2>2, <3>1, <3>2, <3>3
  <2> QED
    BY <2>1, <2>2
<1>8. OfEntries(mem')
  <2> HIDE DEF r
  <2>1. ASSUME NEW a \in Addr PROVE mem'[a] = Zero \/ mem'[a] = entry \/ mem'[a] = Entry(t, {}) \/ mem'[a] = mem[a]
    BY <1>7
  <2>2. DOMAIN Zero = {"pa", "perm"} /\ DOMAIN entry = {"pa", "perm"} /\ DOMAIN Entry(t, {}) = {"pa", "perm"}
    BY DEF Zero, Entry
  <2> QED
    BY <1>7, <1>m, <2>1, <2>2 DEF OfEntries
<1>9. \A a \in Addr : a < machine.end => mem'[a] = Image
  <2> HIDE DEF r, entry
  <2>1. ASSUME NEW a \in Addr, a < machine.end PROVE mem'[a] = mem[a]
    <3>1. a # t /\ a # boot_pgdir + pdx /\ a \notin t .. t + BY2PG - 1
      BY <1>m, <1>3, <1>6, <2>1 DEF Addr
    <3> QED
      BY <1>7, <3>1
  <2> QED
    BY <2>1 DEF ChunkInv
<1>10. /\ ChunkInv' /\ pc' \in {pc, "panic"} /\ freemem' \in Nat
       /\ \A ch \in chunks' : ch.at \in Nat /\ ch.n \in Nat \ {0}
  <2>1. BY2PG \in Nat \ {0}
    BY <1>b
  <2>2. pc \notin {"panic", "init", "done"} /\ pc \notin {"pgdir", "panic", "init", "done"}
    BY <1>0
  <2> QED
    BY <1>4, <1>9, <2>1, <2>2, AllocChunks
<1>11. ASSUME pc' # "panic" PROVE MapAfter(pdx, odx, at, oat, filled)
  <2>0. ~r.oom
    BY <1>5, <1>11
  <2> HIDE DEF r
  <2>1. /\ t + BY2PG < maxpa
        /\ \A a \in Addr : mem'[a] = IF a = t THEN entry
                                     ELSE IF a = boot_pgdir + pdx THEN Entry(t, {})
                                     ELSE IF a \in t .. t + BY2PG - 1 THEN Zero
                                     ELSE mem[a]
    BY <1>7, <2>0
  <2> HIDE DEF t, entry
  <2>2. chunks \subseteq chunks' /\ Chunk(t, BY2PG) \in chunks'
    BY <1>5
  <2>3. \A k \in 0 .. BY2PG - 1 : k # pdx => mem'[boot_pgdir + k] = mem[boot_pgdir + k]
    <3> SUFFICES ASSUME NEW k \in 0 .. BY2PG - 1, k # pdx
                 PROVE  mem'[boot_pgdir + k] = mem[boot_pgdir + k]
      OBVIOUS
    <3>1. /\ boot_pgdir + k \in Addr /\ boot_pgdir + k # boot_pgdir + pdx
          /\ boot_pgdir + k # t /\ boot_pgdir + k \notin t .. t + BY2PG - 1
      BY <1>b, <1>m, <1>3, <1>6
    <3> QED
      BY <2>1, <3>1
  <2>4. mem'[boot_pgdir + pdx] = Entry(t, {}) /\ t # boot_pgdir
    <3>1. /\ boot_pgdir + pdx \in Addr /\ boot_pgdir + pdx # t
          /\ boot_pgdir + 0 < t
      BY <1>b, <1>m, <1>3, <1>6
    <3> QED
      BY <1>m, <2>1, <3>1
  <2>5. Table(mem', boot_pgdir, chunks', pdx, at, i + BY2PG)
    <3>1. \A k \in 0 .. BY2PG - 1 : t + k \in Addr /\ t + k \in t .. t + BY2PG - 1
      BY <1>b, <1>m, <1>3, <2>1 DEF Addr
    <3>2. ASSUME NEW k \in 0 .. BY2PG - 1, k # PPN(i)
          PROVE  mem'[t + k] = IF k * BY2PG < i THEN Entry(at + k * BY2PG, {"PTE_R"}) ELSE Zero
      <4>1. k \in Nat
        BY <1>b
      <4>2. k * BY2PG \in Nat
        BY <4>1, Multiple
      <4>3. ~(k * BY2PG < i)
        BY <1>1, <4>2
      <4>4. t + k # t /\ t + k # boot_pgdir + pdx
        BY <1>b, <1>2, <1>3, <1>6, <1>m, <3>2, <4>1
      <4> QED
        BY <2>1, <3>1, <4>3, <4>4
    <3>3. mem'[t + PPN(i)] = Entry(at + i, {"PTE_R"})
      <4>1. t + PPN(i) = t /\ t \in Addr
        BY <1>b, <1>2, <1>3, <3>1
      <4> QED
        BY <2>1, <4>1 DEF entry
    <3>4. PPN(i) \in 0 .. BY2PG - 1 /\ i = PPN(i) * BY2PG
      BY <1>b, <1>1, <1>2
    <3> QED
      BY <1>0, <1>m, <2>2, <2>4, <3>2, <3>3, <3>4, TableGrows
  <2> DEFINE opa == mem[boot_pgdir + odx].pa
  <2>o. ASSUME filled # 0 PROVE Chunk(opa, BY2PG) \in chunks
    BY <1>0, <2>o DEF Table
  <2>6. Table(mem', boot_pgdir, chunks', odx, oat, filled)
    <3>1. mem'[boot_pgdir + odx] = mem[boot_pgdir + odx]
      BY <2>3
    <3>2. ASSUME filled # 0, NEW k \in 0 .. BY2PG - 1 PROVE mem'[opa + k] = mem[opa + k]
      <4>1. Chunk(opa, BY2PG) \in chunks /\ opa # boot_pgdir
        BY <1>0, <3>2 DEF Table
      <4>2. opa + k # boot_pgdir + pdx
        BY <1>0, <4>1, ApartChunks
      <4>3. opa + k \in Addr /\ opa + k < freemem
        BY <1>0, <4>1, ChunkWords
      <4>4. opa + k \notin t .. t + BY2PG - 1 /\ opa + k # t
        BY <1>b, <1>m, <1>3, <4>3 DEF Addr
      <4> QED
        BY <2>1, <4>2, <4>3, <4>4
    <3> QED
      BY <1>0, <2>2, <3>1, <3>2, TableKept
  <2>7. filled # 0 => mem'[boot_pgdir + pdx].pa # mem'[boot_pgdir + odx].pa
    <3>1. ASSUME filled # 0 PROVE opa # t
      <4>1. opa \in Nat /\ opa + BY2PG <= freemem
        BY <1>0, <2>o, <3>1, ChunkWords
      <4> QED
        BY <1>b, <1>m, <1>3, <4>1
    <3>2. mem'[boot_pgdir + odx] = mem[boot_pgdir + odx]
      BY <2>3
    <3>3. Entry(t, {}).pa = t
      BY DEF Entry
    <3> QED
      BY <2>4, <3>1, <3>2, <3>3
  <2> QED
    BY <2>2, <2>3, <2>5, <2>6, <2>7 DEF MapAfter
<1> QED
  BY <1>4, <1>8, <1>10, <1>11

-----------------------------------------------------------------------------
(***************************************************************************)
(* Every step keeps the invariant.                                         *)
(***************************************************************************)

\* A call of alloc in mips_vm_init, and what all of them have in common.
CallAlloc(n, next) ==
  LET r == alloc(n, BY2PG, TRUE) IN Alloced(r, n, next) /\ mem' = r.mem

\* What follows such a call.
AfterAlloc == {"pages", "map pages", "map envs"}

\* What BootTypeOK says of the addresses.
OfAddresses == {boot_pgdir, pages, envs, i} \subseteq Nat

LEMMA AllocStep ==
  ASSUME BootTypeOK, ChunkInv, InitInv, pc \notin {"panic", "init", "done"},
         NEW n \in Nat \ {0},
         NEW next \in AfterAlloc,
         CallAlloc(n, next),
         machine' = machine, pp_ref' = pp_ref, free' = free,
         OfAddresses'
  PROVE  LET at == alloc(n, BY2PG, TRUE).at IN
         /\ BootTypeOK' /\ ChunkInv' /\ InitInv' /\ pc' \in {next, "panic"}
         /\ at \in Nat /\ freemem <= at /\ chunks' = chunks \cup {Chunk(at, n)}
         /\ \A a \in Addr : a < freemem => mem'[a] = mem[a]
         /\ \A a \in Addr : a \in at .. at + n - 1 => mem'[a] = Zero
         /\ pc' # "panic" => at + n < maxpa
<1> DEFINE r  == alloc(n, BY2PG, TRUE)
           at == r.at
<1>1. /\ at \in Nat /\ machine.end <= at /\ freemem <= at
      /\ r.next = at + n /\ (r.oom <=> r.next >= maxpa) /\ DOMAIN r.mem = Addr
      /\ \A a \in Addr : r.mem[a] = IF a \in at .. at + n - 1 THEN Zero ELSE mem[a]
  BY AllocFacts
<1>2. chunks' = chunks \cup {Chunk(at, n)} /\ pc' = IF r.oom THEN "panic" ELSE next
  <2>1. Alloced(r, n, next)
    BY DEF CallAlloc
  <2> QED
    BY <2>1 DEF Alloced, Chunk
<1>m. machine.end \in Nat /\ freemem \in Nat /\ maxpa \in Nat
  BY MachineFacts DEF BootTypeOK
<1>t. /\ \A a \in Addr : DOMAIN mem[a] = {"pa", "perm"}
      /\ Addr' = Addr /\ npage' = npage /\ machine \in Machines
      /\ pp_ref \in [0 .. npage - 1 -> 0 .. 1] /\ Range(free) \subseteq 0 .. npage - 1
  BY DEF BootTypeOK, Addr, maxpa, npage
<1>3. /\ DOMAIN mem' = Addr
      /\ \A a \in Addr : mem'[a] = IF a \in at .. at + n - 1 THEN Zero ELSE mem[a]
  <2>1. mem' = r.mem
    BY DEF CallAlloc
  <2> QED
    BY <1>1, <2>1, Zenon
<1> HIDE DEF r
<1> HIDE DEF at
<1>a. \A a \in Addr : a < machine.end \/ a < freemem => a \notin at .. at + n - 1
  <2>1. at \in Nat /\ machine.end <= at /\ freemem <= at /\ n \in Nat
    BY <1>1
  <2> SUFFICES ASSUME NEW a \in Addr, a < machine.end \/ a < freemem
               PROVE  a \notin at .. at + n - 1
    OBVIOUS
  <2>2. a \in Nat
    BY <1>m DEF Addr
  <2>3. a < at
    BY <1>m, <2>1, <2>2
  <2> QED
    BY <2>1, <2>2, <2>3
<1>4. \A a \in Addr : a < machine.end => mem'[a] = Image
  <2>1. \A a \in Addr : a < machine.end => mem[a] = Image
    BY DEF ChunkInv
  <2> QED
    BY <1>3, <1>a, <2>1
<1>5. /\ ChunkInv' /\ pc' \in {next, "panic"} /\ freemem' \in Nat
      /\ \A ch \in chunks' : ch.at \in Nat /\ ch.n \in Nat \ {0}
  <2>1. Alloced(alloc(n, BY2PG, TRUE), n, next) /\ next \notin {"pgdir", "panic", "init", "done"}
    BY DEF CallAlloc, AfterAlloc
  <2> QED
    BY <1>4, <2>1, AllocChunks
<1>6. \A a \in Addr : a < freemem => mem'[a] = mem[a]
  BY <1>3, <1>a
<1>7. \A a \in Addr : DOMAIN mem'[a] = {"pa", "perm"}
  <2>1. DOMAIN Zero = {"pa", "perm"}
    BY DEF Zero, Entry
  <2> QED
    BY <1>3, <1>t, <2>1
<1>8. pc' # "panic" => at + n < maxpa
  <2>1. at \in Nat /\ r.next = at + n /\ (r.oom <=> r.next >= maxpa)
    BY <1>1
  <2>2. pc' # "panic" => ~r.oom
    BY <1>2
  <2> QED
    BY <1>m, <2>1, <2>2
<1>9. BootTypeOK'
  <2>1. machine' \in Machines /\ DOMAIN mem' = Addr' /\ \A a \in Addr' : DOMAIN mem'[a] = {"pa", "perm"}
    BY <1>1, <1>3, <1>7, <1>t
  <2>2. {freemem', boot_pgdir', pages', envs', i'} \subseteq Nat
    BY <1>5 DEF OfAddresses
  <2>3. pp_ref' \in [0 .. npage' - 1 -> 0 .. 1] /\ Range(free') \subseteq 0 .. npage' - 1
    BY <1>t
  <2> QED
    BY <1>5, <2>1, <2>2, <2>3 DEF BootTypeOK, AfterAlloc
<1>10. InitInv'
  <2>1. pp_ref = [p \in 0 .. npage - 1 |-> 0] /\ free = << >>
    BY DEF InitInv
  <2>2. pc' \notin {"init", "done"}
    BY <1>5 DEF AfterAlloc
  <2> QED
    BY <1>t, <2>1, <2>2 DEF InitInv
<1>11. \A a \in Addr : a \in at .. at + n - 1 => mem'[a] = Zero
  BY <1>1, <1>3
<1> QED
  BY <1>1, <1>2, <1>5, <1>6, <1>8, <1>9, <1>10, <1>11 DEF r, at

LEMMA InitHolds ==
  ASSUME Init
  PROVE  BInv
<1>b. BY2PG \in Nat /\ 0 < BY2PG
  BY BootMemAssumption
<1>1. /\ machine \in Machines /\ pc = "pgdir"
      /\ mem = [a \in Addr |-> IF a < machine.end THEN Image ELSE Old]
      /\ freemem = 0 /\ boot_pgdir = 0 /\ pages = 0 /\ envs = 0 /\ i = 0
      /\ pp_ref = [p \in 0 .. npage - 1 |-> 0] /\ free = << >> /\ chunks = {}
  BY DEF Init
<1>2. DOMAIN Image = {"pa", "perm"} /\ DOMAIN Old = {"pa", "perm"}
  BY DEF Image, Old, Entry
<1>3. BootTypeOK
  <2>1. DOMAIN mem = Addr /\ \A a \in Addr : DOMAIN mem[a] = {"pa", "perm"}
    BY <1>1, <1>2
  <2>2. Range(free) = {}
    BY <1>1 DEF Range
  <2>3. pp_ref \in [0 .. npage - 1 -> 0 .. 1]
    BY <1>1
  <2> QED
    BY <1>1, <2>1, <2>2, <2>3 DEF BootTypeOK
<1>4. npage \in Nat /\ maxpa \in Nat /\ 0 < maxpa
  BY <1>3, MachineFacts
<1>5. ChunkInv
  <2>1. \A a \in Addr : a < machine.end => mem[a] = Image
    BY <1>1
  <2>2. ASSUME NEW p \in 0 .. npage - 1 PROVE ~(p * BY2PG < freemem)
    <3>1. p \in Nat
      BY <1>4
    <3>2. p * BY2PG \in Nat
      BY <3>1, Multiple
    <3> QED
      BY <1>1, <3>2
  <2> QED
    BY <1>1, <1>4, <2>1, <2>2 DEF ChunkInv
<1> QED
  BY <1>1, <1>3, <1>5 DEF BInv, MapInv, InitInv

LEMMA PgdirStep ==
  ASSUME BInv, AllocPgdir
  PROVE  BInv'
<1>b. BY2PG \in Nat /\ 0 < BY2PG /\ BY2PG \in Nat \ {0}
  BY BootMemAssumption
<1> DEFINE r  == alloc(BY2PG, BY2PG, TRUE)
           at == r.at
<1>0. BootTypeOK /\ ChunkInv /\ InitInv
  BY DEF BInv
<1>1. /\ pc = "pgdir" /\ Alloced(r, BY2PG, "pages") /\ mem' = r.mem /\ boot_pgdir' = at
      /\ machine' = machine /\ pages' = pages /\ envs' = envs /\ i' = i
      /\ pp_ref' = pp_ref /\ free' = free
  BY DEF AllocPgdir
<1>2. at \in Nat
  BY <1>b, <1>0, AllocFacts
<1>3. OfAddresses'
  BY <1>0, <1>1, <1>2 DEF BootTypeOK, OfAddresses
<1>4. /\ BootTypeOK' /\ ChunkInv' /\ InitInv' /\ pc' \in {"pages", "panic"}
      /\ chunks' = chunks \cup {Chunk(at, BY2PG)}
      /\ \A a \in Addr : a \in at .. at + BY2PG - 1 => mem'[a] = Zero
      /\ pc' # "panic" => at + BY2PG < maxpa
  <2>1. CallAlloc(BY2PG, "pages") /\ "pages" \in AfterAlloc
    BY <1>1 DEF CallAlloc, AfterAlloc
  <2> QED
    BY <1>b, <1>0, <1>1, <1>3, <2>1, AllocStep
<1> HIDE DEF r
<1> HIDE DEF at
<1>5. MapInv'
  <2> SUFFICES ASSUME pc' \notin {"pgdir", "panic"}
               PROVE  /\ Chunk(boot_pgdir', BY2PG) \in chunks'
                      /\ \A k \in 0 .. BY2PG - 1 : mem'[boot_pgdir' + k] = Zero
                      /\ PagesFilled' = 0 /\ EnvsFilled' = 0 /\ 0 % BY2PG = 0
                      /\ 0 <= ROUND(npage * SizeofPage, BY2PG)' /\ 0 <= ROUND(machine.envs, BY2PG)'
    BY BootMemAssumption DEF MapInv, Table
  <2>1. pc' = "pages"
    BY <1>4
  <2>2. PagesFilled' = 0 /\ EnvsFilled' = 0
    BY <2>1 DEF PagesFilled, EnvsFilled, Filled
  <2>3. ASSUME NEW k \in 0 .. BY2PG - 1 PROVE mem'[boot_pgdir' + k] = Zero
    <3>1. maxpa \in Nat
      BY <1>0, MachineFacts
    <3>2. at + k \in Addr /\ at + k \in at .. at + BY2PG - 1
      BY <1>b, <1>2, <1>4, <2>1, <3>1 DEF Addr
    <3> QED
      BY <1>1, <1>4, <3>2
  <2>4. 0 % BY2PG = 0
    BY <1>b
  <2>5. ROUND(npage * SizeofPage, BY2PG)' \in Nat /\ ROUND(machine.envs, BY2PG)' \in Nat
    <3>1. (npage * SizeofPage)' = npage /\ npage \in Nat /\ machine'.envs = machine.envs /\ machine.envs \in Nat
      BY <1>0, <1>1, MachineFacts DEF npage, SizeofPage
    <3>2. ROUND(npage, BY2PG) \in Nat /\ ROUND(machine.envs, BY2PG) \in Nat
      BY <3>1, RoundFacts
    <3> QED
      BY <1>1, <3>1, <3>2 DEF ROUND, npage
  <2> QED
    BY <1>1, <1>4, <2>2, <2>3, <2>4, <2>5
<1> QED
  BY <1>4, <1>5 DEF BInv

\* The regions in whole pages.
LEMMA Regions ==
  ASSUME BootTypeOK
  PROVE  /\ ROUND(npage * SizeofPage, BY2PG) \in Nat /\ ROUND(npage * SizeofPage, BY2PG) # 0
         /\ ROUND(npage * SizeofPage, BY2PG) % BY2PG = 0
         /\ ROUND(machine.envs, BY2PG) \in Nat /\ ROUND(machine.envs, BY2PG) # 0
         /\ ROUND(machine.envs, BY2PG) % BY2PG = 0
         /\ 0 % BY2PG = 0
         /\ npage * SizeofPage \in Nat \ {0} /\ npage * SizeofPage \in 1 .. BY2PG * BY2PG
<1>1. /\ npage * SizeofPage = npage /\ npage \in Nat \ {0} /\ machine.envs \in Nat \ {0}
      /\ npage \in 1 .. BY2PG * BY2PG
  BY MachineFacts
<1>2. /\ ROUND(npage, BY2PG) \in Nat /\ ROUND(npage, BY2PG) % BY2PG = 0
      /\ npage <= ROUND(npage, BY2PG)
      /\ ROUND(machine.envs, BY2PG) \in Nat /\ ROUND(machine.envs, BY2PG) % BY2PG = 0
      /\ machine.envs <= ROUND(machine.envs, BY2PG)
  BY <1>1, RoundFacts
<1>3. ROUND(npage, BY2PG) # 0 /\ ROUND(machine.envs, BY2PG) # 0
  BY <1>1, <1>2
<1>4. 0 % BY2PG = 0
  BY BootMemAssumption, DivMod
<1> QED
  BY <1>1, <1>2, <1>3, <1>4

\* An array is allocated: directory and tables stay.
LEMMA AllocTable ==
  ASSUME BootTypeOK, ChunkInv, pc # "panic", Chunk(boot_pgdir, BY2PG) \in chunks,
         \A a \in Addr : a < freemem => mem'[a] = mem[a], chunks \subseteq chunks',
         NEW pdx \in 0 .. BY2PG - 1, NEW at, NEW filled,
         Table(mem, boot_pgdir, chunks, pdx, at, filled)
  PROVE  Table(mem', boot_pgdir, chunks', pdx, at, filled)
<1>1. mem'[boot_pgdir + pdx] = mem[boot_pgdir + pdx]
  BY ChunkWords
<1> DEFINE pa == mem[boot_pgdir + pdx].pa
<1>2. ASSUME filled # 0, NEW j \in 0 .. BY2PG - 1 PROVE mem'[pa + j] = mem[pa + j]
  <2>1. Chunk(pa, BY2PG) \in chunks
    BY <1>2 DEF Table
  <2>2. pa + j \in Addr /\ pa + j < freemem
    BY <2>1, ChunkWords
  <2> QED
    BY <2>2
<1> QED
  BY <1>1, <1>2, TableKept

LEMMA PagesStep ==
  ASSUME BInv, AllocPages
  PROVE  BInv'
<1> DEFINE n  == npage * SizeofPage
           at == alloc(n, BY2PG, TRUE).at
<1>0. BootTypeOK /\ ChunkInv /\ InitInv /\ MapInv
  BY DEF BInv
<1>1. /\ pc = "pages" /\ CallAlloc(n, "map pages") /\ pages' = at
      /\ machine' = machine /\ boot_pgdir' = boot_pgdir /\ envs' = envs /\ i' = 0
      /\ pp_ref' = pp_ref /\ free' = free
  BY DEF AllocPages, CallAlloc
<1>2. n \in Nat \ {0}
  BY <1>0, Regions
<1>3. at \in Nat
  BY <1>0, <1>2, AllocFacts
<1> HIDE DEF n
<1>4. OfAddresses'
  <2> HIDE DEF at
  <2>1. boot_pgdir \in Nat /\ pages \in Nat /\ envs \in Nat
    BY <1>0 DEF BootTypeOK
  <2>2. boot_pgdir' \in Nat /\ pages' \in Nat /\ envs' \in Nat
    BY <1>1, <1>3, <2>1, Zenon
  <2>3. i' \in Nat
    <3>1. i' = 0
      BY <1>1
    <3> QED
      BY <3>1
  <2> QED
    BY <2>2, <2>3 DEF OfAddresses
<1>5. /\ BootTypeOK' /\ ChunkInv' /\ InitInv' /\ pc' \in {"map pages", "panic"}
      /\ chunks' = chunks \cup {Chunk(at, n)}
      /\ \A a \in Addr : a < freemem => mem'[a] = mem[a]
  <2>1. pc \notin {"panic", "init", "done"} /\ "map pages" \in AfterAlloc
    BY <1>1 DEF AfterAlloc
  <2> QED
    BY <1>0, <1>1, <1>2, <1>4, <2>1, AllocStep
<1> HIDE DEF at
<1>6. MapInv'
  <2> SUFFICES ASSUME pc' \notin {"pgdir", "panic"} PROVE MapInv'
    BY DEF MapInv
  <2>1. pc' = "map pages"
    BY <1>5
  <2>2. PagesFilled' = 0 /\ EnvsFilled' = 0
    BY <1>1, <2>1 DEF PagesFilled, EnvsFilled, Filled
  <2>3. PagesFilled = 0 /\ EnvsFilled = 0
    BY <1>1 DEF PagesFilled, EnvsFilled, Filled
  <2>4. /\ Chunk(boot_pgdir, BY2PG) \in chunks
        /\ \A k \in 0 .. BY2PG - 1 : k \notin {UPAGES, UENVS} => mem[boot_pgdir + k] = Zero
        /\ Table(mem, boot_pgdir, chunks, UPAGES, pages, 0)
        /\ Table(mem, boot_pgdir, chunks, UENVS, envs, 0)
    BY <1>0, <1>1, <2>3 DEF MapInv
  <2>5. \A k \in 0 .. BY2PG - 1 : mem'[boot_pgdir + k] = mem[boot_pgdir + k]
    BY <1>0, <1>1, <1>5, <2>4, ChunkWords
  <2>6. /\ Table(mem', boot_pgdir, chunks', UPAGES, pages', 0)
        /\ Table(mem', boot_pgdir, chunks', UENVS, envs', 0)
    BY <2>4, <2>5, BootMemAssumption DEF Table
  <2>7. ROUND(npage * SizeofPage, BY2PG)' \in Nat /\ ROUND(machine.envs, BY2PG)' \in Nat /\ 0 % BY2PG = 0
    BY <1>0, <1>1, Regions DEF ROUND, npage
  <2>8. 0 <= ROUND(npage * SizeofPage, BY2PG)' /\ 0 <= ROUND(machine.envs, BY2PG)'
    BY <2>7
  <2>9. \A k \in 0 .. BY2PG - 1 : k \notin {UPAGES, UENVS} => mem'[boot_pgdir' + k] = Zero
    BY <1>1, <2>4, <2>5
  <2>10. Chunk(boot_pgdir', BY2PG) \in chunks'
    BY <1>1, <1>5, <2>4
  <2> QED
    BY <1>1, <2>2, <2>6, <2>7, <2>8, <2>9, <2>10 DEF MapInv
<1> QED
  BY <1>5, <1>6 DEF BInv

LEMMA EnvsStep ==
  ASSUME BInv, AllocEnvs
  PROVE  BInv'
<1> DEFINE n  == machine.envs
           at == alloc(n, BY2PG, TRUE).at
<1>0. BootTypeOK /\ ChunkInv /\ InitInv /\ MapInv
  BY DEF BInv
<1>1. /\ pc = "envs" /\ CallAlloc(n, "map envs") /\ envs' = at
      /\ machine' = machine /\ boot_pgdir' = boot_pgdir /\ pages' = pages /\ i' = 0
      /\ pp_ref' = pp_ref /\ free' = free
  BY DEF AllocEnvs, CallAlloc
<1>2. n \in Nat \ {0}
  BY <1>0, MachineFacts
<1>3. at \in Nat
  BY <1>0, <1>2, AllocFacts
<1> HIDE DEF n
<1>4. OfAddresses'
  <2> HIDE DEF at
  <2>1. boot_pgdir \in Nat /\ pages \in Nat /\ envs \in Nat
    BY <1>0 DEF BootTypeOK
  <2>2. boot_pgdir' \in Nat /\ pages' \in Nat /\ envs' \in Nat
    BY <1>1, <1>3, <2>1, Zenon
  <2>3. i' \in Nat
    <3>1. i' = 0
      BY <1>1
    <3> QED
      BY <3>1
  <2> QED
    BY <2>2, <2>3 DEF OfAddresses
<1>5. /\ BootTypeOK' /\ ChunkInv' /\ InitInv' /\ pc' \in {"map envs", "panic"}
      /\ chunks' = chunks \cup {Chunk(at, n)}
      /\ \A a \in Addr : a < freemem => mem'[a] = mem[a]
  <2>1. pc \notin {"panic", "init", "done"} /\ "map envs" \in AfterAlloc
    BY <1>1 DEF AfterAlloc
  <2> QED
    BY <1>0, <1>1, <1>2, <1>4, <2>1, AllocStep
<1> HIDE DEF at
<1>6. MapInv'
  <2> SUFFICES ASSUME pc' \notin {"pgdir", "panic"} PROVE MapInv'
    BY DEF MapInv
  <2> DEFINE full == ROUND(npage * SizeofPage, BY2PG)
  <2>1. pc' = "map envs"
    BY <1>5
  <2>r. full' = full /\ ROUND(machine.envs, BY2PG)' = ROUND(machine.envs, BY2PG)
    BY <1>1 DEF npage, ROUND, SizeofPage
  <2>2. PagesFilled' = full /\ EnvsFilled' = 0
    BY <1>1, <2>1, <2>r DEF PagesFilled, EnvsFilled, Filled
  <2>3. PagesFilled = full /\ EnvsFilled = 0
    BY <1>1 DEF PagesFilled, EnvsFilled, Filled
  <2> HIDE DEF full
  <2>4. /\ Chunk(boot_pgdir, BY2PG) \in chunks
        /\ \A k \in 0 .. BY2PG - 1 : k \notin {UPAGES, UENVS} => mem[boot_pgdir + k] = Zero
        /\ Table(mem, boot_pgdir, chunks, UPAGES, pages, full)
        /\ Table(mem, boot_pgdir, chunks, UENVS, envs, 0)
    BY <1>0, <1>1, <2>3 DEF MapInv
  <2>5. \A k \in 0 .. BY2PG - 1 : mem'[boot_pgdir + k] = mem[boot_pgdir + k]
    BY <1>0, <1>1, <1>5, <2>4, ChunkWords
  <2>6. /\ Table(mem', boot_pgdir, chunks', UPAGES, pages', full)
        /\ Table(mem', boot_pgdir, chunks', UENVS, envs', 0)
    <3>1. Table(mem', boot_pgdir, chunks', UPAGES, pages, full)
      <4>1. chunks \subseteq chunks'
        BY <1>5
      <4>2. UPAGES \in 0 .. BY2PG - 1 /\ pc # "panic"
        BY <1>1, BootMemAssumption
      <4> QED
        BY <1>0, <1>5, <2>4, <4>1, <4>2, AllocTable
    <3>2. Table(mem', boot_pgdir, chunks', UENVS, envs', 0)
      BY <2>4, <2>5, BootMemAssumption DEF Table
    <3> QED
      BY <1>1, <3>1, <3>2
  <2>7. full \in Nat /\ full % BY2PG = 0 /\ full <= full
        /\ ROUND(machine.envs, BY2PG) \in Nat /\ 0 % BY2PG = 0 /\ 0 <= ROUND(machine.envs, BY2PG)
    BY <1>0, Regions DEF full
  <2>8. \A k \in 0 .. BY2PG - 1 : k \notin {UPAGES, UENVS} => mem'[boot_pgdir' + k] = Zero
    BY <1>1, <2>4, <2>5
  <2>9. Chunk(boot_pgdir', BY2PG) \in chunks'
    BY <1>1, <1>5, <2>4
  <2> QED
    BY <1>1, <2>2, <2>r, <2>6, <2>7, <2>8, <2>9 DEF MapInv, full
<1> QED
  BY <1>5, <1>6 DEF BInv

\* One turn of boot_map_segment, with or without a new table ...
LEMMA MapTurn ==
  ASSUME BootTypeOK, ChunkInv, InitInv, NEW n \in 1 .. BY2PG * BY2PG,
         NEW pdx \in 0 .. BY2PG - 1, NEW odx \in 0 .. BY2PG - 1, pdx # odx,
         NEW at, NEW oat, NEW filled, NEW next,
         MapBefore(pdx, odx, n, at, oat, filled),
         MapPage(pdx, n, at, {"PTE_R"}, next),
         UNCHANGED <<machine, boot_pgdir, pages, envs, pp_ref, free>>
  PROVE  /\ BootTypeOK' /\ ChunkInv' /\ InitInv' /\ pc' \in {pc, "panic"}
         /\ i' = i + BY2PG /\ i' % BY2PG = 0 /\ i' <= ROUND(n, BY2PG) /\ i' # 0
         /\ pc' # "panic" => MapAfter(pdx, odx, at, oat, filled)
<1>b. BY2PG \in Nat /\ 0 < BY2PG
  BY BootMemAssumption
<1>0. /\ pc \notin {"panic", "pgdir", "init", "done"} /\ i < ROUND(n, BY2PG) /\ i % BY2PG = 0
      /\ i \in Nat
  BY DEF MapBefore, BootTypeOK
<1>1. /\ ChunkInv' /\ pc' \in {pc, "panic"} /\ i' = i + BY2PG /\ freemem' \in Nat
      /\ \A ch \in chunks' : ch.at \in Nat /\ ch.n \in Nat \ {0}
      /\ OfEntries(mem')
      /\ pc' # "panic" => MapAfter(pdx, odx, at, oat, filled)
  <2>1. machine' = machine
    OBVIOUS
  <2>2. CASE mem[boot_pgdir + pdx] = Zero
    BY <2>1, <2>2, MapNew
  <2>3. CASE mem[boot_pgdir + pdx] # Zero
    <3>1. /\ ChunkInv' /\ pc' = pc /\ i' = i + BY2PG /\ freemem' = freemem /\ chunks' = chunks
          /\ OfEntries(mem') /\ MapAfter(pdx, odx, at, oat, filled)
      BY <2>1, <2>3, MapOld
    <3> QED
      BY <3>1 DEF BootTypeOK
  <2> QED
    BY <2>2, <2>3
<1>2. (i + BY2PG) % BY2PG = 0 /\ i + BY2PG <= ROUND(n, BY2PG) /\ i + BY2PG \in Nat /\ i + BY2PG # 0
  <2>1. n \in Nat
    BY <1>b, Z3
  <2>2. ROUND(n, BY2PG) \in Nat /\ ROUND(n, BY2PG) % BY2PG = 0
    BY <2>1, RoundFacts
  <2>3. (i + BY2PG) % BY2PG = 0 /\ i + BY2PG <= ROUND(n, BY2PG)
    BY <1>0, <2>2, MultipleNext, MultipleLess
  <2> QED
    BY <1>b, <1>0, <2>3
<1>3. BootTypeOK'
  <2>1. machine' \in Machines /\ Addr' = Addr /\ npage' = npage
    BY DEF BootTypeOK, Addr, maxpa, npage
  <2>2. {freemem', boot_pgdir', pages', envs', i'} \subseteq Nat
    <3>1. boot_pgdir \in Nat /\ pages \in Nat /\ envs \in Nat
      BY DEF BootTypeOK
    <3>2. i' \in Nat
      BY <1>1, <1>2
    <3> QED
      BY <1>1, <3>1, <3>2
  <2>3. DOMAIN mem' = Addr' /\ \A a \in Addr' : DOMAIN mem'[a] = {"pa", "perm"}
    BY <1>1, <2>1 DEF OfEntries
  <2>4. pp_ref' \in [0 .. npage' - 1 -> 0 .. 1] /\ Range(free') \subseteq 0 .. npage' - 1
    BY <2>1 DEF BootTypeOK
  <2>5. pc' \in {"pgdir", "pages", "map pages", "envs", "map envs", "page_init", "init", "done", "panic"}
    BY <1>1 DEF BootTypeOK
  <2> QED
    BY <1>1, <2>1, <2>2, <2>3, <2>4, <2>5 DEF BootTypeOK
<1>4. InitInv'
  <2>1. pp_ref = [p \in 0 .. npage - 1 |-> 0] /\ free = << >>
    BY <1>0 DEF InitInv
  <2>2. pc' \notin {"init", "done"} /\ npage' = npage
    BY <1>0, <1>1 DEF npage
  <2> QED
    BY <2>1, <2>2 DEF InitInv
<1> QED
  BY <1>1, <1>2, <1>3, <1>4

\* ... and its end.
LEMMA MapEnd ==
  ASSUME BootTypeOK, ChunkInv, InitInv, NEW n \in 1 .. BY2PG * BY2PG, NEW pdx, NEW at,
         NEW next, next = "envs" \/ next = "page_init", pc = "map pages" \/ pc = "map envs",
         i >= ROUND(n, BY2PG),
         MapPage(pdx, n, at, {"PTE_R"}, next),
         UNCHANGED <<machine, boot_pgdir, pages, envs, pp_ref, free>>
  PROVE  /\ BootTypeOK' /\ ChunkInv' /\ InitInv' /\ pc' = next
         /\ mem' = mem /\ chunks' = chunks /\ i' = i
<1>1. pc' = next /\ mem' = mem /\ freemem' = freemem /\ i' = i /\ chunks' = chunks
  BY DEF MapPage
<1>2. npage' = npage /\ maxpa' = maxpa /\ Addr' = Addr /\ Used' = Used
  BY <1>1 DEF npage, maxpa, Addr, Used, Words, PPN
<1>3. BootTypeOK'
  BY <1>1, <1>2 DEF BootTypeOK
<1>4. ChunkInv'
  <2>1. pc # "pgdir" /\ pc' # "pgdir" /\ pc # "panic" /\ pc \notin {"init", "done"} /\ pc' \notin {"init", "done"}
    BY <1>1
  <2> QED
    BY <1>1, <1>2, <2>1 DEF ChunkInv
<1>5. InitInv'
  <2>1. pc \notin {"init", "done"} /\ pc' \notin {"init", "done"}
    BY <1>1
  <2> QED
    BY <1>2, <2>1 DEF InitInv
<1> QED
  BY <1>1, <1>3, <1>4, <1>5

LEMMA MapPagesStep ==
  ASSUME BInv, MapPages
  PROVE  BInv'
<1> DEFINE n    == npage * SizeofPage
           full == ROUND(n, BY2PG)
           rest == 0
<1>0. BootTypeOK /\ ChunkInv /\ InitInv /\ MapInv
  BY DEF BInv
<1>1. /\ pc = "map pages" /\ MapPage(UPAGES, n, pages, {"PTE_R"}, "envs")
      /\ UNCHANGED <<machine, boot_pgdir, pages, envs, pp_ref, free>>
  BY DEF MapPages
<1>2. n \in 1 .. BY2PG * BY2PG /\ n \in Nat \ {0}
  BY <1>0, MachineFacts, Regions
<1>3. full \in Nat /\ full % BY2PG = 0 /\ rest \in Nat /\ rest % BY2PG = 0
  BY <1>0, Regions
<1>4. PagesFilled = i /\ EnvsFilled = rest
  BY <1>1 DEF PagesFilled, EnvsFilled, Filled
<1>5. ROUND(npage * SizeofPage, BY2PG)' = ROUND(npage * SizeofPage, BY2PG)
      /\ ROUND(machine.envs, BY2PG)' = ROUND(machine.envs, BY2PG)
  BY <1>1 DEF ROUND, npage, SizeofPage
<1>6. /\ UPAGES \in 0 .. BY2PG - 1 /\ UENVS \in 0 .. BY2PG - 1 /\ UPAGES # UENVS
  BY BootMemAssumption
<1>7. ASSUME pc' = pc \/ pc' = "envs"
      PROVE  /\ EnvsFilled' = rest
             /\ pc' = pc => PagesFilled' = i'
             /\ pc' = "envs" => PagesFilled' = full
  <2>1. CASE pc' = "map pages"
    BY <1>1, <1>5, <2>1 DEF PagesFilled, EnvsFilled, Filled
  <2>2. CASE pc' = "envs"
    BY <1>1, <1>5, <2>2 DEF PagesFilled, EnvsFilled, Filled
  <2> QED
    BY <1>1, <1>7, <2>1, <2>2
<1>i. /\ i \in Nat /\ i % BY2PG = 0 /\ i <= full
      /\ rest <= ROUND(machine.envs, BY2PG)
      /\ Chunk(boot_pgdir, BY2PG) \in chunks
      /\ \A k \in 0 .. BY2PG - 1 : k \notin {UPAGES, UENVS} => mem[boot_pgdir + k] = Zero
      /\ Table(mem, boot_pgdir, chunks, UPAGES, pages, i)
      /\ Table(mem, boot_pgdir, chunks, UENVS, envs, rest)
      /\ i # 0 /\ rest # 0 => mem[boot_pgdir + UPAGES].pa # mem[boot_pgdir + UENVS].pa
  <2> HIDE DEF rest
  <2>1. /\ i \in Nat /\ i % BY2PG = 0 /\ i <= full /\ rest <= ROUND(machine.envs, BY2PG)
    BY <1>0, <1>1, <1>4 DEF MapInv, BootTypeOK
  <2>2. /\ Chunk(boot_pgdir, BY2PG) \in chunks
        /\ \A k \in 0 .. BY2PG - 1 : k \notin {UPAGES, UENVS} => mem[boot_pgdir + k] = Zero
        /\ Table(mem, boot_pgdir, chunks, UPAGES, pages, i)
        /\ Table(mem, boot_pgdir, chunks, UENVS, envs, rest)
    BY <1>0, <1>1, <1>4 DEF MapInv
  <2>3. i # 0 /\ rest # 0 => mem[boot_pgdir + UPAGES].pa # mem[boot_pgdir + UENVS].pa
    BY <1>0, <1>1, <1>4 DEF MapInv
  <2> QED
    BY <2>1, <2>2, <2>3
<1>8. CASE i >= full
  <2>1. /\ BootTypeOK' /\ ChunkInv' /\ InitInv' /\ pc' = "envs"
        /\ mem' = mem /\ chunks' = chunks /\ i' = i
    <3>1. pc = "map pages" \/ pc = "map envs"
      BY <1>1
    <3>2. "envs" = "envs" \/ "envs" = "page_init"
      OBVIOUS
    <3> QED
      BY <1>0, <1>1, <1>2, <1>8, <3>1, <3>2, MapEnd
  <2>2. i = full
    BY <1>3, <1>8, <1>i
  <2>3. MapInv'
    <3>1. PagesFilled' = i /\ EnvsFilled' = rest
      BY <1>7, <2>1, <2>2
    <3> HIDE DEF rest
    <3> QED
      BY <1>1, <1>3, <1>5, <1>i, <2>1, <3>1 DEF MapInv
  <2> QED
    BY <2>1, <2>3 DEF BInv
<1>9. CASE i < full
  <2>1. MapBefore(UPAGES, UENVS, n, pages, envs, rest)
    <3> HIDE DEF rest
    <3> QED
      BY <1>1, <1>9, <1>i DEF MapBefore
  <2>2. /\ BootTypeOK' /\ ChunkInv' /\ InitInv' /\ pc' \in {pc, "panic"}
        /\ i' = i + BY2PG /\ i' % BY2PG = 0 /\ i' <= full /\ i' # 0
        /\ pc' # "panic" => MapAfter(UPAGES, UENVS, pages, envs, rest)
    <3> HIDE DEF n, rest
    <3> QED
      BY <1>0, <1>1, <1>2, <1>6, <2>1, MapTurn
  <2>3. MapInv'
    <3> SUFFICES ASSUME pc' \notin {"pgdir", "panic"} PROVE MapInv'
      BY DEF MapInv
    <3>1. PagesFilled' = i' /\ EnvsFilled' = rest
      <4>1. pc' = pc
        BY <2>2
      <4> QED
        BY <1>7, <4>1
    <3> HIDE DEF rest
    <3>2. /\ chunks \subseteq chunks'
          /\ Table(mem', boot_pgdir, chunks', UPAGES, pages, i')
          /\ Table(mem', boot_pgdir, chunks', UENVS, envs, rest)
          /\ \A k \in 0 .. BY2PG - 1 : k # UPAGES => mem'[boot_pgdir + k] = mem[boot_pgdir + k]
          /\ rest # 0 => mem'[boot_pgdir + UPAGES].pa # mem'[boot_pgdir + UENVS].pa
      BY <2>2 DEF MapAfter
    <3>3. \A k \in 0 .. BY2PG - 1 : k \notin {UPAGES, UENVS} => mem'[boot_pgdir + k] = Zero
      BY <1>i, <3>2
    <3>4. Chunk(boot_pgdir, BY2PG) \in chunks'
      BY <1>i, <3>2
    <3> QED
      BY <1>1, <1>3, <1>5, <1>i, <2>2, <3>1, <3>2, <3>3, <3>4 DEF MapInv
  <2> QED
    BY <2>2, <2>3 DEF BInv
<1> QED
  BY <1>3, <1>8, <1>9, <1>i

LEMMA MapEnvsStep ==
  ASSUME BInv, MapEnvs
  PROVE  BInv'
<1> DEFINE n    == machine.envs
           full == ROUND(n, BY2PG)
           rest == ROUND(npage * SizeofPage, BY2PG)
<1>0. BootTypeOK /\ ChunkInv /\ InitInv /\ MapInv
  BY DEF BInv
<1>1. /\ pc = "map envs" /\ MapPage(UENVS, n, envs, {"PTE_R"}, "page_init")
      /\ UNCHANGED <<machine, boot_pgdir, pages, envs, pp_ref, free>>
  BY DEF MapEnvs
<1>2. n \in 1 .. BY2PG * BY2PG /\ n \in Nat \ {0}
  BY <1>0, MachineFacts, Regions
<1>3. full \in Nat /\ full % BY2PG = 0 /\ rest \in Nat /\ rest % BY2PG = 0
  BY <1>0, Regions
<1>4. EnvsFilled = i /\ PagesFilled = rest
  BY <1>1 DEF PagesFilled, EnvsFilled, Filled
<1>5. ROUND(npage * SizeofPage, BY2PG)' = ROUND(npage * SizeofPage, BY2PG)
      /\ ROUND(machine.envs, BY2PG)' = ROUND(machine.envs, BY2PG)
  BY <1>1 DEF ROUND, npage, SizeofPage
<1>6. /\ UENVS \in 0 .. BY2PG - 1 /\ UPAGES \in 0 .. BY2PG - 1 /\ UENVS # UPAGES
  BY BootMemAssumption
<1>7. ASSUME pc' = pc \/ pc' = "page_init"
      PROVE  /\ PagesFilled' = rest
             /\ pc' = pc => EnvsFilled' = i'
             /\ pc' = "page_init" => EnvsFilled' = full
  <2>1. CASE pc' = "map envs"
    BY <1>1, <1>5, <2>1 DEF PagesFilled, EnvsFilled, Filled
  <2>2. CASE pc' = "page_init"
    BY <1>1, <1>5, <2>2 DEF PagesFilled, EnvsFilled, Filled
  <2> QED
    BY <1>1, <1>7, <2>1, <2>2
<1>i. /\ i \in Nat /\ i % BY2PG = 0 /\ i <= full
      /\ rest <= ROUND(npage * SizeofPage, BY2PG)
      /\ Chunk(boot_pgdir, BY2PG) \in chunks
      /\ \A k \in 0 .. BY2PG - 1 : k \notin {UPAGES, UENVS} => mem[boot_pgdir + k] = Zero
      /\ Table(mem, boot_pgdir, chunks, UENVS, envs, i)
      /\ Table(mem, boot_pgdir, chunks, UPAGES, pages, rest)
      /\ i # 0 /\ rest # 0 => mem[boot_pgdir + UENVS].pa # mem[boot_pgdir + UPAGES].pa
  <2> HIDE DEF rest
  <2>1. /\ i \in Nat /\ i % BY2PG = 0 /\ i <= full /\ rest <= ROUND(npage * SizeofPage, BY2PG)
    BY <1>0, <1>1, <1>4 DEF MapInv, BootTypeOK
  <2>2. /\ Chunk(boot_pgdir, BY2PG) \in chunks
        /\ \A k \in 0 .. BY2PG - 1 : k \notin {UPAGES, UENVS} => mem[boot_pgdir + k] = Zero
        /\ Table(mem, boot_pgdir, chunks, UENVS, envs, i)
        /\ Table(mem, boot_pgdir, chunks, UPAGES, pages, rest)
    BY <1>0, <1>1, <1>4 DEF MapInv
  <2>3. i # 0 /\ rest # 0 => mem[boot_pgdir + UENVS].pa # mem[boot_pgdir + UPAGES].pa
    BY <1>0, <1>1, <1>4 DEF MapInv
  <2> QED
    BY <2>1, <2>2, <2>3
<1>8. CASE i >= full
  <2>1. /\ BootTypeOK' /\ ChunkInv' /\ InitInv' /\ pc' = "page_init"
        /\ mem' = mem /\ chunks' = chunks /\ i' = i
    <3>1. pc = "map pages" \/ pc = "map envs"
      BY <1>1
    <3>2. "page_init" = "envs" \/ "page_init" = "page_init"
      OBVIOUS
    <3> QED
      BY <1>0, <1>1, <1>2, <1>8, <3>1, <3>2, MapEnd
  <2>2. i = full
    BY <1>3, <1>8, <1>i
  <2>3. MapInv'
    <3>1. EnvsFilled' = i /\ PagesFilled' = rest
      BY <1>7, <2>1, <2>2
    <3> HIDE DEF rest
    <3> QED
      BY <1>1, <1>3, <1>5, <1>i, <2>1, <3>1 DEF MapInv
  <2> QED
    BY <2>1, <2>3 DEF BInv
<1>9. CASE i < full
  <2>1. MapBefore(UENVS, UPAGES, n, envs, pages, rest)
    <3> HIDE DEF rest
    <3> QED
      BY <1>1, <1>9, <1>i DEF MapBefore
  <2>2. /\ BootTypeOK' /\ ChunkInv' /\ InitInv' /\ pc' \in {pc, "panic"}
        /\ i' = i + BY2PG /\ i' % BY2PG = 0 /\ i' <= full /\ i' # 0
        /\ pc' # "panic" => MapAfter(UENVS, UPAGES, envs, pages, rest)
    <3> HIDE DEF n, rest
    <3> QED
      BY <1>0, <1>1, <1>2, <1>6, <2>1, MapTurn
  <2>3. MapInv'
    <3> SUFFICES ASSUME pc' \notin {"pgdir", "panic"} PROVE MapInv'
      BY DEF MapInv
    <3>1. EnvsFilled' = i' /\ PagesFilled' = rest
      <4>1. pc' = pc
        BY <2>2
      <4> QED
        BY <1>7, <4>1
    <3> HIDE DEF rest
    <3>2. /\ chunks \subseteq chunks'
          /\ Table(mem', boot_pgdir, chunks', UENVS, envs, i')
          /\ Table(mem', boot_pgdir, chunks', UPAGES, pages, rest)
          /\ \A k \in 0 .. BY2PG - 1 : k # UENVS => mem'[boot_pgdir + k] = mem[boot_pgdir + k]
          /\ rest # 0 => mem'[boot_pgdir + UENVS].pa # mem'[boot_pgdir + UPAGES].pa
      BY <2>2 DEF MapAfter
    <3>3. \A k \in 0 .. BY2PG - 1 : k \notin {UPAGES, UENVS} => mem'[boot_pgdir + k] = Zero
      BY <1>i, <3>2
    <3>4. Chunk(boot_pgdir, BY2PG) \in chunks'
      BY <1>i, <3>2
    <3> QED
      BY <1>1, <1>3, <1>5, <1>i, <2>2, <3>1, <3>2, <3>3, <3>4 DEF MapInv
  <2> QED
    BY <2>2, <2>3 DEF BInv
<1> QED
  BY <1>3, <1>8, <1>9, <1>i

\* page_init rounds freemem up: past every chunk, and not past the memory.
LEMMA PageInitStep ==
  ASSUME BInv, PageInit
  PROVE  BInv'
<1>b. BY2PG \in Nat /\ 0 < BY2PG
  BY BootMemAssumption
<1>0. BootTypeOK /\ ChunkInv /\ InitInv /\ MapInv
  BY DEF BInv
<1> DEFINE up == ROUND(freemem, BY2PG)
<1>1. /\ pc = "page_init" /\ pc' = "init" /\ i' = 0 /\ free' = << >> /\ freemem' = up
      /\ UNCHANGED <<machine, mem, boot_pgdir, pages, envs, pp_ref, chunks>>
  BY DEF PageInit
<1>2. /\ npage \in Nat /\ maxpa \in Nat /\ maxpa % BY2PG = 0 /\ machine.end \in Nat
      /\ freemem \in Nat /\ freemem < maxpa
  BY <1>0, <1>1, MachineFacts DEF BootTypeOK, ChunkInv
<1>3. up \in Nat /\ up % BY2PG = 0 /\ freemem <= up /\ up < freemem + BY2PG
  BY <1>2, RoundFacts
<1> HIDE DEF up
<1>4. up <= maxpa
  <2>1. maxpa < up => maxpa + BY2PG <= up
    BY <1>2, <1>3, MultipleLess
  <2> QED
    BY <1>b, <1>2, <1>3, <2>1
<1>5. npage' = npage /\ maxpa' = maxpa /\ Addr' = Addr /\ Used' = Used
  BY <1>1 DEF npage, maxpa, Addr, Used, Words, PPN
<1>6. BootTypeOK'
  <2>1. Range(free') = {}
    BY <1>1 DEF Range
  <2>2. {freemem', boot_pgdir', pages', envs', i'} \subseteq Nat
    BY <1>0, <1>1, <1>3 DEF BootTypeOK
  <2> QED
    BY <1>0, <1>1, <1>5, <2>1, <2>2 DEF BootTypeOK
<1>7. ChunkInv'
  <2>1. /\ freemem # 0 /\ freemem' # 0 /\ machine.end <= freemem'
    BY <1>0, <1>1, <1>2, <1>3 DEF ChunkInv
  <2>2. \A ch \in chunks' : /\ ch = Chunk(ch.at, ch.n) /\ ch.at \in Nat /\ ch.n \in Nat \ {0}
                            /\ ch.at % BY2PG = 0 /\ machine'.end <= ch.at
                            /\ ch.at + ch.n <= freemem'
    <3>1. \A ch \in chunks : /\ ch = Chunk(ch.at, ch.n) /\ ch.at \in Nat /\ ch.n \in Nat \ {0}
                             /\ ch.at % BY2PG = 0 /\ machine.end <= ch.at
                             /\ ch.at + ch.n <= freemem
      BY <1>0 DEF ChunkInv
    <3>2. \A ch \in chunks : ch.at + ch.n <= up
      BY <1>2, <1>3, <3>1
    <3> QED
      BY <1>1, <3>1, <3>2
  <2>3. ASSUME NEW p \in 0 .. npage - 1, p * BY2PG < up PROVE p \in Used
    <3> DEFINE x == p * BY2PG
    <3>1. p \in Nat
      BY <1>2
    <3>2. x \in Nat /\ x % BY2PG = 0
      BY <3>1, Multiple
    <3>3. x < up
      BY <2>3
    <3> HIDE DEF x
    <3>4. x + BY2PG <= up
      BY <1>3, <3>2, <3>3, MultipleLess
    <3>5. x < freemem
      BY <1>b, <1>2, <1>3, <3>2, <3>4
    <3> QED
      BY <1>0, <3>5 DEF ChunkInv, x
  <2>4. \A p \in 0 .. npage' - 1 : p * BY2PG < freemem' => p \in Used'
    BY <1>1, <1>5, <2>3
  <2>5. \A c, d \in chunks' : c = d \/ c.at + c.n <= d.at \/ d.at + d.n <= c.at
    BY <1>0, <1>1 DEF ChunkInv
  <2>6. \A a \in Addr' : a < machine'.end => mem'[a] = Image
    BY <1>0, <1>1, <1>5 DEF ChunkInv
  <2>7. freemem' <= maxpa'
    BY <1>1, <1>4, <1>5
  <2> QED
    BY <1>1, <2>1, <2>2, <2>4, <2>5, <2>6, <2>7 DEF ChunkInv
<1>8. MapInv'
  <2>1. PagesFilled' = PagesFilled /\ EnvsFilled' = EnvsFilled
    BY <1>1 DEF PagesFilled, EnvsFilled, Filled, npage, SizeofPage
  <2>2. ROUND(npage * SizeofPage, BY2PG)' = ROUND(npage * SizeofPage, BY2PG)
        /\ ROUND(machine.envs, BY2PG)' = ROUND(machine.envs, BY2PG)
    BY <1>1 DEF ROUND, npage, SizeofPage
  <2> QED
    BY <1>0, <1>1, <2>1, <2>2 DEF MapInv
<1>9. InitInv'
  <2>1. PPN(up) \in Nat
    BY <1>3, Multiple
  <2>2. pp_ref' = [p \in 0 .. npage' - 1 |-> IF p < i' /\ p < PPN(freemem') THEN 1 ELSE 0]
    <3>1. \A p \in 0 .. npage - 1 : ~(p < 0)
      OBVIOUS
    <3>2. pp_ref = [p \in 0 .. npage - 1 |-> 0]
      BY <1>0, <1>1 DEF InitInv
    <3> QED
      BY <1>1, <1>5, <3>1, <3>2
  <2>3. free' = [k \in 1 .. (IF i' <= PPN(freemem') THEN 0 ELSE i' - PPN(freemem')) |-> i' - k]
    <3>1. (IF i' <= PPN(freemem') THEN 0 ELSE i' - PPN(freemem')) = 0
      BY <1>1, <2>1
    <3>2. free' = [k \in 1 .. 0 |-> i' - k]
      BY <1>1
    <3> QED
      BY <3>1, <3>2
  <2>4. i' <= npage'
    BY <1>1, <1>2, <1>5
  <2> QED
    BY <1>1, <1>3, <2>2, <2>3, <2>4 DEF InitInv, PPN
<1> QED
  BY <1>6, <1>7, <1>8, <1>9 DEF BInv

\* What is on the list when page_init has done the pages below i.
FreeList(first, n) == [k \in 1 .. (IF n <= first THEN 0 ELSE n - first) |-> n - k]

LEMMA FreeListNone ==
  ASSUME NEW first \in Nat, NEW n \in Nat, n <= first
  PROVE  FreeList(first, n) = << >>
<1>1. FreeList(first, n) = [k \in 1 .. 0 |-> n - k]
  BY DEF FreeList
<1>2. 1 .. 0 = {}
  OBVIOUS
<1> QED
  BY <1>1, <1>2

\* The next page goes to the head of that list.
LEMMA FreeListGrows ==
  ASSUME NEW first \in Nat, NEW n \in Nat, first <= n
  PROVE  <<n>> \o FreeList(first, n) = FreeList(first, n + 1)
<1> DEFINE len == n - first
           s   == FreeList(first, n)
<1>1. len \in Nat /\ (IF n <= first THEN 0 ELSE n - first) = len
      /\ (IF n + 1 <= first THEN 0 ELSE n + 1 - first) = len + 1
  OBVIOUS
<1>2. s = [k \in 1 .. len |-> n - k] /\ FreeList(first, n + 1) = [k \in 1 .. len + 1 |-> n + 1 - k]
  <2> DEFINE c == IF n <= first THEN 0 ELSE n - first
             d == IF n + 1 <= first THEN 0 ELSE n + 1 - first
  <2>1. s = [k \in 1 .. c |-> n - k] /\ FreeList(first, n + 1) = [k \in 1 .. d |-> n + 1 - k]
    BY DEF FreeList
  <2>2. c = len /\ d = len + 1
    BY <1>1
  <2> HIDE DEF c, d, s, len
  <2> QED
    BY <2>1, <2>2
<1> HIDE DEF len, s
<1>3. s \in Seq(Int) /\ Len(s) = len
  BY <1>1, <1>2
<1>4. <<n>> \in Seq(Int) /\ Len(<<n>>) = 1 /\ <<n>>[1] = n
  OBVIOUS
<1>5. /\ <<n>> \o s \in Seq(Int) /\ Len(<<n>> \o s) = 1 + len
      /\ \A k \in 1 .. 1 + len : (<<n>> \o s)[k] = IF k <= 1 THEN <<n>>[k] ELSE s[k - 1]
  BY <1>3, <1>4, ConcatProperties
<1> DEFINE t == <<n>> \o s
<1> HIDE DEF t
<1>6. t \in Seq(Int) /\ Len(t) = 1 + len
  BY <1>5 DEF t
<1>7. ASSUME NEW k \in 1 .. len + 1 PROVE t[k] = n + 1 - k
  <2>1. t[k] = IF k <= 1 THEN <<n>>[k] ELSE s[k - 1]
    BY <1>1, <1>5 DEF t
  <2>2. CASE k = 1
    BY <1>4, <2>1, <2>2
  <2>3. CASE k # 1
    <3>1. k - 1 \in 1 .. len /\ ~(k <= 1)
      BY <1>1, <2>3
    <3>2. s[k - 1] = n - (k - 1)
      BY <1>2, <3>1
    <3> QED
      BY <2>1, <3>1, <3>2
  <2> QED
    BY <2>2, <2>3
<1>8. DOMAIN t = 1 .. len + 1 /\ t = [k \in DOMAIN t |-> t[k]]
  BY <1>1, <1>6
<1>9. t = [k \in 1 .. len + 1 |-> n + 1 - k]
  BY <1>7, <1>8
<1> QED
  BY <1>2, <1>9 DEF t, s

LEMMA FreeListRange ==
  ASSUME NEW first \in Nat, NEW n \in Nat
  PROVE  Range(FreeList(first, n)) = first .. n - 1
<1> DEFINE len == IF n <= first THEN 0 ELSE n - first
<1>1. FreeList(first, n) = [k \in 1 .. len |-> n - k] /\ len \in Nat
  BY DEF FreeList
<1>2. ASSUME NEW k \in 1 .. len PROVE n - k \in first .. n - 1
  OBVIOUS
<1>3. ASSUME NEW p \in first .. n - 1 PROVE n - p \in 1 .. len /\ p = n - (n - p)
  OBVIOUS
<1> HIDE DEF len
<1>4. Range(FreeList(first, n)) = {n - k : k \in 1 .. len}
  BY <1>1 DEF Range
<1> QED
  BY <1>2, <1>3, <1>4

LEMMA InitPageStep ==
  ASSUME BInv, InitPage
  PROVE  BInv'
<1>0. BootTypeOK /\ ChunkInv /\ InitInv /\ MapInv
  BY DEF BInv
<1> DEFINE first == PPN(freemem)
<1>1. /\ pc = "init" /\ UNCHANGED <<machine, mem, freemem, boot_pgdir, pages, envs, chunks>>
      /\ \/ i = npage /\ pc' = "done" /\ UNCHANGED <<i, pp_ref, free>>
         \/ /\ i # npage /\ i' = i + 1 /\ pc' = pc
            /\ pp_ref' = [pp_ref EXCEPT ![i] = IF i < first THEN 1 ELSE 0]
            /\ free' = IF i < first THEN free ELSE <<i>> \o free
  BY DEF InitPage
<1>2. npage \in Nat /\ freemem \in Nat /\ i \in Nat /\ first \in Nat
  <2>1. npage \in Nat /\ freemem \in Nat /\ i \in Nat
    BY <1>0, MachineFacts DEF BootTypeOK
  <2> QED
    BY <2>1, Multiple
<1>3. /\ i <= npage /\ freemem % BY2PG = 0
      /\ pp_ref = [p \in 0 .. npage - 1 |-> IF p < i /\ p < first THEN 1 ELSE 0]
      /\ free = FreeList(first, i)
  BY <1>0, <1>1 DEF InitInv, FreeList
<1>4. npage' = npage /\ maxpa' = maxpa /\ Addr' = Addr /\ Used' = Used /\ first' = first
  BY <1>1 DEF npage, maxpa, Addr, Used, Words, PPN
<1>p. pc' \in {"init", "done"}
  BY <1>1
<1> HIDE DEF first
<1>5. /\ i' \in Nat /\ i' <= npage /\ (pc' = "done" => i' = npage)
      /\ pp_ref' = [p \in 0 .. npage - 1 |-> IF p < i' /\ p < first THEN 1 ELSE 0]
      /\ free' = FreeList(first, i')
  <2>1. CASE i = npage /\ pc' = "done" /\ UNCHANGED <<i, pp_ref, free>>
    BY <1>2, <1>3, <2>1
  <2>2. CASE /\ i # npage /\ i' = i + 1 /\ pc' = pc
             /\ pp_ref' = [pp_ref EXCEPT ![i] = IF i < first THEN 1 ELSE 0]
             /\ free' = IF i < first THEN free ELSE <<i>> \o free
    <3>1. i' \in Nat /\ i' <= npage /\ pc' # "done"
      BY <1>1, <1>2, <1>3, <2>2
    <3>2. pp_ref' = [p \in 0 .. npage - 1 |-> IF p < i' /\ p < first THEN 1 ELSE 0]
      <4>1. i \in 0 .. npage - 1
        BY <1>2, <1>3, <2>2
      <4>2. pp_ref' = [p \in 0 .. npage - 1 |-> IF p = i THEN (IF i < first THEN 1 ELSE 0)
                                                ELSE IF p < i /\ p < first THEN 1 ELSE 0]
        BY <1>3, <2>2, <4>1
      <4>3. ASSUME NEW p \in 0 .. npage - 1
            PROVE  (IF p = i THEN (IF i < first THEN 1 ELSE 0) ELSE IF p < i /\ p < first THEN 1 ELSE 0)
                   = IF p < i + 1 /\ p < first THEN 1 ELSE 0
        <5>1. p < i + 1 <=> p = i \/ p < i
          BY <1>2, <4>3
        <5>2. ~(i < i)
          BY <1>2
        <5> QED
          BY <5>1, <5>2
      <4> QED
        BY <2>2, <4>2, <4>3
    <3>3. free' = FreeList(first, i')
      <4>1. CASE i < first
        <5>1. FreeList(first, i) = FreeList(first, i + 1)
          <6>1. i <= first /\ i + 1 <= first /\ i + 1 \in Nat
            BY <1>2, <4>1
          <6> QED
            BY <1>2, <6>1, FreeListNone
        <5> QED
          BY <1>3, <2>2, <4>1, <5>1
      <4>2. CASE ~(i < first)
        <5>1. <<i>> \o FreeList(first, i) = FreeList(first, i + 1)
          BY <1>2, <4>2, FreeListGrows
        <5> QED
          BY <1>3, <2>2, <4>2, <5>1
      <4> QED
        BY <4>1, <4>2
    <3> QED
      BY <3>1, <3>2, <3>3
  <2> QED
    BY <1>1, <2>1, <2>2
<1>6. BootTypeOK'
  <2>1. Range(free') \subseteq 0 .. npage' - 1
    <3>1. Range(FreeList(first, i')) = first .. i' - 1
      BY <1>2, <1>5, FreeListRange
    <3>2. Range(free') = first .. i' - 1
      BY <1>5, <3>1
    <3>3. first .. i' - 1 \subseteq 0 .. npage' - 1
      <4>1. first \in Nat /\ i' \in Nat /\ i' <= npage'
        BY <1>2, <1>4, <1>5
      <4>2. \A p \in first .. i' - 1 : p \in 0 .. npage' - 1
        <5> DEFINE n == npage'
                   m == i'
        <5>1. first \in Nat /\ m \in Nat /\ n \in Nat /\ m <= n
          BY <1>2, <1>4, <4>1
        <5> HIDE DEF n, m
        <5>2. \A p \in first .. m - 1 : p \in 0 .. n - 1
          BY <5>1
        <5> QED
          BY <5>2 DEF n, m
      <4> QED
        BY <4>2
    <3> QED
      BY <3>2, <3>3
  <2>2. pp_ref' \in [0 .. npage' - 1 -> 0 .. 1]
    BY <1>4, <1>5
  <2>3. {freemem', boot_pgdir', pages', envs', i'} \subseteq Nat
    BY <1>0, <1>1, <1>5 DEF BootTypeOK
  <2>4. /\ machine' = machine /\ mem' = mem /\ chunks' = chunks
    BY <1>1
  <2> QED
    BY <1>0, <1>4, <1>p, <2>1, <2>2, <2>3, <2>4 DEF BootTypeOK
<1>7. ChunkInv'
  <2>1. /\ machine' = machine /\ mem' = mem /\ chunks' = chunks /\ freemem' = freemem
    BY <1>1
  <2>2. pc # "pgdir" /\ pc' # "pgdir" /\ pc # "panic" /\ pc' # "panic" /\ pc \in {"init", "done"}
    BY <1>1, <1>p
  <2> QED
    BY <1>0, <1>4, <1>p, <2>1, <2>2 DEF ChunkInv
<1>8. MapInv'
  <2>1. PagesFilled' = PagesFilled /\ EnvsFilled' = EnvsFilled
    BY <1>1, <1>p DEF PagesFilled, EnvsFilled, Filled, npage, SizeofPage
  <2>2. ROUND(npage * SizeofPage, BY2PG)' = ROUND(npage * SizeofPage, BY2PG)
        /\ ROUND(machine.envs, BY2PG)' = ROUND(machine.envs, BY2PG)
    BY <1>1 DEF ROUND, npage, SizeofPage
  <2>3. pc \notin {"pgdir", "panic"} /\ mem' = mem /\ chunks' = chunks /\ boot_pgdir' = boot_pgdir
        /\ pages' = pages /\ envs' = envs
    BY <1>1
  <2> QED
    BY <1>0, <2>1, <2>2, <2>3 DEF MapInv
<1>9. InitInv'
  <2>1. freemem' % BY2PG = 0 /\ PPN(freemem)' = first
    BY <1>1, <1>3, <1>4 DEF first
  <2> QED
    BY <1>4, <1>5, <1>p, <2>1 DEF InitInv, FreeList
<1> QED
  BY <1>6, <1>7, <1>8, <1>9 DEF BInv

-----------------------------------------------------------------------------
(***************************************************************************)
(* The invariant, and what follows from it.                                *)
(***************************************************************************)

LEMMA StutterStep ==
  ASSUME BInv, UNCHANGED vars
  PROVE  BInv'
<1>1. /\ machine' = machine /\ pc' = pc /\ mem' = mem /\ freemem' = freemem
      /\ boot_pgdir' = boot_pgdir /\ pages' = pages /\ envs' = envs /\ i' = i
      /\ pp_ref' = pp_ref /\ free' = free /\ chunks' = chunks
  BY DEF vars
<1>2. /\ npage' = npage /\ maxpa' = maxpa /\ Addr' = Addr /\ Used' = Used
      /\ PagesFilled' = PagesFilled /\ EnvsFilled' = EnvsFilled
      /\ ROUND(npage * SizeofPage, BY2PG)' = ROUND(npage * SizeofPage, BY2PG)
      /\ ROUND(machine.envs, BY2PG)' = ROUND(machine.envs, BY2PG)
      /\ PPN(freemem)' = PPN(freemem)
  BY <1>1 DEF npage, maxpa, Addr, Used, Words, PPN, PagesFilled, EnvsFilled, Filled, ROUND, SizeofPage
<1>3. BootTypeOK'
  BY <1>1, <1>2 DEF BInv, BootTypeOK
<1>4. ChunkInv'
  BY <1>1, <1>2 DEF BInv, ChunkInv
<1>5. MapInv'
  BY <1>1, <1>2 DEF BInv, MapInv
<1>6. InitInv'
  BY <1>1, <1>2 DEF BInv, InitInv
<1> QED
  BY <1>3, <1>4, <1>5, <1>6 DEF BInv

LEMMA AlwaysBInv == Spec => []BInv
<1>1. ASSUME BInv, [Next]_vars PROVE BInv'
  <2>1. CASE AllocPgdir
    BY <1>1, <2>1, PgdirStep
  <2>2. CASE AllocPages
    BY <1>1, <2>2, PagesStep
  <2>3. CASE AllocEnvs
    BY <1>1, <2>3, EnvsStep
  <2>4. CASE MapPages
    BY <1>1, <2>4, MapPagesStep
  <2>5. CASE MapEnvs
    BY <1>1, <2>5, MapEnvsStep
  <2>6. CASE PageInit
    BY <1>1, <2>6, PageInitStep
  <2>7. CASE InitPage
    BY <1>1, <2>7, InitPageStep
  <2>8. CASE UNCHANGED vars
    BY <1>1, <2>8, StutterStep
  <2> QED
    BY <1>1, <2>1, <2>2, <2>3, <2>4, <2>5, <2>6, <2>7, <2>8 DEF Next
<1> QED
  BY InitHolds, <1>1, PTL DEF Spec

\* Boot keeps to its types whatever machine it runs on: the loops of
\* boot_map_segment and page_init stay inside the memory, the tables and the
\* array of struct Page.
THEOREM BootTyped == Spec => []BootTypeOK
<1>1. BInv => BootTypeOK
  BY DEF BInv
<1> QED
  BY AlwaysBInv, <1>1, PTL

LEMMA ChunksImplied ==
  ASSUME BInv
  PROVE  ChunksApart
<1>b. BY2PG \in Nat /\ 0 < BY2PG
  BY BootMemAssumption
<1>0. BootTypeOK /\ ChunkInv
  BY DEF BInv
<1>1. maxpa \in Nat /\ freemem \in Nat /\ machine.end \in Nat
  BY <1>0, MachineFacts DEF BootTypeOK
<1>2. \A ch \in chunks : /\ ch.at \in Nat /\ ch.n \in Nat \ {0} /\ ch.at % BY2PG = 0
                         /\ machine.end <= ch.at /\ ch.at + ch.n <= freemem
  BY <1>0 DEF ChunkInv
<1>3. pc # "panic" => freemem <= maxpa
  BY <1>0, <1>1 DEF ChunkInv
<1>4. ASSUME NEW ch \in chunks, pc # "panic" PROVE Words(ch) \subseteq Addr
  <2>1. ch.at \in Nat /\ ch.n \in Nat /\ ch.at + ch.n <= maxpa
    BY <1>1, <1>2, <1>3, <1>4
  <2> QED
    BY <1>1, <2>1 DEF Words, Addr
<1>5. ASSUME NEW c \in chunks, NEW d \in chunks, c.at + c.n <= d.at,
             NEW a \in Words(c), NEW e \in Words(d)
      PROVE  PPN(a) # PPN(e)
  <2>1. c.at \in Nat /\ c.n \in Nat /\ d.at \in Nat /\ d.n \in Nat /\ d.at % BY2PG = 0
    BY <1>2
  <2>2. a \in Nat /\ e \in Nat /\ a < d.at /\ d.at <= e
    BY <1>5, <2>1 DEF Words
  <2>3. PPN(a) < PPN(d.at) /\ ~(PPN(e) < PPN(d.at))
    <3>1. a < d.at <=> PPN(a) < PPN(d.at)
      BY <2>1, <2>2, PageLess
    <3>2. e < d.at <=> PPN(e) < PPN(d.at)
      BY <2>1, <2>2, PageLess
    <3> QED
      BY <2>1, <2>2, <3>1, <3>2
  <2> QED
    BY <2>3
<1>6. ASSUME NEW c \in chunks, NEW d \in chunks, c # d
      PROVE  {PPN(a) : a \in Words(c)} \cap {PPN(a) : a \in Words(d)} = {}
  <2>1. c.at + c.n <= d.at \/ d.at + d.n <= c.at
    BY <1>0, <1>6 DEF ChunkInv
  <2>2. \A a \in Words(c), e \in Words(d) : PPN(a) # PPN(e)
    BY <1>5, <2>1
  <2> QED
    BY <2>2
<1>7. \A a \in Addr : a < machine.end => mem[a] = Image
  BY <1>0 DEF ChunkInv
<1> QED
  BY <1>2, <1>4, <1>6, <1>7 DEF ChunksApart

\* Whatever the image's end and the sizes are, alloc's chunks share no page
\* with one another or with the image, and lie in the memory unless alloc has
\* panicked.
THEOREM ChunksCorrect == Spec => []ChunksApart
BY AlwaysBInv, ChunksImplied, PTL

LEMMA HandOverImplied ==
  ASSUME BInv
  PROVE  HandOver
<1>b. BY2PG \in Nat /\ 0 < BY2PG
  BY BootMemAssumption
<1> SUFFICES ASSUME pc = "done"
             PROVE  /\ pp_ref = P!page_init_ref /\ free = P!page_init_free
                    /\ Used \cap Range(free) = {}
                    /\ Used \cup Range(free) = 0 .. npage - 1
  BY DEF HandOver, Used
<1>0. BootTypeOK /\ ChunkInv /\ InitInv
  BY DEF BInv
<1> DEFINE first == PPN(freemem)
<1>1. npage \in Nat /\ maxpa \in Nat /\ PPN(maxpa) = npage /\ maxpa % BY2PG = 0 /\ freemem \in Nat /\ machine.end \in Nat
  BY <1>0, MachineFacts DEF BootTypeOK
<1>2. /\ i = npage /\ freemem % BY2PG = 0 /\ freemem <= maxpa /\ machine.end <= freemem
      /\ pp_ref = [p \in 0 .. npage - 1 |-> IF p < i /\ p < first THEN 1 ELSE 0]
      /\ free = FreeList(first, i)
  <2>1. /\ freemem # 0 /\ freemem <= maxpa /\ machine.end <= freemem
    BY <1>0 DEF ChunkInv
  <2>2. i <= npage /\ i = npage /\ freemem % BY2PG = 0
    BY <1>0 DEF InitInv
  <2> QED
    BY <1>0, <2>1, <2>2 DEF InitInv, FreeList
<1>3. first \in Nat /\ first <= npage /\ first * BY2PG = freemem
  <2>1. first \in Nat /\ freemem = first * BY2PG
    BY <1>1, <1>2, Multiple
  <2>2. maxpa < freemem <=> PPN(maxpa) < PPN(freemem)
    BY <1>1, <1>2, PageLess
  <2>3. ~(npage < first)
    BY <1>1, <1>2, <2>2
  <2> QED
    BY <1>1, <2>1, <2>3
<1>n. freemem \div BY2PG = first
  BY DEF PPN
<1> HIDE DEF first
<1>4. pp_ref = P!page_init_ref
  <2>1. P!page_init_ref = [p \in 0 .. npage - 1 |-> IF p < first THEN 1 ELSE 0]
    BY <1>n DEF P!page_init_ref, P!AllPages
  <2>2. \A p \in 0 .. npage - 1 : p < i
    BY <1>1, <1>2
  <2> QED
    BY <1>2, <2>1, <2>2
<1>5. free = P!page_init_free
  <2>1. P!page_init_free = [k \in 1 .. npage - first |-> npage - k]
    BY <1>n DEF P!page_init_free
  <2> DEFINE c == IF i <= first THEN 0 ELSE i - first
  <2>2. free = [k \in 1 .. c |-> i - k]
    BY <1>2 DEF FreeList
  <2>3. c = npage - first
    BY <1>1, <1>2, <1>3
  <2> HIDE DEF c
  <2> QED
    BY <1>2, <2>1, <2>2, <2>3
<1>6. Range(free) = first .. npage - 1
  <2>1. Range(FreeList(first, npage)) = first .. npage - 1
    BY <1>1, <1>3, FreeListRange
  <2> QED
    BY <1>2, <2>1
<1>7. ASSUME NEW p \in Used PROVE p \in 0 .. first - 1
  <2>1. PICK a \in Nat : a < freemem /\ p = PPN(a)
    <3>1. CASE \E a \in 0 .. machine.end - 1 : p = PPN(a)
      BY <1>1, <1>2, <3>1
    <3>2. CASE \E ch \in chunks : \E a \in Words(ch) : p = PPN(a)
      <4>1. PICK ch \in chunks : \E a \in Words(ch) : p = PPN(a)
        BY <3>2
      <4>2. ch.at \in Nat /\ ch.n \in Nat /\ ch.at + ch.n <= freemem
        BY <1>0 DEF ChunkInv
      <4>3. PICK a \in Words(ch) : p = PPN(a)
        BY <4>1
      <4>4. a \in Nat /\ a < freemem
        BY <1>1, <4>2 DEF Words
      <4> QED
        BY <4>3, <4>4
    <3> QED
      BY <3>1, <3>2, UsedForm
  <2>2. PPN(a) < PPN(freemem) /\ PPN(a) \in Nat
    BY <1>1, <1>2, <2>1, PageLess, Multiple
  <2> QED
    BY <1>3, <2>1, <2>2 DEF first
<1>8. ASSUME NEW p \in 0 .. first - 1 PROVE p \in Used
  <2>1. p \in Nat /\ p < first /\ p \in 0 .. npage - 1
    BY <1>1, <1>3
  <2>2. p * BY2PG < first * BY2PG
    BY <1>3, <2>1, TimesLess
  <2> QED
    BY <1>0, <1>3, <2>1, <2>2 DEF ChunkInv
<1>9. Used = 0 .. first - 1
  BY <1>7, <1>8
<1>10. Used \cap Range(free) = {} /\ Used \cup Range(free) = 0 .. npage - 1
  BY <1>1, <1>3, <1>6, <1>9
<1> QED
  BY <1>4, <1>5, <1>10

\* The page allocator starts as Pmap's does, with exactly the pages on its
\* list that neither the image nor a chunk uses.
THEOREM HandOverCorrect == Spec => []HandOver
BY AlwaysBInv, HandOverImplied, PTL

\* The pages of a region are the ones its table maps.
LEMMA RegionPages ==
  ASSUME NEW n \in 1 .. BY2PG * BY2PG
  PROVE  /\ PPN(n - 1) \in 0 .. BY2PG - 1
         /\ \A j \in 0 .. BY2PG - 1 : j * BY2PG < ROUND(n, BY2PG) <=> j \in 0 .. PPN(n - 1)
<1>b. BY2PG \in Nat /\ 0 < BY2PG
  BY BootMemAssumption
<1>0. BY2PG * BY2PG \in Nat /\ n \in Nat /\ 1 <= n /\ n <= BY2PG * BY2PG
  BY <1>b, Z3
<1> DEFINE q == PPN(n - 1)
           r == ROUND(n, BY2PG)
<1>1. n - 1 \in Nat
  BY <1>0
<1>2. q \in Nat /\ q * BY2PG <= n - 1 /\ n - 1 < q * BY2PG + BY2PG /\ q * BY2PG \in Nat
  BY <1>1, Multiple
<1>3. r \in Nat /\ r % BY2PG = 0 /\ n <= r /\ r < n + BY2PG
  BY <1>0, RoundFacts
<1>4. (BY2PG * BY2PG) % BY2PG = 0 /\ PPN(BY2PG * BY2PG) = BY2PG
  BY <1>b, Multiple
<1>5. q < BY2PG
  <2>1. n - 1 < BY2PG * BY2PG
    BY <1>0
  <2>2. n - 1 < BY2PG * BY2PG <=> PPN(n - 1) < PPN(BY2PG * BY2PG)
    BY <1>0, <1>1, <1>4, PageLess
  <2> QED
    BY <1>4, <2>1, <2>2
<1> HIDE DEF q, r
<1>6. ASSUME NEW j \in 0 .. BY2PG - 1 PROVE j * BY2PG < r <=> j <= q
  <2> DEFINE x == j * BY2PG
             y == q * BY2PG
  <2>1. j \in Nat
    BY <1>b
  <2>2. x \in Nat /\ x % BY2PG = 0
    BY <2>1, Multiple
  <2>3. /\ q < j => y + BY2PG <= x
        /\ j < q => x + BY2PG <= y
    BY <1>2, <2>1, TimesLess
  <2>4. j = q => x = y
    OBVIOUS
  <2>y. y \in Nat /\ y <= n - 1 /\ n - 1 < y + BY2PG
    BY <1>2
  <2> HIDE DEF x, y
  <2>5. x < r => x + BY2PG <= r
    BY <1>3, <2>2, MultipleLess
  <2>6. x < r <=> j <= q
    <3>1. CASE q < j
      <4>1. n <= x
        BY <1>0, <1>b, <2>2, <2>3, <2>y, <3>1
      <4>2. ~(x < r)
        BY <1>0, <1>b, <1>3, <2>2, <2>5, <4>1
      <4> QED
        BY <1>2, <2>1, <3>1, <4>2
    <3>2. CASE ~(q < j)
      <4>1. x <= y
        BY <1>b, <1>2, <2>1, <2>2, <2>3, <2>4, <2>y, <3>2
      <4>2. x < r
        BY <1>0, <1>3, <2>2, <2>y, <4>1
      <4> QED
        BY <1>2, <2>1, <3>2, <4>2
    <3> QED
      BY <3>1, <3>2
  <2> QED
    BY <2>6 DEF x
<1>7. q \in 0 .. BY2PG - 1
  BY <1>b, <1>2, <1>5
<1>8. \A j \in 0 .. BY2PG - 1 : j <= q <=> j \in 0 .. q
  BY <1>b, <1>2
<1> QED
  BY <1>6, <1>7, <1>8 DEF q, r

\* A full table holds the region, and Zero behind it.
LEMMA FullTable ==
  ASSUME BootTypeOK, NEW n \in 1 .. BY2PG * BY2PG, NEW pdx, NEW at,
         ROUND(n, BY2PG) # 0,
         Table(mem, boot_pgdir, chunks, pdx, at, ROUND(n, BY2PG))
  PROVE  /\ mem[boot_pgdir + pdx] # Zero
         /\ \A j \in 0 .. BY2PG - 1 :
              LET w == mem[mem[boot_pgdir + pdx].pa + j]
              IN  IF j \in 0 .. PPN(n - 1) THEN w # Zero /\ w = Entry(at + j * BY2PG, {"PTE_R"})
                  ELSE w = Zero
<1> DEFINE e == mem[boot_pgdir + pdx]
<1>1. /\ e = Entry(e.pa, {})
      /\ \A j \in 0 .. BY2PG - 1 :
           mem[e.pa + j] = IF j * BY2PG < ROUND(n, BY2PG) THEN Entry(at + j * BY2PG, {"PTE_R"}) ELSE Zero
  BY DEF Table
<1>2. e # Zero
  BY <1>1, EntryNotZero
<1>3. \A j \in 0 .. BY2PG - 1 : j * BY2PG < ROUND(n, BY2PG) <=> j \in 0 .. PPN(n - 1)
  BY RegionPages
<1>4. \A pa : Entry(pa, {"PTE_R"}) # Zero
  BY EntryNotZero
<1> QED
  BY <1>1, <1>2, <1>3, <1>4

LEMMA MapsImplied ==
  ASSUME BInv
  PROVE  MapsExact
<1> SUFFICES ASSUME pc \in {"page_init", "init", "done"} PROVE MapsExact
  BY DEF MapsExact
<1>0. BootTypeOK /\ MapInv
  BY DEF BInv
<1> DEFINE np == npage * SizeofPage
           ne == machine.envs
           p  == Region(UPAGES, pages, np)
           e  == Region(UENVS, envs, ne)
           word(s) == mem[mem[boot_pgdir + s[1]].pa + s[2]]
           dom == ({UPAGES} \X (0 .. PPN(np - 1))) \cup ({UENVS} \X (0 .. PPN(ne - 1)))
           tables == {k \in 0 .. BY2PG - 1 : mem[boot_pgdir + k] # Zero}
           slots  == {s \in tables \X (0 .. BY2PG - 1) : word(s) # Zero}
<1>1. np \in 1 .. BY2PG * BY2PG /\ ne \in 1 .. BY2PG * BY2PG
  BY <1>0, MachineFacts, Regions
<1>2. /\ UPAGES \in 0 .. BY2PG - 1 /\ UENVS \in 0 .. BY2PG - 1 /\ UPAGES # UENVS
  BY BootMemAssumption
<1>3. /\ Table(mem, boot_pgdir, chunks, UPAGES, pages, ROUND(np, BY2PG))
      /\ Table(mem, boot_pgdir, chunks, UENVS, envs, ROUND(ne, BY2PG))
      /\ \A k \in 0 .. BY2PG - 1 : k \notin {UPAGES, UENVS} => mem[boot_pgdir + k] = Zero
  <2>1. PagesFilled = ROUND(np, BY2PG) /\ EnvsFilled = ROUND(ne, BY2PG)
    BY DEF PagesFilled, EnvsFilled, Filled
  <2> HIDE DEF np, ne
  <2> QED
    BY <1>0, <2>1 DEF MapInv
<1>4. /\ mem[boot_pgdir + UPAGES] # Zero /\ mem[boot_pgdir + UENVS] # Zero
      /\ \A j \in 0 .. BY2PG - 1 :
           /\ j \in 0 .. PPN(np - 1) => word(<<UPAGES, j>>) # Zero /\ word(<<UPAGES, j>>) = Entry(pages + j * BY2PG, {"PTE_R"})
           /\ j \notin 0 .. PPN(np - 1) => word(<<UPAGES, j>>) = Zero
           /\ j \in 0 .. PPN(ne - 1) => word(<<UENVS, j>>) # Zero /\ word(<<UENVS, j>>) = Entry(envs + j * BY2PG, {"PTE_R"})
           /\ j \notin 0 .. PPN(ne - 1) => word(<<UENVS, j>>) = Zero
  <2>1. ROUND(np, BY2PG) # 0 /\ ROUND(ne, BY2PG) # 0
    BY <1>0, Regions
  <2> HIDE DEF np, ne
  <2>2. /\ mem[boot_pgdir + UPAGES] # Zero
        /\ \A j \in 0 .. BY2PG - 1 :
             LET w == mem[mem[boot_pgdir + UPAGES].pa + j]
             IN  IF j \in 0 .. PPN(np - 1) THEN w # Zero /\ w = Entry(pages + j * BY2PG, {"PTE_R"})
                 ELSE w = Zero
    BY <1>0, <1>1, <1>3, <2>1, FullTable
  <2>3. /\ mem[boot_pgdir + UENVS] # Zero
        /\ \A j \in 0 .. BY2PG - 1 :
             LET w == mem[mem[boot_pgdir + UENVS].pa + j]
             IN  IF j \in 0 .. PPN(ne - 1) THEN w # Zero /\ w = Entry(envs + j * BY2PG, {"PTE_R"})
                 ELSE w = Zero
    BY <1>0, <1>1, <1>3, <2>1, FullTable
  <2> QED
    BY <2>2, <2>3
<1>5. PPN(np - 1) \in 0 .. BY2PG - 1 /\ PPN(ne - 1) \in 0 .. BY2PG - 1
  <2> HIDE DEF np, ne
  <2> QED
    BY <1>1, RegionPages
<1>6. \A j \in 0 .. PPN(np - 1) : j \in 0 .. BY2PG - 1
  <2> DEFINE q == PPN(np - 1)
  <2>1. q \in 0 .. BY2PG - 1 /\ BY2PG \in Nat
    BY <1>5, BootMemAssumption
  <2> HIDE DEF q
  <2>2. \A j \in 0 .. q : j \in 0 .. BY2PG - 1
    BY <2>1
  <2> QED
    BY <2>2 DEF q
<1>7. \A j \in 0 .. PPN(ne - 1) : j \in 0 .. BY2PG - 1
  <2> DEFINE q == PPN(ne - 1)
  <2>1. q \in 0 .. BY2PG - 1 /\ BY2PG \in Nat
    BY <1>5, BootMemAssumption
  <2> HIDE DEF q
  <2>2. \A j \in 0 .. q : j \in 0 .. BY2PG - 1
    BY <2>1
  <2> QED
    BY <2>2 DEF q
<1>8. DOMAIN p = {UPAGES} \X (0 .. PPN(np - 1)) /\ DOMAIN e = {UENVS} \X (0 .. PPN(ne - 1))
  BY DEF Region
<1>9. tables = {UPAGES, UENVS}
  BY <1>2, <1>3, <1>4
<1>v. /\ \A s \in {UPAGES} \X (0 .. PPN(np - 1)) : p[s] = Entry(pages + s[2] * BY2PG, {"PTE_R"})
      /\ \A s \in {UENVS} \X (0 .. PPN(ne - 1)) : e[s] = Entry(envs + s[2] * BY2PG, {"PTE_R"})
  BY DEF Region
<1>m. Mapped = [s \in slots |-> word(s)]
  BY DEF Mapped
<1> HIDE DEF np, ne, p, e, tables, word
<1>10. slots = dom
  <2>1. ASSUME NEW s \in slots PROVE s \in dom
    <3>1. s \in tables \X (0 .. BY2PG - 1) /\ word(s) # Zero
      OBVIOUS
    <3>2. PICK k \in tables, j \in 0 .. BY2PG - 1 : s = <<k, j>>
      BY <3>1
    <3>3. CASE k = UPAGES
      BY <1>4, <3>1, <3>2, <3>3
    <3>4. CASE k = UENVS
      BY <1>4, <3>1, <3>2, <3>4
    <3> QED
      BY <1>9, <3>2, <3>3, <3>4
  <2>2. ASSUME NEW s \in dom PROVE s \in slots
    <3>1. CASE s \in {UPAGES} \X (0 .. PPN(np - 1))
      <4>1. PICK j \in 0 .. PPN(np - 1) : s = <<UPAGES, j>>
        BY <3>1
      <4>2. j \in 0 .. BY2PG - 1 /\ UPAGES \in tables
        BY <1>6, <1>9
      <4>3. word(s) # Zero
        BY <1>4, <4>1, <4>2
      <4> QED
        BY <4>1, <4>2, <4>3
    <3>2. CASE s \in {UENVS} \X (0 .. PPN(ne - 1))
      <4>1. PICK j \in 0 .. PPN(ne - 1) : s = <<UENVS, j>>
        BY <3>2
      <4>2. j \in 0 .. BY2PG - 1 /\ UENVS \in tables
        BY <1>7, <1>9
      <4>3. word(s) # Zero
        BY <1>4, <4>1, <4>2
      <4> QED
        BY <4>1, <4>2, <4>3
    <3> QED
      BY <3>1, <3>2
  <2> QED
    BY <2>1, <2>2
<1>11. ASSUME NEW s \in dom
       PROVE  word(s) = IF s \in DOMAIN p THEN p[s] ELSE e[s]
  <2>1. CASE s \in {UPAGES} \X (0 .. PPN(np - 1))
    <3>1. PICK j \in 0 .. PPN(np - 1) : s = <<UPAGES, j>>
      BY <2>1
    <3>2. word(s) = Entry(pages + j * BY2PG, {"PTE_R"})
      BY <1>4, <1>6, <3>1
    <3>3. p[s] = Entry(pages + j * BY2PG, {"PTE_R"})
      BY <1>v, <2>1, <3>1
    <3> QED
      BY <1>8, <2>1, <3>2, <3>3
  <2>2. CASE s \in {UENVS} \X (0 .. PPN(ne - 1))
    <3>1. PICK j \in 0 .. PPN(ne - 1) : s = <<UENVS, j>>
      BY <2>2
    <3>2. word(s) = Entry(envs + j * BY2PG, {"PTE_R"})
      BY <1>4, <1>7, <3>1
    <3>3. e[s] = Entry(envs + j * BY2PG, {"PTE_R"})
      BY <1>v, <2>2, <3>1
    <3>4. s \notin DOMAIN p
      BY <1>2, <1>8, <3>1
    <3> QED
      BY <3>2, <3>3, <3>4
  <2> QED
    BY <2>1, <2>2
<1>12. Mapped = [s \in DOMAIN p \cup DOMAIN e |-> IF s \in DOMAIN p THEN p[s] ELSE e[s]]
  <2> HIDE DEF slots, dom
  <2>1. Mapped = [s \in dom |-> word(s)]
    BY <1>10, <1>m
  <2>2. dom = DOMAIN p \cup DOMAIN e
    BY <1>8 DEF dom
  <2> QED
    BY <1>11, <2>1, <2>2
<1> QED
  BY <1>12 DEF MapsExact, np, ne, p, e

\* boot_pgdir maps UPAGES and UENVS to the arrays, page by page and with PTE_R
\* (so that users can store there), and nothing else, whatever was in the memory
\* before (mips_vm_init, boot_map_segment, boot_pgdir_walk).
THEOREM MapsCorrect == Spec => []MapsExact
BY AlwaysBInv, MapsImplied, PTL
=============================================================================
