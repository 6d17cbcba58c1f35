--------------------------- MODULE ElfLoadProofs ----------------------------
(***************************************************************************)
(* What ElfLoad guarantees for every program, page size and amount of      *)
(* memory: the loader keeps the counts and the free list exact, and a      *)
(* program whose segments are on pages of their own is in memory whole     *)
(* when it is done.                                                        *)
(*                                                                         *)
(* The lemmas of PmapLemmas are about memories of page table words, and    *)
(* the pages the loader fills hold bytes.  So the invariant is stated of   *)
(* Entries(m), in which what is not a page table word reads as clear; the  *)
(* functions of Pmap do not see the difference.                            *)
(***************************************************************************)
EXTENDS ElfLoad, PmapLemmas

Entry(w) == IF w \in Word THEN w ELSE Zero
Entries(x) ==
  [x EXCEPT !.mem = [q \in AllPages |-> [k \in Idx |-> Entry(x.mem[q][k])]]]

\* The type of m, and the pages of it that hold page table words only.
Raw == [free : Seq(Page), ref : [AllPages -> 0 .. RefMax],
        mem : [AllPages -> [Idx -> ProgramByte]], tlb : SUBSET TlbEntry, asid : AllPages]
Tidy(x) == {q \in AllPages : x.mem[q] \in [Idx -> Word]}

\* The pages neither counted nor free: in somebody's hands, or lost.
Away(x) == {q \in Page : x.ref[q] = 0 /\ q \notin Freed(x)}

Sound(x, H) ==
  /\ x \in Raw /\ Good(Entries(x), Dirs, H, {})
  /\ live(Entries(x), Dirs) \cup {LowPage} \subseteq Tidy(x)

MemInv == Sound(m, Away(m)) /\ held \subseteq Away(m) /\ (Away(m) # held => failed)

\* load_icode_mapper's variables: tempVa never gets far ahead of i, so no page is
\* mapped behind the segment's end; the page in p may be mapped again and again
\* after page_alloc has failed, but not as often as pp_ref can count.
Mapping == pc \in {"first", "bin", "sg"}
Copying == pc \in {"bin", "sg"}

CursorInv ==
  /\ Mapping => /\ ph <= Len(image.seg) /\ seg.load
                /\ tempVa % BY2PG = 0 /\ ROUND(seg.va) <= tempVa
  /\ pc = "first" => offset > 0 /\ tempVa = ROUND(seg.va) /\ p = NULL
  /\ Copying =>
       /\ tempVa <= ROUND(seg.va) + i + BY2PG
       /\ i + BY2PG < Wrap \/ tempVa = ROUND(seg.va)
       /\ p # NULL => /\ p \notin Freed(m) \cup held \cup live(Entries(m), Dirs)
                      /\ m.ref[p] * BY2PG <= tempVa - ROUND(seg.va) + BY2PG

IInv ==
  /\ TypeOK /\ image \in Programs
  /\ pc \in {"load_icode", "load_elf", "first", "bin", "sg"} \/ Returned
  /\ MemInv /\ CursorInv

-----------------------------------------------------------------------------
(***************************************************************************)
(* Addresses and page numbers.                                             *)
(***************************************************************************)

LEMMA DivMod ==
  ASSUME NEW n \in Nat, NEW b \in Nat \ {0}
  PROVE  n = (n \div b) * b + (n % b) /\ n % b \in 0 .. b - 1 /\ n \div b \in Nat
BY SMTT(30)

LEMMA DivModUnique ==
  ASSUME NEW b \in Nat \ {0}, NEW q \in Nat, NEW r \in 0 .. b - 1
  PROVE  (q * b + r) % b = r /\ (q * b + r) \div b = q
<1> DEFINE n == q * b + r
<1>1. n \in Nat
  BY Z3
<1>2. n = b * (n \div b) + (n % b) /\ n % b \in 0 .. b - 1 /\ n \div b \in Int
  BY <1>1, SMTT(30)
<1> QED
  BY <1>1, <1>2, SMTT(30)

LEMMA Times ==
  ASSUME NEW b \in Nat \ {0}, NEW j \in Nat, NEW k \in Nat
  PROVE  j * b \in Nat /\ (j + 1) * b = j * b + b /\ (j < k => j * b + b <= k * b)
         /\ (j <= k => j * b <= k * b)
<1>1. j * b \in Nat /\ k * b \in Nat /\ (j + 1) * b = j * b + b
  BY Z3
<1>2. ASSUME j < k PROVE (j + 1) * b <= k * b
  <2>1. k = (j + 1) + (k - (j + 1)) /\ k - (j + 1) \in Nat
    BY <1>2
  <2>2. k * b = (j + 1) * b + (k - (j + 1)) * b /\ (k - (j + 1)) * b \in Nat
    BY <2>1, Z3
  <2> QED
    BY <1>1, <2>2
<1>3. ASSUME j <= k PROVE j * b <= k * b
  BY <1>1, <1>2, <1>3
<1> QED
  BY <1>1, <1>2, <1>3

LEMMA ByteNumbers == BY2PG \in Nat \ {0} /\ Wrap \in Nat \ {0} /\ BY2PG < Wrap
BY ElfLoadAssumption

LEMMA PageNumber ==
  ASSUME NEW a \in Nat
  PROVE  /\ VPN(a) \in Nat /\ a % BY2PG \in 0 .. BY2PG - 1
         /\ a = VPN(a) * BY2PG + (a % BY2PG) /\ VPN(a) * BY2PG \in Nat
<1>1. /\ a = (a \div BY2PG) * BY2PG + (a % BY2PG)
      /\ a % BY2PG \in 0 .. BY2PG - 1 /\ a \div BY2PG \in Nat
  BY ByteNumbers, DivMod
<1>2. (a \div BY2PG) * BY2PG \in Nat
  BY <1>1, ByteNumbers, Times
<1> QED
  BY <1>1, <1>2, Zenon DEF VPN

\* A byte's page is the one whose bounds it lies in.
LEMMA PageOf ==
  ASSUME NEW n \in Nat, NEW a \in Nat, n * BY2PG <= a, a < n * BY2PG + BY2PG
  PROVE  VPN(a) = n /\ a % BY2PG = a - n * BY2PG
<1> DEFINE r == a - n * BY2PG
<1>1. n * BY2PG \in Nat
  BY ByteNumbers, Times
<1>2. r \in 0 .. BY2PG - 1 /\ a = n * BY2PG + r
  BY <1>1, ByteNumbers
<1> HIDE DEF r
<1>3. (n * BY2PG + r) % BY2PG = r /\ (n * BY2PG + r) \div BY2PG = n
  BY <1>2, ByteNumbers, DivModUnique
<1>4. a % BY2PG = r /\ VPN(a) = n
  BY <1>2, <1>3 DEF VPN
<1> QED
  BY <1>4 DEF r

LEMMA PageOrder ==
  ASSUME NEW a \in Nat, NEW b \in Nat, a <= b
  PROVE  VPN(a) <= VPN(b)
<1>1. /\ VPN(a) \in Nat /\ VPN(b) \in Nat
      /\ VPN(a) * BY2PG <= a /\ b < VPN(b) * BY2PG + BY2PG
  <2>1. /\ a = VPN(a) * BY2PG + (a % BY2PG) /\ a % BY2PG \in 0 .. BY2PG - 1
        /\ VPN(a) \in Nat /\ VPN(a) * BY2PG \in Nat
    BY PageNumber
  <2>2. /\ b = VPN(b) * BY2PG + (b % BY2PG) /\ b % BY2PG \in 0 .. BY2PG - 1
        /\ VPN(b) \in Nat /\ VPN(b) * BY2PG \in Nat
    BY PageNumber
  <2> DEFINE u == VPN(a) * BY2PG
             v == VPN(b) * BY2PG
             r == a % BY2PG
             s == b % BY2PG
  <2>3. a = u + r /\ r \in 0 .. BY2PG - 1 /\ u \in Nat /\ b = v + s /\ s \in 0 .. BY2PG - 1 /\ v \in Nat
    BY <2>1, <2>2
  <2> HIDE DEF u, v, r, s
  <2>4. u <= a /\ b < v + BY2PG
    BY <2>3, ByteNumbers
  <2> QED
    BY <2>1, <2>2, <2>4, Zenon DEF u, v
<1>2. VPN(b) < VPN(a) => VPN(b) * BY2PG + BY2PG <= VPN(a) * BY2PG
  BY <1>1, ByteNumbers, Times
<1>3. VPN(a) * BY2PG \in Nat /\ VPN(b) * BY2PG \in Nat
  BY <1>1, ByteNumbers, Times
<1> QED
  BY <1>1, <1>2, <1>3, ByteNumbers

LEMMA Rounding ==
  ASSUME NEW a \in Nat
  PROVE  /\ ROUNDDOWN(a) = VPN(a) * BY2PG /\ a - ROUNDDOWN(a) = a % BY2PG
         /\ a % BY2PG = 0 => ROUND(a) = a
         /\ a % BY2PG > 0 => ROUND(a) = VPN(a) * BY2PG + BY2PG
         /\ ROUND(a) \in Nat /\ ROUND(a) % BY2PG = 0
         /\ a <= ROUND(a) /\ ROUND(a) < a + BY2PG
<1> DEFINE n == VPN(a)
           r == a % BY2PG
<1>1. /\ n \in Nat /\ r \in 0 .. BY2PG - 1 /\ a = n * BY2PG + r /\ n * BY2PG \in Nat
      /\ (n + 1) * BY2PG = n * BY2PG + BY2PG
  BY PageNumber, ByteNumbers, Times
<1>2. ROUNDDOWN(a) = n * BY2PG
  BY DEF ROUNDDOWN, VPN
<1> HIDE DEF n, r
<1>3. CASE r = 0
  <2>1. a + BY2PG - 1 \in Nat /\ n * BY2PG <= a + BY2PG - 1 /\ a + BY2PG - 1 < n * BY2PG + BY2PG
    BY <1>1, <1>3, ByteNumbers
  <2>2. VPN(a + BY2PG - 1) = n
    BY <1>1, <2>1, PageOf
  <2>3. ROUND(a) = n * BY2PG
    BY <2>2 DEF ROUND, ROUNDDOWN, VPN
  <2> QED
    BY <1>1, <1>2, <1>3, <2>3, ByteNumbers DEF n, r
<1>4. CASE r > 0
  <2>1. /\ a + BY2PG - 1 \in Nat /\ (n + 1) * BY2PG <= a + BY2PG - 1
        /\ a + BY2PG - 1 < (n + 1) * BY2PG + BY2PG /\ n + 1 \in Nat
    BY <1>1, <1>4, ByteNumbers
  <2>2. VPN(a + BY2PG - 1) = n + 1
    BY <2>1, PageOf
  <2>3. ROUND(a) = n * BY2PG + BY2PG
    BY <1>1, <2>2 DEF ROUND, ROUNDDOWN, VPN
  <2>4. ((n + 1) * BY2PG) % BY2PG = 0
    <3>1. (n + 1) * BY2PG \in Nat /\ (n + 1) * BY2PG <= (n + 1) * BY2PG
      BY <1>1, ByteNumbers
    <3>2. ((n + 1) * BY2PG) % BY2PG = (n + 1) * BY2PG - (n + 1) * BY2PG
      BY <2>1, <3>1, ByteNumbers, PageOf
    <3> QED
      BY <3>1, <3>2
  <2> QED
    BY <1>1, <1>2, <1>4, <2>3, <2>4, ByteNumbers DEF n, r
<1> QED
  BY <1>1, <1>3, <1>4

PageNumbers == 0 .. BY2PG * BY2PG - 1

LEMMA VaType ==
  ASSUME NEW a \in Nat, VPN(a) \in PageNumbers
  PROVE  va(a) \in Va
<1> DEFINE n == VPN(a)
           q == n \div BY2PG
           r == n % BY2PG
<1>1. n \in Nat
  BY PageNumber
<1> HIDE DEF n
<1>2. n = q * BY2PG + r /\ r \in 0 .. BY2PG - 1 /\ q \in Nat
  BY <1>1, ByteNumbers, DivMod
<1>3. va(a) = <<q, r>>
  BY DEF va, n
<1> HIDE DEF q, r
<1>4. BY2PG * BY2PG \in Nat /\ q * BY2PG \in Nat /\ (BY2PG <= q => BY2PG * BY2PG <= q * BY2PG)
  BY <1>2, ByteNumbers, Times
<1>5. n < BY2PG * BY2PG
  BY <1>1, <1>4 DEF PageNumbers, n
<1>6. q < BY2PG
  <2> DEFINE bb == BY2PG * BY2PG
             qb == q * BY2PG
  <2>1. bb \in Nat /\ qb \in Nat /\ (BY2PG <= q => bb <= qb) /\ n < bb /\ n = qb + r
    BY <1>2, <1>4, <1>5
  <2> HIDE DEF bb, qb
  <2> QED
    BY <1>2, <2>1, ByteNumbers
<1> QED
  BY <1>2, <1>3, <1>6, ElfLoadAssumption DEF Va

LEMMA VaSame ==
  ASSUME NEW a \in Nat, NEW b \in Nat
  PROVE  va(a) = va(b) <=> VPN(a) = VPN(b)
<1>1. VPN(a) = VPN(b) => va(a) = va(b)
  BY DEF va
<1>2. ASSUME va(a) = va(b) PROVE VPN(a) = VPN(b)
  <2>1. VPN(a) \div BY2PG = VPN(b) \div BY2PG /\ VPN(a) % BY2PG = VPN(b) % BY2PG
    BY <1>2 DEF va
  <2>2. /\ VPN(a) = (VPN(a) \div BY2PG) * BY2PG + (VPN(a) % BY2PG)
        /\ VPN(b) = (VPN(b) \div BY2PG) * BY2PG + (VPN(b) % BY2PG)
    <3>1. VPN(a) \in Nat /\ VPN(b) \in Nat
      BY PageNumber
    <3> QED
      BY <3>1, ByteNumbers, DivMod
  <2> QED
    BY <2>1, <2>2, Zenon
<1> QED
  BY <1>1, <1>2

LEMMA Stack ==
  /\ StackPage \in Nat /\ VPN(StackPage) = BY2PG * BY2PG - 1 /\ BY2PG * BY2PG \in Nat
  /\ \A a \in Nat : a <= StackPage => VPN(a) \in PageNumbers
  /\ \A a \in Nat : a < StackPage => VPN(a) # VPN(StackPage)
  /\ \A k \in 0 .. BY2PG - 1 :
       VPN(StackPage + k) = VPN(StackPage) /\ (StackPage + k) % BY2PG = k
<1> DEFINE n == BY2PG * BY2PG - 1
<1>1. n \in Nat /\ BY2PG * BY2PG \in Nat
  <2>1. BY2PG * BY2PG \in Nat /\ 1 * BY2PG <= BY2PG * BY2PG /\ 1 * BY2PG = BY2PG
    BY ByteNumbers, Times
  <2> QED
    BY <2>1, ByteNumbers
<1>p. PageNumbers = 0 .. n
  BY DEF PageNumbers
<1>2. StackPage = n * BY2PG
  BY DEF StackPage
<1> HIDE DEF n
<1>3. StackPage \in Nat
  BY <1>1, <1>2, ByteNumbers, Times
<1>4. ASSUME NEW k \in 0 .. BY2PG - 1
      PROVE  VPN(StackPage + k) = n /\ (StackPage + k) % BY2PG = k
  <2> DEFINE s == StackPage + k
  <2>1. s \in Nat /\ n * BY2PG <= s /\ s < n * BY2PG + BY2PG /\ s - n * BY2PG = k
    BY <1>2, <1>3, ByteNumbers
  <2> HIDE DEF s
  <2>2. VPN(s) = n /\ s % BY2PG = s - n * BY2PG
    BY <1>1, <2>1, PageOf
  <2> QED
    BY <2>1, <2>2 DEF s
<1>5. VPN(StackPage) = n
  <2>1. StackPage + 0 = StackPage /\ 0 \in 0 .. BY2PG - 1
    BY <1>3, ByteNumbers
  <2> QED
    BY <1>4, <2>1
<1>6. ASSUME NEW a \in Nat, a <= StackPage PROVE VPN(a) \in 0 .. n
  <2>1. VPN(a) <= VPN(StackPage) /\ VPN(a) \in Nat
    BY <1>3, <1>6, PageOrder, PageNumber
  <2> QED
    BY <1>1, <1>5, <2>1
<1>7. ASSUME NEW a \in Nat, a < StackPage PROVE VPN(a) # VPN(StackPage)
  <2>1. VPN(a) * BY2PG \in Nat /\ VPN(a) * BY2PG <= a
    <3>1. a = VPN(a) * BY2PG + (a % BY2PG) /\ VPN(a) * BY2PG \in Nat /\ a % BY2PG \in 0 .. BY2PG - 1
      BY PageNumber
    <3> QED
      BY <3>1, ByteNumbers
  <2> QED
    BY <1>2, <1>3, <1>5, <1>7, <2>1
<1> QED
  BY <1>1, <1>3, <1>4, <1>5, <1>6, <1>7, <1>p DEF n

-----------------------------------------------------------------------------
(***************************************************************************)
(* The functions of Pmap do not tell x from Entries(x).                    *)
(***************************************************************************)

LEMMA DirsType ==
  /\ env_pgdir \in Page /\ env_pgdir \in Dirs /\ Dirs \subseteq AllPages
  /\ boot_pgdir \in AllPages /\ boot_pgdir \notin Page /\ LowPage \notin Dirs
BY PmapAssumption DEF env_pgdir, boot_pgdir, Dirs, Page, AllPages, LowPage

LEMMA EntryWord == \A w : Entry(w) \in Word /\ (w \in Word => Entry(w) = w)
BY DEF Entry, Word

LEMMA WordByte == Word \subseteq ProgramByte /\ Zero \in Word /\ ZeroPage \in [Idx -> Word]
BY DEF ProgramByte, Word, ZeroPage

LEMMA SameState ==
  ASSUME NEW x \in MemState, NEW y \in MemState, x.free = y.free, x.ref = y.ref,
         x.mem = y.mem, x.tlb = y.tlb, x.asid = y.asid
  PROVE  x = y
BY DEF MemState

LEMMA EntriesType ==
  ASSUME NEW x \in Raw
  PROVE  LET y == Entries(x) IN
         /\ y \in MemState
         /\ y.free = x.free /\ y.ref = x.ref /\ y.tlb = x.tlb /\ y.asid = x.asid
         /\ y.mem = [q \in AllPages |-> [k \in Idx |-> Entry(x.mem[q][k])]]
         /\ \A s \in AllPages \X Idx : word(y, s) = Entry(word(x, s))
         /\ \A q \in Tidy(x) : y.mem[q] = x.mem[q]
<1> DEFINE y == Entries(x)
           f == [q \in AllPages |-> [k \in Idx |-> Entry(x.mem[q][k])]]
<1>1. f \in [AllPages -> [Idx -> Word]]
  BY EntryWord
<1>2. /\ y.free = x.free /\ y.ref = x.ref /\ y.tlb = x.tlb /\ y.asid = x.asid /\ y.mem = f
  BY DEF Entries, Raw
<1>3. y \in MemState
  BY <1>1, <1>2 DEF Entries, Raw, MemState
<1>4. ASSUME NEW s \in AllPages \X Idx PROVE word(y, s) = Entry(word(x, s))
  BY <1>2 DEF word
<1>5. ASSUME NEW q \in Tidy(x) PROVE y.mem[q] = x.mem[q]
  <2>1. q \in AllPages /\ x.mem[q] \in [Idx -> Word]
    BY DEF Tidy
  <2>2. \A k \in Idx : Entry(x.mem[q][k]) = x.mem[q][k]
    BY <2>1, EntryWord
  <2> QED
    BY <1>2, <2>1, <2>2
<1> QED
  BY <1>2, <1>3, <1>4, <1>5

LEMMA RawAlloc ==
  ASSUME NEW x \in Raw, ~page_alloc_fails(x)
  PROVE  LET y  == page_alloc(x)
             pp == page_alloc_pp(x) IN
         /\ y \in Raw /\ pp \in Page
         /\ y.free = Tail(x.free) /\ y.ref = x.ref /\ y.mem = [x.mem EXCEPT ![pp] = ZeroPage]
         /\ Entries(y) = page_alloc(Entries(x))
         /\ Tidy(x) \cup {pp} \subseteq Tidy(y)
<1> DEFINE y  == page_alloc(x)
           pp == page_alloc_pp(x)
           e  == Entries(x)
           z  == page_alloc(e)
<1>1. pp \in Page /\ pp \in AllPages /\ Tail(x.free) \in Seq(Page)
  BY PageFacts DEF page_alloc_fails, page_alloc_pp, Raw
<1>2. /\ y.free = Tail(x.free) /\ y.ref = x.ref /\ y.mem = [x.mem EXCEPT ![pp] = ZeroPage]
      /\ y.tlb = x.tlb /\ y.asid = x.asid
  BY DEF page_alloc, Raw
<1>3. y \in Raw
  <2>1. [x.mem EXCEPT ![pp] = ZeroPage] \in [AllPages -> [Idx -> ProgramByte]]
    BY <1>1, WordByte DEF Raw
  <2> HIDE DEF pp
  <2> QED
    BY <1>1, <2>1 DEF page_alloc, Raw, pp
<1>4. /\ e \in MemState /\ e.free = x.free /\ e.ref = x.ref /\ e.tlb = x.tlb /\ e.asid = x.asid
      /\ e.mem = [q \in AllPages |-> [k \in Idx |-> Entry(x.mem[q][k])]]
  BY EntriesType
<1>5. page_alloc_pp(e) = pp /\ ~page_alloc_fails(e)
  BY <1>4 DEF page_alloc_pp, page_alloc_fails
<1> HIDE DEF e
<1>6. z \in MemState
  BY <1>4, <1>5, AllocType
<1>7. /\ z.free = Tail(x.free) /\ z.ref = x.ref /\ z.tlb = x.tlb /\ z.asid = x.asid
      /\ z.mem = [e.mem EXCEPT ![pp] = ZeroPage]
  BY <1>4, <1>5 DEF page_alloc, MemState
<1> HIDE DEF y, z, pp
<1>8. /\ Entries(y) \in MemState /\ Entries(y).free = y.free /\ Entries(y).ref = y.ref
      /\ Entries(y).tlb = y.tlb /\ Entries(y).asid = y.asid
      /\ Entries(y).mem = [q \in AllPages |-> [k \in Idx |-> Entry(y.mem[q][k])]]
  BY <1>3, EntriesType
<1>9. Entries(y).mem = z.mem
  <2>1. ASSUME NEW q \in AllPages
        PROVE  [k \in Idx |-> Entry(y.mem[q][k])] = z.mem[q]
    <3>1. CASE q = pp
      <4>1. y.mem[q] = ZeroPage /\ z.mem[q] = ZeroPage
        BY <1>1, <1>2, <1>4, <1>7, <3>1 DEF Raw
      <4> QED
        BY <4>1, EntryWord, WordByte DEF ZeroPage
    <3>2. CASE q # pp
      <4>1. y.mem[q] = x.mem[q] /\ z.mem[q] = e.mem[q]
        BY <1>1, <1>2, <1>4, <1>7, <3>2 DEF Raw
      <4> QED
        BY <1>4, <4>1
    <3> QED
      BY <3>1, <3>2
  <2>2. z.mem = [q \in AllPages |-> z.mem[q]]
    BY <1>6 DEF MemState
  <2> QED
    BY <1>8, <2>1, <2>2
<1>10. Entries(y) = z
  BY <1>2, <1>6, <1>7, <1>8, <1>9, SameState
<1>11. Tidy(x) \cup {pp} \subseteq Tidy(y)
  BY <1>1, <1>2, WordByte DEF Tidy, Raw
<1> QED
  BY <1>1, <1>2, <1>3, <1>10, <1>11 DEF y, z, pp, e

LEMMA RawStore ==
  ASSUME NEW x \in Raw, NEW s \in AllPages \X Idx, NEW w \in Word
  PROVE  LET y == store(x, s, w) IN
         /\ y \in Raw
         /\ y.free = x.free /\ y.ref = x.ref /\ y.tlb = x.tlb /\ y.asid = x.asid
         /\ \A q \in AllPages : q # s[1] => y.mem[q] = x.mem[q]
         /\ Entries(y) = store(Entries(x), s, w)
         /\ Tidy(x) \subseteq Tidy(y)
<1> DEFINE y == store(x, s, w)
           e == Entries(x)
           z == store(e, s, w)
<1>1. /\ y.free = x.free /\ y.ref = x.ref /\ y.tlb = x.tlb /\ y.asid = x.asid
      /\ y.mem = [x.mem EXCEPT ![s[1]][s[2]] = w]
  BY DEF store, Raw
<1>w. w \in ProgramByte /\ s[1] \in AllPages /\ s[2] \in Idx
  BY WordByte
<1>2. y \in Raw
  BY <1>w DEF store, Raw
<1>3. /\ e \in MemState /\ e.free = x.free /\ e.ref = x.ref /\ e.tlb = x.tlb /\ e.asid = x.asid
      /\ e.mem = [q \in AllPages |-> [k \in Idx |-> Entry(x.mem[q][k])]]
  BY EntriesType
<1> HIDE DEF e
<1>4. /\ z \in MemState /\ z.free = x.free /\ z.ref = x.ref /\ z.tlb = x.tlb /\ z.asid = x.asid
      /\ z.mem = [e.mem EXCEPT ![s[1]][s[2]] = w]
  BY <1>3, StoreType DEF store, MemState
<1> HIDE DEF y, z
<1>5. /\ Entries(y) \in MemState /\ Entries(y).free = y.free /\ Entries(y).ref = y.ref
      /\ Entries(y).tlb = y.tlb /\ Entries(y).asid = y.asid
      /\ Entries(y).mem = [q \in AllPages |-> [k \in Idx |-> Entry(y.mem[q][k])]]
  BY <1>2, EntriesType
<1>6. \A q \in AllPages : q # s[1] => y.mem[q] = x.mem[q] /\ z.mem[q] = e.mem[q]
  BY <1>1, <1>3, <1>4 DEF Raw, MemState
<1>7. /\ y.mem[s[1]] = [x.mem[s[1]] EXCEPT ![s[2]] = w]
      /\ z.mem[s[1]] = [e.mem[s[1]] EXCEPT ![s[2]] = w]
  BY <1>1, <1>w, <1>3, <1>4 DEF Raw, MemState
<1>8. ASSUME NEW q \in AllPages, NEW k \in Idx PROVE Entry(y.mem[q][k]) = z.mem[q][k]
  <2>1. CASE q # s[1]
    BY <1>3, <1>6, <2>1
  <2>2. CASE q = s[1]
    <3>1. y.mem[q][k] = (IF k = s[2] THEN w ELSE x.mem[q][k])
          /\ z.mem[q][k] = (IF k = s[2] THEN w ELSE e.mem[q][k])
      BY <1>7, <1>w, <1>3, <2>2 DEF Raw, MemState
    <3> QED
      BY <1>3, <3>1, EntryWord
  <2> QED
    BY <2>1, <2>2
<1>9. Entries(y).mem = z.mem
  <2>1. z.mem = [q \in AllPages |-> [k \in Idx |-> z.mem[q][k]]]
    BY <1>4 DEF MemState
  <2> QED
    BY <1>5, <1>8, <2>1
<1>10. Entries(y) = z
  BY <1>1, <1>4, <1>5, <1>9, SameState
<1>11. Tidy(x) \subseteq Tidy(y)
  BY <1>6, <1>7, <1>w DEF Tidy
<1> QED
  BY <1>1, <1>2, <1>6, <1>10, <1>11 DEF y, z, e

\* What leaves the memory alone.
LEMMA RawOther ==
  ASSUME NEW x \in Raw, NEW pp \in Page, NEW u \in Va
  PROVE  /\ page_incref(x, pp) \in Raw /\ page_incref(x, pp).mem = x.mem
         /\ Entries(page_incref(x, pp)) = page_incref(Entries(x), pp)
         /\ page_decref(x, pp) \in Raw /\ page_decref(x, pp).mem = x.mem
         /\ Entries(page_decref(x, pp)) = page_decref(Entries(x), pp)
         /\ tlb_invalidate(x, u) \in Raw /\ tlb_invalidate(x, u).mem = x.mem
         /\ Entries(tlb_invalidate(x, u)) = tlb_invalidate(Entries(x), u)
<1> DEFINE e == Entries(x)
           n == page_incref(x, pp)
           d == page_decref(x, pp)
           t == tlb_invalidate(x, u)
<1>e. /\ e \in MemState /\ e.free = x.free /\ e.ref = x.ref /\ e.tlb = x.tlb /\ e.asid = x.asid
  BY EntriesType
<1>p. pp \in AllPages /\ \A k \in 0 .. RefMax : Inc(k) \in 0 .. RefMax /\ Dec(k) \in 0 .. RefMax
  BY PageFacts, CountType
<1>same. ASSUME NEW y \in Raw, NEW z \in MemState, y.mem = x.mem, z.mem = e.mem,
                z.free = y.free, z.ref = y.ref, z.tlb = y.tlb, z.asid = y.asid
         PROVE  Entries(y) = z
  <2>1. /\ Entries(y) \in MemState /\ Entries(y).free = y.free /\ Entries(y).ref = y.ref
        /\ Entries(y).tlb = y.tlb /\ Entries(y).asid = y.asid
        /\ Entries(y).mem = [q \in AllPages |-> [k \in Idx |-> Entry(y.mem[q][k])]]
    BY EntriesType
  <2>2. e.mem = [q \in AllPages |-> [k \in Idx |-> Entry(x.mem[q][k])]]
    BY EntriesType
  <2>3. Entries(y).mem = z.mem
    BY <1>same, <2>1, <2>2
  <2> QED
    BY <1>same, <2>1, <2>3, SameState
<1>i. /\ n \in Raw /\ n.mem = x.mem /\ n.free = x.free /\ n.tlb = x.tlb /\ n.asid = x.asid
      /\ n.ref = [x.ref EXCEPT ![pp] = Inc(@)]
  BY <1>p DEF page_incref, Raw
<1>1. Entries(n) = page_incref(e, pp)
  <2> DEFINE z == page_incref(e, pp)
  <2>1. z \in MemState
    BY <1>e, CountersType
  <2>2. /\ z.mem = e.mem /\ z.free = e.free /\ z.tlb = e.tlb /\ z.asid = e.asid
        /\ z.ref = [e.ref EXCEPT ![pp] = Inc(@)]
    BY <1>e DEF page_incref, MemState
  <2> HIDE DEF z, n, e
  <2> QED
    BY <1>e, <1>i, <1>same, <2>1, <2>2 DEF z
<1>d. LET c == [x EXCEPT !.ref[pp] = Dec(@)] IN
      /\ c \in Raw /\ c.mem = x.mem /\ c.free = x.free /\ c.tlb = x.tlb /\ c.asid = x.asid
      /\ c.ref = [x.ref EXCEPT ![pp] = Dec(@)]
  BY <1>p DEF Raw
<1>f. \A c \in Raw :
        LET y == page_free(c, pp) IN
        /\ y \in Raw /\ y.mem = c.mem /\ y.ref = c.ref /\ y.tlb = c.tlb /\ y.asid = c.asid
        /\ y.free = IF c.ref[pp] # 0 THEN c.free ELSE <<pp>> \o c.free
  <2> SUFFICES ASSUME NEW c \in Raw
               PROVE  LET y == page_free(c, pp) IN
        /\ y \in Raw /\ y.mem = c.mem /\ y.ref = c.ref /\ y.tlb = c.tlb /\ y.asid = c.asid
        /\ y.free = IF c.ref[pp] # 0 THEN c.free ELSE <<pp>> \o c.free
    OBVIOUS
  <2>1. <<pp>> \o c.free \in Seq(Page)
    BY DEF Raw
  <2> QED
    BY <2>1 DEF page_free, Raw
<1>2. d \in Raw /\ d.mem = x.mem /\ Entries(d) = page_decref(e, pp)
  <2> DEFINE c == [x EXCEPT !.ref[pp] = Dec(@)]
             b == [e EXCEPT !.ref[pp] = Dec(@)]
             z == page_decref(e, pp)
  <2>1. z \in MemState
    BY <1>e, CountersType
  <2>2. /\ b \in MemState /\ b.mem = e.mem /\ b.free = e.free /\ b.tlb = e.tlb /\ b.asid = e.asid
        /\ b.ref = [e.ref EXCEPT ![pp] = Dec(@)]
    BY <1>e, <1>p DEF MemState
  <2>3. z = page_free(b, pp) /\ d = page_free(c, pp)
    BY DEF page_decref
  <2>c. /\ c \in Raw /\ c.mem = x.mem /\ c.free = x.free /\ c.tlb = x.tlb /\ c.asid = x.asid
        /\ c.ref = [x.ref EXCEPT ![pp] = Dec(@)]
    BY <1>d
  <2> HIDE DEF z, d, b, c
  <2>4. /\ d \in Raw /\ d.mem = c.mem /\ d.ref = c.ref /\ d.tlb = c.tlb /\ d.asid = c.asid
        /\ d.free = IF c.ref[pp] # 0 THEN c.free ELSE <<pp>> \o c.free
    BY <1>f, <2>3, <2>c
  <2>5. /\ z.mem = b.mem /\ z.ref = b.ref /\ z.tlb = b.tlb /\ z.asid = b.asid
        /\ z.free = IF b.ref[pp] # 0 THEN b.free ELSE <<pp>> \o b.free
    <3>1. <<pp>> \o b.free \in Seq(Page)
      BY <2>2 DEF MemState
    <3> QED
      BY <2>2, <2>3, <3>1 DEF page_free, MemState
  <2> HIDE DEF e
  <2>6. b.ref = c.ref /\ b.free = c.free
    BY <1>e, <2>2, <2>c
  <2>7. Entries(d) = z
    BY <1>e, <1>same, <2>1, <2>2, <2>4, <2>5, <2>6, <2>c
  <2> QED
    BY <2>4, <2>7, <2>c DEF z
<1>t. /\ t \in Raw /\ t.mem = x.mem /\ t.free = x.free /\ t.ref = x.ref /\ t.asid = x.asid
      /\ t.tlb = {a \in x.tlb : ~(a.va = u /\ a.asid = x.asid)}
  BY DEF tlb_invalidate, Raw
<1>3. Entries(t) = tlb_invalidate(e, u)
  <2> DEFINE z == tlb_invalidate(e, u)
  <2>1. /\ z \in MemState /\ z.mem = e.mem /\ z.free = e.free /\ z.ref = e.ref /\ z.asid = e.asid
        /\ z.tlb = {a \in e.tlb : ~(a.va = u /\ a.asid = e.asid)}
    BY <1>e, InvalidateFacts
  <2> HIDE DEF z, t, e
  <2>2. z.tlb = t.tlb
    BY <1>e, <1>t, <2>1
  <2> QED
    BY <1>e, <1>t, <1>same, <2>1, <2>2 DEF z
<1> QED
  BY <1>i, <1>1, <1>2, <1>t, <1>3

LEMMA TidySame ==
  ASSUME NEW x, NEW y, y.mem = x.mem PROVE Tidy(y) = Tidy(x)
BY DEF Tidy

\* On directories and tables there is nothing but entries to see.
LEMMA SoundLookup ==
  ASSUME NEW x, NEW H, Sound(x, H), NEW d \in Dirs, NEW u \in Va
  PROVE  /\ pde(x, d, u) = pde(Entries(x), d, u) /\ pde(x, d, u) \in Word
         /\ walk(x, d, u) = walk(Entries(x), d, u) /\ walk(x, d, u) \in AllPages \X Idx
         /\ page_lookup(x, d, u) = page_lookup(Entries(x), d, u)
         /\ page_lookup(x, d, u) \in Word
         /\ refill_finds(x, d, u) = refill_finds(Entries(x), d, u)
<1> DEFINE e == Entries(x)
<1>x. x \in Raw /\ e \in MemState /\ Good(e, Dirs, H, {}) /\ d \in AllPages
  BY DirsType DEF Sound, Good
<1>t. \A q \in Tidy(x) : e.mem[q] = x.mem[q]
  BY <1>x, EntriesType
<1>1. pde(x, d, u) = pde(e, d, u)
  <2>1. d \in Tidy(x)
    BY DEF Sound, live
  <2> QED
    BY <1>t, <2>1 DEF pde
<1> HIDE DEF e
<1>2. walk(x, d, u) = walk(e, d, u)
  BY <1>1 DEF walk
<1>3. /\ pde(e, d, u) \in Word /\ walk(e, d, u) \in AllPages \X Idx /\ page_lookup(e, d, u) \in Word
  BY <1>x, WalkType
<1>4. walk(e, d, u)[1] \in Tidy(x)
  <2>1. CASE pde(e, d, u) = Zero
    BY <2>1 DEF Sound, walk
  <2>2. CASE pde(e, d, u) # Zero
    <3>1. walk(e, d, u)[1] \in tables(e, Dirs)
      BY <1>x, <2>2, Lookup
    <3> QED
      BY <3>1 DEF Sound, live, e
  <2> QED
    BY <2>1, <2>2
<1>5. page_lookup(x, d, u) = page_lookup(e, d, u)
  BY <1>2, <1>4, <1>t DEF page_lookup, word
<1> QED
  BY <1>1, <1>2, <1>3, <1>5 DEF refill_finds, e

LEMMA SoundClear ==
  ASSUME NEW x, NEW H, Sound(x, H), NEW d \in Dirs, NEW u \in Va
  PROVE  LET y == insert_clear(x, d, u) IN
         /\ Sound(y, H) /\ Entries(y) = insert_clear(Entries(x), d, u)
         /\ Tidy(x) \subseteq Tidy(y)
         /\ \A q \in AllPages : q # walk(x, d, u)[1] => y.mem[q] = x.mem[q]
         /\ page_lookup(x, d, u) = Zero => y.mem = x.mem /\ y.free = x.free
<1> DEFINE e == Entries(x)
           w == page_lookup(x, d, u)
           s == walk(x, d, u)
           r == page_remove(x, d, u)
           y == insert_clear(x, d, u)
<1>x. x \in Raw /\ Good(e, Dirs, H, {}) /\ live(e, Dirs) \cup {LowPage} \subseteq Tidy(x)
  BY DEF Sound
<1>w. /\ w = page_lookup(e, d, u) /\ s = walk(e, d, u) /\ s \in AllPages \X Idx /\ w \in Word
  BY SoundLookup
<1>1. /\ r \in Raw /\ Entries(r) = page_remove(e, d, u) /\ Tidy(x) \subseteq Tidy(r)
      /\ \A q \in AllPages : q # s[1] => r.mem[q] = x.mem[q]
      /\ w = Zero => r = x
  <2>1. CASE w = Zero
    <3>1. r = x
      BY <2>1 DEF page_remove
    <3>2. page_remove(e, d, u) = e
      BY <2>1, <1>w DEF page_remove
    <3> QED
      BY <3>1, <3>2, <1>x
  <2>2. CASE w # Zero
    <3> DEFINE z == page_decref(x, w.pg)
               c == store(z, s, Zero)
    <3>0. w.pg \in Page
      BY <1>w, <2>2 DEF Word, Pte
    <3>1. r = tlb_invalidate(c, u)
      BY <2>2 DEF page_remove
    <3>2. page_remove(e, d, u) = tlb_invalidate(store(page_decref(e, w.pg), s, Zero), u)
      BY <1>w, <2>2 DEF page_remove
    <3>3. z \in Raw /\ z.mem = x.mem /\ Entries(z) = page_decref(e, w.pg)
      BY <1>x, <3>0, RawOther
    <3> HIDE DEF z, w, s, e
    <3>4. /\ c \in Raw /\ Entries(c) = store(Entries(z), s, Zero) /\ Tidy(z) \subseteq Tidy(c)
          /\ \A q \in AllPages : q # s[1] => c.mem[q] = z.mem[q]
      BY <1>w, <3>3, RawStore, WordByte
    <3> HIDE DEF c
    <3>5. /\ tlb_invalidate(c, u) \in Raw /\ tlb_invalidate(c, u).mem = c.mem
          /\ Entries(tlb_invalidate(c, u)) = tlb_invalidate(Entries(c), u)
      BY <3>0, <3>4, RawOther
    <3> HIDE DEF r
    <3>6. Tidy(z) = Tidy(x) /\ Tidy(r) = Tidy(c)
      BY <3>1, <3>3, <3>5, TidySame
    <3> QED
      BY <2>2, <3>1, <3>2, <3>3, <3>4, <3>5, <3>6
  <2> QED
    BY <2>1, <2>2
<1>2. y = tlb_invalidate(r, u) /\ insert_clear(e, d, u) = tlb_invalidate(page_remove(e, d, u), u)
  BY DEF insert_clear
<1> HIDE DEF e, w, s, r
<1>n. PICK pp \in Page : TRUE
  BY DirsType
<1>3. /\ tlb_invalidate(r, u) \in Raw /\ tlb_invalidate(r, u).mem = r.mem
      /\ tlb_invalidate(r, u).free = r.free
      /\ Entries(tlb_invalidate(r, u)) = tlb_invalidate(Entries(r), u)
  <2>1. tlb_invalidate(r, u).free = r.free
    BY <1>1 DEF tlb_invalidate, Raw
  <2> QED
    BY <1>1, <1>n, <2>1, RawOther
<1> HIDE DEF y
<1>4. Tidy(y) = Tidy(r)
  BY <1>2, <1>3, TidySame
<1>5. y \in Raw /\ Entries(y) = insert_clear(e, d, u) /\ Tidy(x) \subseteq Tidy(y)
  BY <1>1, <1>2, <1>3, <1>4
<1>6. Good(Entries(y), Dirs, H, {}) /\ live(Entries(y), Dirs) = live(e, Dirs)
  <2>1. Good(insert_clear(e, d, u), Dirs, H, {}) /\ live(insert_clear(e, d, u), Dirs) = live(e, Dirs)
    BY <1>x, ClearGood
  <2> QED
    BY <1>5, <2>1
<1>7. Sound(y, H)
  BY <1>x, <1>5, <1>6 DEF Sound
<1> QED
  BY <1>1, <1>2, <1>3, <1>5, <1>7 DEF y, e, w, s

LEMMA SoundCreate ==
  ASSUME NEW x, NEW H, Sound(x, H), NEW d \in Dirs, NEW u \in Va,
         ~walk_create_fails(x, d, u)
  PROVE  LET y == walk_create(x, d, u) IN
         /\ Sound(y, H) /\ Entries(y) = walk_create(Entries(x), d, u)
         /\ pde(y, d, u) # Zero /\ Tidy(x) \subseteq Tidy(y)
         /\ \A q \in AllPages : q \notin {d, pde(y, d, u).pg} => y.mem[q] = x.mem[q]
<1> DEFINE e == Entries(x)
           y == walk_create(x, d, u)
<1>x. /\ x \in Raw /\ Good(e, Dirs, H, {}) /\ live(e, Dirs) \cup {LowPage} \subseteq Tidy(x)
      /\ e.free = x.free
  BY EntriesType DEF Sound
<1>p. pde(x, d, u) = pde(e, d, u) /\ pde(x, d, u) \in Word
  BY SoundLookup
<1>e. ~walk_create_fails(e, d, u)
  BY <1>p, <1>x DEF walk_create_fails, page_alloc_fails
<1>1. CASE pde(x, d, u) # Zero
  <2>1. y = x /\ walk_create(e, d, u) = e
    BY <1>1, <1>p DEF walk_create
  <2> QED
    BY <1>1, <2>1
<1>2. CASE pde(x, d, u) = Zero
  <2> DEFINE pp == page_alloc_pp(x)
             a  == page_alloc(x)
             s  == <<d, PDX(u)>>
             w  == [pg |-> pp, perm |-> {"PTE_R"}]
             z  == store(a, s, w)
  <2>0. ~page_alloc_fails(x)
    BY <1>2 DEF walk_create_fails
  <2>1. /\ a \in Raw /\ pp \in Page /\ a.mem = [x.mem EXCEPT ![pp] = ZeroPage]
        /\ Entries(a) = page_alloc(e) /\ Tidy(x) \cup {pp} \subseteq Tidy(a)
    BY <1>x, <2>0, RawAlloc
  <2>2. page_alloc_pp(e) = pp
    BY <1>x DEF page_alloc_pp
  <2>3. y = page_incref(z, pp)
    BY <1>2 DEF walk_create
  <2>4. walk_create(e, d, u) = page_incref(store(page_alloc(e), s, w), pp)
    BY <1>2, <1>p, <2>2 DEF walk_create
  <2>w. w \in Word /\ w # Zero /\ w.pg = pp /\ s \in AllPages \X Idx /\ s[1] = d /\ s[2] = PDX(u)
    BY <2>1, ZeroAssumption, DirsType DEF Word, Pte, Flag, Va, PDX
  <2> HIDE DEF w, a, s, pp
  <2>s. /\ z \in Raw /\ Entries(z) = store(Entries(a), s, w) /\ Tidy(a) \subseteq Tidy(z)
        /\ \A q \in AllPages : q # s[1] => z.mem[q] = a.mem[q]
    <3>1. a \in Raw /\ s \in AllPages \X Idx /\ w \in Word
      BY <2>1, <2>w
    <3> QED
      BY <3>1, RawStore
  <2>5. /\ z \in Raw /\ Entries(z) = store(Entries(a), s, w) /\ Tidy(a) \subseteq Tidy(z)
        /\ \A q \in AllPages : q # d => z.mem[q] = a.mem[q]
    BY <2>s, <2>w
  <2>6. pde(z, d, u) = w
    BY <2>1, <2>w DEF z, pde, store, Raw
  <2> HIDE DEF z
  <2>7. page_incref(z, pp) \in Raw /\ page_incref(z, pp).mem = z.mem
        /\ Entries(page_incref(z, pp)) = page_incref(Entries(z), pp)
    BY <2>1, <2>5, RawOther
  <2> HIDE DEF y, e
  <2>8. y \in Raw /\ y.mem = z.mem /\ Entries(y) = walk_create(e, d, u)
    BY <2>1, <2>3, <2>4, <2>5, <2>7
  <2>9. Tidy(x) \cup {pp} \subseteq Tidy(y)
    <3>1. Tidy(y) = Tidy(z)
      BY <2>8, TidySame
    <3> QED
      BY <2>1, <2>5, <3>1
  <2>10. pde(y, d, u) = w
    BY <2>6, <2>8 DEF pde
  <2>11. \A q \in AllPages : q \notin {d, pde(y, d, u).pg} => y.mem[q] = x.mem[q]
    BY <1>x, <2>1, <2>5, <2>8, <2>10, <2>w DEF Raw
  <2>12. /\ Good(Entries(y), Dirs, H, {})
         /\ \A q \in live(Entries(y), Dirs) \ live(e, Dirs) : q = pde(Entries(y), d, u).pg
    <3>1. /\ Good(walk_create(e, d, u), Dirs, H, {})
          /\ \A q \in live(walk_create(e, d, u), Dirs) \ live(e, Dirs) :
               q = pde(walk_create(e, d, u), d, u).pg
      BY <1>x, <1>e, CreateGood
    <3> QED
      BY <2>8, <3>1
  <2>13. pde(Entries(y), d, u) = w
    <3>1. d \in Tidy(y)
      BY <1>x, <2>9 DEF live
    <3> QED
      BY <2>8, <2>10, <3>1, EntriesType DEF pde
  <2>14. Sound(y, H)
    BY <1>x, <2>8, <2>9, <2>12, <2>13, <2>w DEF Sound
  <2> QED
    BY <2>8, <2>9, <2>10, <2>11, <2>14, <2>w DEF y, e
<1> QED
  BY <1>1, <1>2

\* page_insert, as the loader sees it.
LEMMA SoundInsert ==
  ASSUME NEW x, NEW H, Sound(x, H), NEW d \in Dirs, NEW u \in Va, NEW pp \in Page,
         pp \notin live(Entries(x), Dirs), pp \in H \/ x.ref[pp] # 0,
         x.ref[pp] < RefMax, NEW perm \in SUBSET Flag
  PROVE  LET y == page_insert(x, d, pp, u, perm)
             f == page_insert_fails(x, d, pp, u) IN
         /\ Sound(y, IF f THEN H ELSE H \ {pp})
         /\ \A v \in Va : page_lookup(y, d, v) = IF v = u /\ ~f THEN [pg |-> pp, perm |-> perm]
                                                 ELSE page_lookup(x, d, v)
         /\ \A q \in AllPages \ live(Entries(y), Dirs) : y.mem[q] = x.mem[q]
         /\ y.ref[pp] = x.ref[pp] \/ (~f /\ y.ref[pp] = x.ref[pp] + 1)
         /\ pp \notin live(Entries(y), Dirs) \cup Freed(y)
<1> DEFINE e == Entries(x)
           w == [pg |-> pp, perm |-> perm]
           y == page_insert(x, d, pp, u, perm)
           f == page_insert_fails(x, d, pp, u)
           z == page_insert(e, d, pp, u, perm)
           s == walk(x, d, u)
           G == IF f THEN H ELSE H \ {pp}
<1>x. /\ x \in Raw /\ Good(e, Dirs, H, {}) /\ live(e, Dirs) \cup {LowPage} \subseteq Tidy(x)
      /\ e.free = x.free /\ e.ref = x.ref
  BY EntriesType DEF Sound
<1>l. /\ page_lookup(x, d, u) = page_lookup(e, d, u) /\ pde(x, d, u) = pde(e, d, u)
      /\ s = walk(e, d, u) /\ s \in AllPages \X Idx
  BY SoundLookup
<1>w. w \in Word /\ w # Zero
  BY ZeroAssumption DEF Word, Pte
<1> DEFINE r == insert_clear(x, d, u)
<1>r. /\ Sound(r, H) /\ Entries(r) = insert_clear(e, d, u) /\ Tidy(x) \subseteq Tidy(r)
      /\ \A q \in AllPages : q # s[1] => r.mem[q] = x.mem[q]
      /\ page_lookup(x, d, u) = Zero => r.mem = x.mem /\ r.free = x.free
  BY SoundClear
<1>c. pde(r, d, u) = pde(x, d, u) /\ Entries(r).free = r.free
  <2>1. pde(insert_clear(e, d, u), d, u) = pde(e, d, u)
    BY <1>x, ClearGood
  <2>2. pde(r, d, u) = pde(Entries(r), d, u)
    BY <1>r, SoundLookup
  <2>3. Entries(r).free = r.free
    BY <1>r, EntriesType DEF Sound
  <2> QED
    BY <1>l, <1>r, <2>1, <2>2, <2>3
<1>same. insert_same(x, d, pp, u) = insert_same(e, d, pp, u)
  BY <1>l DEF insert_same
<1> HIDE DEF e, r, w, s
<1>wf. walk_create_fails(r, d, u) = walk_create_fails(insert_clear(e, d, u), d, u)
  BY <1>c, <1>r, SoundLookup DEF walk_create_fails, page_alloc_fails
<1>f. f = page_insert_fails(e, d, pp, u)
  BY <1>same, <1>wf DEF page_insert_fails, r
\* The state follows its entries; only the directory and the table change.
<1>t. ASSUME NEW a, NEW K, Sound(a, K), pde(a, d, u) # Zero
      PROVE  /\ walk(a, d, u)[1] = pde(a, d, u).pg /\ walk(a, d, u)[1] # d
             /\ walk(a, d, u)[1] \in tables(Entries(a), Dirs)
             /\ walk(a, d, u) \in AllPages \X Idx
  <2>1. /\ Good(Entries(a), Dirs, K, {}) /\ walk(a, d, u) = walk(Entries(a), d, u)
        /\ pde(a, d, u) = pde(Entries(a), d, u)
    BY <1>t, SoundLookup DEF Sound
  <2>2. /\ walk(a, d, u) \in tables(Entries(a), Dirs) \X Idx
        /\ walk(a, d, u) \in AllPages \X Idx
    <3> DEFINE b == Entries(a)
    <3>1. Good(b, Dirs, K, {}) /\ pde(b, d, u) # Zero
      BY <1>t, <2>1
    <3> HIDE DEF b
    <3>2. walk(b, d, u) \in tables(b, Dirs) \X Idx /\ walk(b, d, u) \in AllPages \X Idx
      BY <3>1, Lookup
    <3> QED
      BY <2>1, <3>2 DEF b
  <2>3. walk(a, d, u)[1] # d
    BY <2>1, <2>2 DEF Good, Forest
  <2> QED
    BY <1>t, <2>2, <2>3 DEF walk
<1>store. ASSUME NEW a \in Raw, NEW b \in Raw, NEW o \in AllPages \X Idx, b = store(a, o, w), o[1] # d
          PROVE  pde(b, d, u) = pde(a, d, u) /\ Entries(b) = store(Entries(a), o, w)
                 /\ Tidy(a) \subseteq Tidy(b)
                 /\ \A q \in AllPages : q # o[1] => b.mem[q] = a.mem[q]
  <2>1. /\ Entries(b) = store(Entries(a), o, w) /\ Tidy(a) \subseteq Tidy(b)
        /\ \A q \in AllPages : q # o[1] => b.mem[q] = a.mem[q]
    BY <1>w, <1>store, RawStore
  <2> QED
    BY <1>store, <2>1, DirsType DEF pde
<1>1. /\ y \in Raw /\ Entries(y) = z /\ Tidy(x) \subseteq Tidy(y)
      /\ f => y.mem = x.mem
      /\ ~f => /\ pde(y, d, u) # Zero /\ pde(y, d, u).pg \in Tidy(y)
               /\ \A q \in AllPages : q \notin {d, pde(y, d, u).pg} => y.mem[q] = x.mem[q]
  <2>1. CASE insert_same(x, d, pp, u)
    <3> DEFINE a == tlb_invalidate(x, u)
    <3>1. /\ a \in Raw /\ a.mem = x.mem /\ Entries(a) = tlb_invalidate(e, u)
      BY <1>x, RawOther DEF e
    <3>2. ~f /\ y = store(a, walk(a, d, u), w) /\ walk(a, d, u) = s /\ pde(a, d, u) = pde(x, d, u)
      <4>1. walk(a, d, u) = s /\ pde(a, d, u) = pde(x, d, u)
        BY <3>1 DEF walk, pde, s
      <4> QED
        BY <2>1, <4>1 DEF page_insert, page_insert_fails, insert_rewrite, w, s
    <3>3. z = store(Entries(a), s, w)
      <4>1. insert_same(e, d, pp, u)
        BY <2>1, <1>same
      <4>2. z = store(tlb_invalidate(e, u), walk(e, d, u), w)
        BY <4>1 DEF page_insert, insert_rewrite, w
      <4> QED
        BY <3>1, <4>2, <1>l
    <3>4. pde(x, d, u) # Zero
      <4>1. page_lookup(e, d, u) # Zero
        BY <2>1, <1>l DEF insert_same
      <4> QED
        BY <1>l, <1>x, <4>1, Lookup
    <3>5. s[1] = pde(x, d, u).pg /\ s[1] # d /\ s[1] \in tables(e, Dirs)
      BY <1>t, <3>4 DEF s, e
    <3> HIDE DEF y, a, z, f
    <3>6. y \in Raw
      BY <1>l, <1>w, <3>1, <3>2, RawStore
    <3>7. /\ pde(y, d, u) = pde(a, d, u) /\ Entries(y) = z /\ Tidy(a) \subseteq Tidy(y)
          /\ \A q \in AllPages : q # s[1] => y.mem[q] = a.mem[q]
      BY <1>l, <1>store, <3>1, <3>2, <3>3, <3>5, <3>6
    <3>8. Tidy(a) = Tidy(x) /\ s[1] \in Tidy(x)
      BY <1>x, <3>1, <3>5, TidySame DEF live
    <3> QED
      BY <3>1, <3>2, <3>4, <3>5, <3>6, <3>7, <3>8
  <2>2. CASE ~insert_same(x, d, pp, u) /\ f
    <3>1. y = r /\ z = insert_clear(e, d, u) /\ pde(x, d, u) = Zero
      BY <2>2, <1>c, <1>f, <1>same, <1>wf
        DEF page_insert, page_insert_fails, walk_create_fails, r
    <3>2. page_lookup(x, d, u) = Zero
      BY <1>l, <1>x, <3>1, Lookup
    <3>3. r \in Raw /\ Tidy(r) = Tidy(x)
      BY <1>r, <3>2, TidySame DEF Sound
    <3> HIDE DEF y, z, f
    <3> QED
      BY <2>2, <1>r, <3>1, <3>2, <3>3
  <2>3. CASE ~insert_same(x, d, pp, u) /\ ~f
    <3> DEFINE c == walk_create(r, d, u)
               o == walk(c, d, u)
               g == store(c, o, w)
    <3>1. ~walk_create_fails(r, d, u) /\ y = page_incref(g, pp)
      BY <2>3 DEF page_insert, page_insert_fails, insert_write, w, r
    <3>2. /\ Sound(c, H) /\ Entries(c) = walk_create(Entries(r), d, u) /\ pde(c, d, u) # Zero
          /\ Tidy(r) \subseteq Tidy(c)
          /\ \A q \in AllPages : q \notin {d, pde(c, d, u).pg} => c.mem[q] = r.mem[q]
      BY <1>r, <3>1, SoundCreate
    <3> HIDE DEF c
    <3>3. z = page_incref(store(Entries(c), walk(Entries(c), d, u), w), pp)
      BY <2>3, <1>f, <1>same, <1>wf, <1>r, <3>1, <3>2
        DEF page_insert, page_insert_fails, insert_write, w
    <3>4. /\ o[1] = pde(c, d, u).pg /\ o[1] # d /\ o[1] \in tables(Entries(c), Dirs)
          /\ o \in AllPages \X Idx
      BY <1>t, <3>2
    <3>5. o = walk(Entries(c), d, u) /\ c \in Raw /\ live(Entries(c), Dirs) \subseteq Tidy(c)
      BY <3>2, SoundLookup DEF Sound
    <3> HIDE DEF o
    <3>6. g \in Raw
      BY <1>w, <3>4, <3>5, RawStore
    <3> HIDE DEF g
    <3>7. /\ pde(g, d, u) = pde(c, d, u) /\ Entries(g) = store(Entries(c), o, w)
          /\ Tidy(c) \subseteq Tidy(g)
          /\ \A q \in AllPages : q # o[1] => g.mem[q] = c.mem[q]
      BY <1>store, <3>4, <3>5, <3>6 DEF g
    <3>8. /\ page_incref(g, pp) \in Raw /\ page_incref(g, pp).mem = g.mem
          /\ Entries(page_incref(g, pp)) = page_incref(Entries(g), pp)
      BY <3>6, RawOther
    <3> HIDE DEF y, z, f
    <3>9. y \in Raw /\ y.mem = g.mem /\ Entries(y) = z
      BY <3>1, <3>3, <3>5, <3>7, <3>8
    <3>10. Tidy(y) = Tidy(g) /\ pde(y, d, u) = pde(c, d, u)
      BY <3>7, <3>9, TidySame DEF pde
    <3>11. pde(y, d, u).pg \in Tidy(y)
      BY <3>4, <3>5, <3>7, <3>10 DEF live
    <3>12. pde(x, d, u) # Zero => c = r
      BY <1>c DEF walk_create, c
    <3>13. ASSUME NEW q \in AllPages, q \notin {d, pde(y, d, u).pg} PROVE y.mem[q] = x.mem[q]
      <4>1. y.mem[q] = r.mem[q]
        BY <3>2, <3>4, <3>7, <3>9, <3>10, <3>13
      <4>2. CASE page_lookup(x, d, u) = Zero
        BY <1>r, <4>1, <4>2
      <4>3. CASE page_lookup(x, d, u) # Zero
        <5>1. pde(x, d, u) # Zero
          BY <1>l, <1>x, <4>3, Lookup
        <5>2. s[1] = pde(x, d, u).pg
          BY <1>t, <5>1 DEF s
        <5>3. q # s[1]
          BY <1>c, <3>10, <3>12, <3>13, <5>1, <5>2
        <5> QED
          BY <1>r, <4>1, <5>3
      <4> QED
        BY <4>2, <4>3
    <3>14. Tidy(x) \subseteq Tidy(y)
      BY <1>r, <3>2, <3>7, <3>10
    <3> QED
      BY <2>3, <3>2, <3>9, <3>10, <3>11, <3>13, <3>14
  <2> QED
    BY <2>1, <2>2, <2>3
<1>2. /\ Good(z, Dirs, G, {}) /\ Edited(e, z, Dirs, d, u)
      /\ page_lookup(z, d, u) = IF f THEN page_lookup(e, d, u) ELSE w
      /\ \A q \in live(z, Dirs) \ live(e, Dirs) : ~f /\ q = pde(z, d, u).pg
      /\ z.ref[pp] = e.ref[pp] \/ (~f /\ z.ref[pp] = e.ref[pp] + 1)
  <2>1. pp \notin live(e, Dirs) /\ (pp \in H \/ e.ref[pp] # 0) /\ e.ref[pp] < RefMax
    BY <1>x DEF e
  <2>2. LET g == page_insert_fails(e, d, pp, u) IN
        /\ Good(z, Dirs, IF g THEN H ELSE H \ {pp}, {}) /\ Edited(e, z, Dirs, d, u)
        /\ page_lookup(z, d, u) = IF g THEN page_lookup(e, d, u) ELSE [pg |-> pp, perm |-> perm]
        /\ g => z.mem = e.mem
        /\ \A q \in AllPages \ (live(e, Dirs) \cup live(z, Dirs)) : z.mem[q] = e.mem[q]
        /\ \A q \in live(z, Dirs) \ live(e, Dirs) :
             ~g /\ pde(e, d, u) = Zero /\ q = pde(z, d, u).pg
        /\ z.ref[pp] = e.ref[pp] \/ (~g /\ z.ref[pp] = e.ref[pp] + 1)
    BY <1>x, <2>1, InsertGood
  <2> HIDE DEF f, z
  <2> QED
    BY <1>f, <2>2 DEF w
<1> HIDE DEF y, z, f
<1>3. Sound(y, G)
  <2>1. \A q \in live(z, Dirs) : q \in live(e, Dirs) \/ (~f /\ q = pde(y, d, u).pg)
    <3>1. CASE f
      BY <1>2, <3>1
    <3>2. CASE ~f
      <4>1. d \in Tidy(y)
        BY <1>1, <1>x DEF live
      <4>2. pde(z, d, u) = pde(y, d, u)
        BY <1>1, <4>1, EntriesType DEF pde
      <4> QED
        BY <1>2, <3>2, <4>2
    <3> QED
      BY <3>1, <3>2
  <2>2. live(Entries(y), Dirs) \cup {LowPage} \subseteq Tidy(y)
    BY <1>1, <1>x, <2>1
  <2> QED
    BY <1>1, <1>2, <2>2 DEF Sound
<1>4. \A v \in Va : page_lookup(y, d, v) = IF v = u /\ ~f THEN w ELSE page_lookup(x, d, v)
  <2> SUFFICES ASSUME NEW v \in Va
               PROVE  page_lookup(y, d, v) = IF v = u /\ ~f THEN w ELSE page_lookup(x, d, v)
    OBVIOUS
  <2>1. page_lookup(y, d, v) = page_lookup(z, d, v)
    BY <1>1, <1>3, SoundLookup
  <2>2. page_lookup(x, d, v) = page_lookup(e, d, v)
    BY SoundLookup DEF e
  <2> QED
    BY <1>2, <2>1, <2>2 DEF Edited
<1>5. \A q \in AllPages \ live(Entries(y), Dirs) : y.mem[q] = x.mem[q]
  <2>1. CASE f
    BY <1>1, <2>1
  <2>2. CASE ~f
    <3>1. pde(y, d, u).pg \in live(z, Dirs) /\ d \in live(z, Dirs)
      BY <1>1, <1>3, <1>t, <2>2 DEF live
    <3> QED
      BY <1>1, <2>2, <3>1
  <2> QED
    BY <2>1, <2>2
<1>6. y.ref[pp] = x.ref[pp] \/ (~f /\ y.ref[pp] = x.ref[pp] + 1)
  <2>1. z.ref = y.ref
    BY <1>1, EntriesType
  <2> QED
    BY <1>2, <1>x, <2>1
<1>7. pp \notin live(z, Dirs)
  <2>1. CASE f
    BY <1>2, <2>1 DEF e
  <2>2. CASE ~f
    <3>1. page_lookup(z, d, u) = w
      BY <1>2, <2>2
    <3>2. walk(z, d, u) \in tables(z, Dirs) \X Idx
      BY <1>2, <1>w, <3>1, Lookup
    <3>3. word(z, walk(z, d, u)) = w /\ w.pg = pp
      BY <3>1 DEF page_lookup, w
    <3>4. pp \in data_pages(z, Dirs)
      BY <1>w, <3>2, <3>3 DEF data_pages
    <3> QED
      BY <1>2, <3>4 DEF Good, Forest, live
  <2> QED
    BY <2>1, <2>2
<1>8. pp \notin Freed(y)
  <2>1. z.ref[pp] = 0 => f /\ pp \in G
    <3>1. CASE f
      <4>1. z.ref[pp] = x.ref[pp]
        BY <1>2, <1>x, <3>1
      <4> QED
        BY <3>1, <4>1
    <3>2. CASE ~f
      <4>1. page_lookup(z, d, u) = w
        BY <1>2, <3>2
      <4>2. walk(z, d, u) \in tables(z, Dirs) \X Idx
        BY <1>2, <1>w, <4>1, Lookup
      <4>3. word(z, walk(z, d, u)) = w /\ w.pg = pp
        BY <4>1 DEF page_lookup, w
      <4>4. pp \in data_pages(z, Dirs)
        BY <1>w, <4>2, <4>3 DEF data_pages
      <4>5. z.ref[pp] # 0
        BY <1>2, <4>4, CountZero
      <4> QED
        BY <4>5
    <3> QED
      BY <3>1, <3>2
  <2>2. pp \notin Freed(z)
    BY <1>2, <2>1 DEF Good, ListExact
  <2>3. z.free = y.free
    BY <1>1, EntriesType
  <2> QED
    BY <2>2, <2>3 DEF Freed
<1> QED
  BY <1>1, <1>3, <1>4, <1>5, <1>6, <1>7, <1>8 DEF y, f, w, G

-----------------------------------------------------------------------------
(***************************************************************************)
(* page_alloc, and bytes copied into a page.                               *)
(***************************************************************************)

\* A state's counts and free list tell which pages are held.
LEMMA SoundAway ==
  ASSUME NEW x, NEW H, Sound(x, H)
  PROVE  H = Away(x) /\ Sound(x, Away(x))
<1> DEFINE e == Entries(x)
<1>1. Good(e, Dirs, H, {}) /\ e.free = x.free /\ e.ref = x.ref
  BY EntriesType DEF Sound
<1>2. Freed(e) = Freed(x)
  BY <1>1 DEF Freed
<1> HIDE DEF e
<1>3. \A q \in Page : q \in Freed(x) <=> x.ref[q] = 0 /\ q \notin H
  BY <1>1, <1>2 DEF Good, ListExact
<1>4. \A q \in H : q \in Page /\ x.ref[q] = 0
  BY <1>1, HeldFacts
<1> QED
  BY <1>3, <1>4 DEF Away

\* States that agree on all the words the tables are found by.
LEMMA SoundSame ==
  ASSUME NEW x, NEW H, Sound(x, H), NEW y \in Raw,
         \A q \in live(Entries(x), Dirs) \cup {LowPage} : y.mem[q] = x.mem[q]
  PROVE  /\ live(Entries(y), Dirs) = live(Entries(x), Dirs)
         /\ live(Entries(y), Dirs) \cup {LowPage} \subseteq Tidy(y)
         /\ \A u \in Va : page_lookup(y, env_pgdir, u) = page_lookup(x, env_pgdir, u)
         /\ \A t : pointers(Entries(y), Dirs, t) = pointers(Entries(x), Dirs, t)
         /\ tables(Entries(y), Dirs) = tables(Entries(x), Dirs)
         /\ data_pages(Entries(y), Dirs) = data_pages(Entries(x), Dirs)
         /\ \A q \in live(Entries(x), Dirs) \cup {LowPage} : Entries(y).mem[q] = Entries(x).mem[q]
<1> DEFINE e == Entries(x)
           b == Entries(y)
           S == live(e, Dirs) \cup {LowPage}
<1>1. /\ x \in Raw /\ S \subseteq Tidy(x) /\ S \subseteq AllPages /\ e \in MemState
  <2>1. e \in MemState
    BY EntriesType DEF Sound
  <2>2. live(e, Dirs) \subseteq AllPages
    BY <2>1, DirsType, LiveType
  <2> QED
    BY <2>1, <2>2, PageFacts DEF Sound
<1> HIDE DEF e, b
<1>2. S \subseteq Tidy(y)
  BY <1>1 DEF Tidy, e
<1>3. \A q \in S : b.mem[q] = y.mem[q] /\ e.mem[q] = x.mem[q]
  <2>1. (\A q \in Tidy(y) : b.mem[q] = y.mem[q]) /\ (\A q \in Tidy(x) : e.mem[q] = x.mem[q])
    BY <1>1, EntriesType DEF e, b
  <2> QED
    BY <1>1, <1>2, <2>1
<1>4. \A q \in S : b.mem[q] = e.mem[q]
  BY <1>3 DEF e
<1>5. /\ tables(b, Dirs) = tables(e, Dirs) /\ data_pages(b, Dirs) = data_pages(e, Dirs)
      /\ live(b, Dirs) = live(e, Dirs) /\ \A t : pointers(b, Dirs, t) = pointers(e, Dirs, t)
  <2>1. \A q \in live(e, Dirs) : b.mem[q] = e.mem[q]
    BY <1>4
  <2> HIDE DEF S
  <2> QED
    <3>1. tables(b, Dirs) = tables(e, Dirs)
      BY <2>1, SameWords
    <3>2. live(b, Dirs) = live(e, Dirs)
      BY <2>1, SameWords
    <3>3. ASSUME NEW t PROVE pointers(b, Dirs, t) = pointers(e, Dirs, t)
      BY <2>1, SameWords
    <3>4. data_pages(b, Dirs) = data_pages(e, Dirs)
      BY <2>1, SameWords
    <3> QED
      BY <3>1, <3>2, <3>3, <3>4
<1>6. ASSUME NEW u \in Va PROVE page_lookup(y, env_pgdir, u) = page_lookup(x, env_pgdir, u)
  <2>1. env_pgdir \in S /\ env_pgdir \in Dirs
    BY DirsType DEF live
  <2>2. pde(y, env_pgdir, u) = pde(x, env_pgdir, u)
    BY <2>1 DEF pde, e
  <2>3. walk(y, env_pgdir, u) = walk(x, env_pgdir, u)
    BY <2>2 DEF walk
  <2>4. walk(x, env_pgdir, u)[1] \in S
    <3>1. CASE pde(x, env_pgdir, u) = Zero
      BY <3>1 DEF walk
    <3>2. CASE pde(x, env_pgdir, u) # Zero
      <4>1. /\ pde(x, env_pgdir, u) = pde(e, env_pgdir, u)
            /\ walk(x, env_pgdir, u) = walk(e, env_pgdir, u)
        BY <2>1, SoundLookup DEF e
      <4>2. Good(e, Dirs, H, {})
        BY DEF Sound, e
      <4>3. walk(e, env_pgdir, u) \in tables(e, Dirs) \X Idx
        BY <2>1, <3>2, <4>1, <4>2, Lookup
      <4> QED
        BY <4>1, <4>3 DEF live
    <3> QED
      BY <3>1, <3>2
  <2> QED
    BY <2>3, <2>4 DEF page_lookup, word, e
<1> QED
  BY <1>2, <1>4, <1>5, <1>6 DEF e, b

LEMMA SoundAlloc ==
  ASSUME NEW x, NEW H, Sound(x, H), ~page_alloc_fails(x)
  PROVE  LET y  == page_alloc(x)
             pp == page_alloc_pp(x) IN
         /\ pp \in Page /\ pp \notin H /\ x.ref[pp] = 0
         /\ Sound(y, H \cup {pp}) /\ pp \notin live(Entries(y), Dirs)
         /\ y.ref = x.ref /\ y.mem = [x.mem EXCEPT ![pp] = ZeroPage]
         /\ \A u \in Va : page_lookup(y, env_pgdir, u) = page_lookup(x, env_pgdir, u)
<1> DEFINE y  == page_alloc(x)
           pp == page_alloc_pp(x)
           e  == Entries(x)
<1>1. x \in Raw /\ Good(e, Dirs, H, {}) /\ e.free = x.free /\ e.ref = x.ref
  BY EntriesType DEF Sound
<1>2. /\ y \in Raw /\ pp \in Page /\ y.ref = x.ref
      /\ y.mem = [x.mem EXCEPT ![pp] = ZeroPage] /\ Entries(y) = page_alloc(e)
  BY <1>1, RawAlloc
<1>3. page_alloc_pp(e) = pp /\ ~page_alloc_fails(e)
  BY <1>1 DEF page_alloc_pp, page_alloc_fails
<1> HIDE DEF e
<1>4. x.ref[pp] = 0 /\ pp \notin H
  <2>1. pp \in Freed(e)
    <3>1. Len(x.free) \in Nat /\ Len(x.free) > 0 /\ pp = x.free[1]
      BY <1>1 DEF page_alloc_fails, page_alloc_pp, Raw
    <3> QED
      BY <1>1, <3>1 DEF Freed
  <2> HIDE DEF pp
  <2> QED
    BY <1>1, <1>2, <2>1 DEF Good, ListExact
<1>5. pp \notin live(e, Dirs) /\ pp # LowPage
  <2> HIDE DEF pp
  <2>1. pp \notin tables(e, Dirs) \cup Dirs
    BY <1>1, <1>2, <1>4, CountZero
  <2> QED
    BY <1>2, <2>1, PageFacts DEF live
<1>6. Good(Entries(y), Dirs, H \cup {pp}, {})
  <2>1. Good(page_alloc(e), Dirs, H \cup {page_alloc_pp(e)}, {})
    BY <1>1, <1>3, GoodAlloc
  <2> HIDE DEF pp, y
  <2> QED
    BY <1>2, <1>3, <2>1
<1> HIDE DEF y, pp
<1>7. \A q \in live(e, Dirs) \cup {LowPage} : y.mem[q] = x.mem[q]
  <2>1. live(e, Dirs) \cup {LowPage} \subseteq AllPages
    BY <1>1, DirsType, LiveType, PageFacts DEF Good
  <2> QED
    BY <1>1, <1>2, <1>5, <2>1 DEF Raw
<1>8. /\ live(Entries(y), Dirs) = live(e, Dirs)
      /\ live(Entries(y), Dirs) \cup {LowPage} \subseteq Tidy(y)
      /\ \A u \in Va : page_lookup(y, env_pgdir, u) = page_lookup(x, env_pgdir, u)
  BY <1>2, <1>7, SoundSame DEF e
<1> QED
  BY <1>2, <1>4, <1>5, <1>6, <1>8 DEF Sound, y, pp, e

\* A byte reads as clear.
LEMMA ByteEntry ==
  ASSUME NEW k
  PROVE  Entry(Byte(k)) = Zero
<1>1. Byte(k) \notin Pte
  BY DEF Byte, Pte
<1> QED
  BY <1>1 DEF Entry, Word

\* Page q filled with something else than entries.
LEMMA SoundFill ==
  ASSUME NEW x, NEW H, Sound(x, H), NEW q \in Page, q \notin live(Entries(x), Dirs),
         NEW g \in [Idx -> ProgramByte],
         \A k \in Idx : Entry(g[k]) \in {Zero, Entry(x.mem[q][k])}
  PROVE  LET y == [x EXCEPT !.mem[q] = g] IN
         /\ Sound(y, H) /\ y.free = x.free /\ y.ref = x.ref
         /\ y.mem = [x.mem EXCEPT ![q] = g]
         /\ live(Entries(y), Dirs) = live(Entries(x), Dirs)
         /\ \A u \in Va : page_lookup(y, env_pgdir, u) = page_lookup(x, env_pgdir, u)
<1> DEFINE y == [x EXCEPT !.mem[q] = g]
           e == Entries(x)
           b == Entries(y)
<1>1. x \in Raw /\ Good(e, Dirs, H, {}) /\ q \in AllPages /\ q # LowPage
  BY PageFacts DEF Sound
<1>2. /\ y \in Raw /\ y.free = x.free /\ y.ref = x.ref /\ y.tlb = x.tlb /\ y.asid = x.asid
      /\ y.mem = [x.mem EXCEPT ![q] = g]
  BY <1>1 DEF Raw
<1> HIDE DEF y
<1>3. \A r \in live(e, Dirs) \cup {LowPage} : y.mem[r] = x.mem[r]
  <2>1. live(e, Dirs) \cup {LowPage} \subseteq AllPages
    <3>1. e \in MemState
      BY <1>1 DEF Good
    <3> QED
      BY <3>1, DirsType, LiveType, PageFacts
  <2> QED
    BY <1>1, <1>2, <2>1 DEF Raw
<1>4. /\ live(b, Dirs) = live(e, Dirs)
      /\ live(b, Dirs) \cup {LowPage} \subseteq Tidy(y)
      /\ \A u \in Va : page_lookup(y, env_pgdir, u) = page_lookup(x, env_pgdir, u)
      /\ \A t : pointers(b, Dirs, t) = pointers(e, Dirs, t)
      /\ tables(b, Dirs) = tables(e, Dirs) /\ data_pages(b, Dirs) = data_pages(e, Dirs)
      /\ \A r \in live(e, Dirs) \cup {LowPage} : b.mem[r] = e.mem[r]
  BY <1>2, <1>3, SoundSame
<1>5. /\ b \in MemState /\ b.free = x.free /\ b.ref = x.ref
      /\ b.mem = [r \in AllPages |-> [k \in Idx |-> Entry(y.mem[r][k])]]
  BY <1>2, EntriesType
<1>6. /\ e \in MemState /\ e.free = x.free /\ e.ref = x.ref
      /\ e.mem = [r \in AllPages |-> [k \in Idx |-> Entry(x.mem[r][k])]]
  BY <1>1, EntriesType
<1> HIDE DEF b, e
<1>7. \A r \in H : b.mem[r] = ZeroPage
  <2> SUFFICES ASSUME NEW r \in H PROVE b.mem[r] = ZeroPage
    OBVIOUS
  <2>1. r \in AllPages /\ e.mem[r] = ZeroPage
    BY <1>1, HeldFacts, PageFacts
  <2>2. ASSUME NEW k \in Idx PROVE Entry(y.mem[r][k]) = Zero
    <3>1. Entry(x.mem[r][k]) = Zero
      BY <1>6, <2>1 DEF ZeroPage
    <3>2. CASE r # q
      BY <1>1, <1>2, <2>1, <3>1, <3>2 DEF Raw
    <3>3. CASE r = q
      BY <1>1, <1>2, <2>1, <3>1, <3>3 DEF Raw
    <3> QED
      BY <3>2, <3>3
  <2> QED
    BY <1>5, <2>1, <2>2 DEF ZeroPage
<1>8. Good(b, Dirs, H, {})
  <2>0. b.free = e.free /\ b.ref = e.ref
    BY <1>5, <1>6
  <2>1. ListExact(b, H)
    BY <1>1, <2>0 DEF Good, ListExact, Freed
  <2>2. CountExact(b, Dirs, {})
    BY <1>1, <1>4, <2>0 DEF Good, CountExact
  <2>3. Forest(b, Dirs, H)
    BY <1>1, <1>4 DEF Good, Forest
  <2>4. Clear(b, H)
    BY <1>1, <1>4, <1>7 DEF Good, Clear
  <2> QED
    BY <1>1, <1>5, <2>1, <2>2, <2>3, <2>4 DEF Good
<1> QED
  BY <1>2, <1>4, <1>8 DEF Sound, b, e, y

-----------------------------------------------------------------------------
(***************************************************************************)
(* One page put at an address.                                             *)
(***************************************************************************)

\* When page_alloc fails, the page in p may be mapped once more.
Usable == page_alloc_fails(m) => /\ p \in Page /\ m.ref[p] < RefMax
                                 /\ p \notin Freed(m) \cup held \cup live(Entries(m), Dirs)

LEMMA Inserted ==
  ASSUME MemInv, Usable, NEW a \in Nat, va(a) \in Va
  PROVE  LET y == insert(a)
             f == page_insert_fails(got, env_pgdir, page, va(a)) IN
         /\ page \in Page /\ Sound(y, Away(y)) /\ held \subseteq Away(y)
         /\ Away(y) # held => failed \/ Fails(a)
         /\ page \notin Freed(y) \cup held \cup live(Entries(y), Dirs)
         /\ y.ref[page] = m.ref[page] \/ y.ref[page] = m.ref[page] + 1
         /\ ~page_alloc_fails(m) => m.ref[page] = 0 /\ y.mem[page] = ZeroPage
         /\ \A v \in Va : page_lookup(y, env_pgdir, v) =
              IF v = va(a) /\ ~f THEN [pg |-> page, perm |-> {"PTE_R"}]
                                 ELSE page_lookup(m, env_pgdir, v)
         /\ \A q \in AllPages \ live(Entries(y), Dirs) : q # page => y.mem[q] = m.mem[q]
<1> DEFINE y == insert(a)
           f == page_insert_fails(got, env_pgdir, page, va(a))
           H == Away(m)
           G == IF page_alloc_fails(m) THEN H ELSE H \cup {page}
           K == IF f THEN G ELSE G \ {page}
           w == [pg |-> page, perm |-> {"PTE_R"}]
<1>m. Sound(m, H) /\ held \subseteq H /\ (H # held => failed) /\ m \in Raw
  BY DEF MemInv, Sound
<1>1. /\ page \in Page /\ page \notin held /\ Sound(got, G) /\ page \notin live(Entries(got), Dirs)
      /\ page \in G \/ got.ref[page] # 0
      /\ got.ref[page] < RefMax /\ got.ref[page] = m.ref[page]
      /\ \A v \in Va : page_lookup(got, env_pgdir, v) = page_lookup(m, env_pgdir, v)
      /\ \A q \in AllPages : q # page => got.mem[q] = m.mem[q]
      /\ ~page_alloc_fails(m) => /\ m.ref[page] = 0 /\ got.mem[page] = ZeroPage
                                 /\ G \ {page} = H
  <2>1. CASE page_alloc_fails(m)
    <3>1. page = p /\ got = m /\ G = H
      BY <2>1 DEF page, got
    <3>2. /\ p \in Page /\ p \notin Freed(m) \cup held \cup live(Entries(m), Dirs)
          /\ m.ref[p] < RefMax
      BY <2>1 DEF Usable
    <3>3. p \in Away(m) \/ m.ref[p] # 0
      BY <3>2 DEF Away
    <3> HIDE DEF G, H
    <3> QED
      BY <1>m, <2>1, <3>1, <3>2, <3>3 DEF H
  <2>2. CASE ~page_alloc_fails(m)
    <3>1. page = page_alloc_pp(m) /\ got = page_alloc(m) /\ G = H \cup {page}
      BY <2>2 DEF page, got
    <3> HIDE DEF G, H
    <3>2. /\ page \in Page /\ page \notin H /\ m.ref[page] = 0
          /\ Sound(got, H \cup {page}) /\ page \notin live(Entries(got), Dirs)
          /\ got.ref = m.ref /\ got.mem = [m.mem EXCEPT ![page] = ZeroPage]
          /\ \A u \in Va : page_lookup(got, env_pgdir, u) = page_lookup(m, env_pgdir, u)
      BY <1>m, <2>2, <3>1, SoundAlloc
    <3>3. 0 < RefMax
      BY PmapAssumption
    <3>4. got.mem[page] = ZeroPage /\ \A q \in AllPages : q # page => got.mem[q] = m.mem[q]
      BY <1>m, <3>2, PageFacts DEF Raw
    <3> QED
      BY <1>m, <2>2, <3>1, <3>2, <3>3, <3>4
  <2> QED
    BY <2>1, <2>2
<1> HIDE DEF G, H
<1>2. /\ Sound(y, K)
      /\ \A v \in Va : page_lookup(y, env_pgdir, v) = IF v = va(a) /\ ~f THEN w
                                                      ELSE page_lookup(got, env_pgdir, v)
      /\ \A q \in AllPages \ live(Entries(y), Dirs) : y.mem[q] = got.mem[q]
      /\ y.ref[page] = got.ref[page] \/ (~f /\ y.ref[page] = got.ref[page] + 1)
      /\ page \notin live(Entries(y), Dirs) \cup Freed(y)
  <2>1. {"PTE_R"} \in SUBSET Flag /\ env_pgdir \in Dirs
    BY DirsType DEF Flag
  <2> DEFINE x    == got
             pp   == page
             u    == va(a)
             perm == {"PTE_R"}
             d    == env_pgdir
  <2>2. /\ y = page_insert(x, d, pp, u, perm) /\ f = page_insert_fails(x, d, pp, u)
        /\ w = [pg |-> pp, perm |-> perm] /\ K = IF f THEN G ELSE G \ {pp}
    BY DEF insert
  <2>3. /\ Sound(x, G) /\ d \in Dirs /\ u \in Va /\ pp \in Page
        /\ pp \notin live(Entries(x), Dirs) /\ (pp \in G \/ x.ref[pp] # 0)
        /\ x.ref[pp] < RefMax /\ perm \in SUBSET Flag
    BY <1>1, <2>1
  <2> HIDE DEF x, pp, u, perm, d, y, f, w, K
  <2>4. LET b == page_insert(x, d, pp, u, perm)
            h == page_insert_fails(x, d, pp, u) IN
        /\ Sound(b, IF h THEN G ELSE G \ {pp})
        /\ \A v \in Va : page_lookup(b, d, v) = IF v = u /\ ~h THEN [pg |-> pp, perm |-> perm]
                                                ELSE page_lookup(x, d, v)
        /\ \A q \in AllPages \ live(Entries(b), Dirs) : b.mem[q] = x.mem[q]
        /\ b.ref[pp] = x.ref[pp] \/ (~h /\ b.ref[pp] = x.ref[pp] + 1)
        /\ pp \notin live(Entries(b), Dirs) \cup Freed(b)
    BY <2>3, SoundInsert
  <2>5. /\ Sound(y, K)
        /\ \A v \in Va : page_lookup(y, d, v) = IF v = u /\ ~f THEN w ELSE page_lookup(x, d, v)
        /\ \A q \in AllPages \ live(Entries(y), Dirs) : y.mem[q] = x.mem[q]
        /\ y.ref[pp] = x.ref[pp] \/ (~f /\ y.ref[pp] = x.ref[pp] + 1)
        /\ pp \notin live(Entries(y), Dirs) \cup Freed(y)
    BY <2>2, <2>4
  <2> QED
    BY <2>5 DEF x, pp, u, d
<1>3. Fails(a) = (page_alloc_fails(m) \/ f)
  BY DEF Fails
<1> HIDE DEF y, f
<1>4. K = Away(y) /\ Sound(y, Away(y))
  BY <1>2, SoundAway
<1>5. held \subseteq K /\ (K # held => failed \/ Fails(a))
  BY <1>1, <1>m, <1>3 DEF G
<1>6. ~page_alloc_fails(m) => y.mem[page] = ZeroPage
  BY <1>1, <1>2, PageFacts
<1>7. \A q \in AllPages \ live(Entries(y), Dirs) : q # page => y.mem[q] = m.mem[q]
  BY <1>1, <1>2
<1> HIDE DEF K, w
<1>8. \A v \in Va : page_lookup(y, env_pgdir, v) = IF v = va(a) /\ ~f THEN w
                                                   ELSE page_lookup(m, env_pgdir, v)
  BY <1>1, <1>2
<1>9. y.ref[page] = m.ref[page] \/ y.ref[page] = m.ref[page] + 1
  BY <1>1, <1>2
<1> QED
  BY <1>1, <1>2, <1>4, <1>5, <1>6, <1>7, <1>8, <1>9 DEF y, f, w

\* What a step has done when the page, filled with something, is at address a.
PagePut(a) ==
  /\ MemInv' /\ page \in Page
  /\ page \notin Freed(m') \cup held' \cup live(Entries(m'), Dirs)
  /\ m'.ref[page] = m.ref[page] \/ m'.ref[page] = m.ref[page] + 1
  /\ ~page_alloc_fails(m) => m.ref[page] = 0
  /\ \A v \in Va : page_lookup(m', env_pgdir, v) =
       IF v = va(a) /\ ~page_insert_fails(got, env_pgdir, page, va(a))
       THEN [pg |-> page, perm |-> {"PTE_R"}] ELSE page_lookup(m, env_pgdir, v)
  /\ \A q \in AllPages \ live(Entries(m'), Dirs) : q # page => m'.mem[q] = m.mem[q]

LEMMA PutPage ==
  ASSUME MemInv, Usable, NEW a \in Nat, va(a) \in Va, NEW g \in [Idx -> ProgramByte],
         \A k \in Idx : Entry(g[k]) \in {Zero, Entry(insert(a).mem[page][k])},
         m' = [insert(a) EXCEPT !.mem[page] = g], held' = held, Took(a)
  PROVE  PagePut(a) /\ m'.mem[page] = g
<1> DEFINE y == insert(a)
           f == page_insert_fails(got, env_pgdir, page, va(a))
           n == page
           z == m'
           w == [pg |-> n, perm |-> {"PTE_R"}]
<1>1. /\ n \in Page /\ Sound(y, Away(y)) /\ held \subseteq Away(y)
      /\ Away(y) # held => failed \/ Fails(a)
      /\ n \notin Freed(y) \cup held \cup live(Entries(y), Dirs)
      /\ y.ref[n] = m.ref[n] \/ y.ref[n] = m.ref[n] + 1
      /\ ~page_alloc_fails(m) => m.ref[n] = 0
      /\ \A v \in Va : page_lookup(y, env_pgdir, v) = IF v = va(a) /\ ~f THEN w
                                                      ELSE page_lookup(m, env_pgdir, v)
      /\ \A q \in AllPages \ live(Entries(y), Dirs) : q # n => y.mem[q] = m.mem[q]
  BY Inserted
<1>2. /\ z = [y EXCEPT !.mem[n] = g]
      /\ \A k \in Idx : Entry(g[k]) \in {Zero, Entry(y.mem[n][k])}
      /\ failed' = (failed \/ Fails(a))
  BY DEF Took
<1> HIDE DEF y, f, n, z, w
<1>3. /\ Sound(z, Away(y)) /\ z.free = y.free /\ z.ref = y.ref
      /\ z.mem = [y.mem EXCEPT ![n] = g]
      /\ live(Entries(z), Dirs) = live(Entries(y), Dirs)
      /\ \A u \in Va : page_lookup(z, env_pgdir, u) = page_lookup(y, env_pgdir, u)
  <2> DEFINE H == Away(y)
  <2>1. Sound(y, H) /\ n \in Page /\ n \notin live(Entries(y), Dirs)
    BY <1>1
  <2>2. z = [y EXCEPT !.mem[n] = g] /\ \A k \in Idx : Entry(g[k]) \in {Zero, Entry(y.mem[n][k])}
    BY <1>2
  <2> HIDE DEF H
  <2>3. /\ Sound(z, H) /\ z.free = y.free /\ z.ref = y.ref
        /\ z.mem = [y.mem EXCEPT ![n] = g]
        /\ live(Entries(z), Dirs) = live(Entries(y), Dirs)
        /\ \A u \in Va : page_lookup(z, env_pgdir, u) = page_lookup(y, env_pgdir, u)
    BY <2>1, <2>2, SoundFill
  <2> QED
    BY <2>3 DEF H
<1>4. Away(z) = Away(y) /\ Freed(z) = Freed(y)
  BY <1>3, SoundAway DEF Freed
<1>5. z.mem[n] = g /\ \A q \in AllPages : q # n => z.mem[q] = y.mem[q]
  BY <1>1, <1>3, PageFacts DEF Sound, Raw
<1>7. MemInv'
  BY <1>1, <1>2, <1>3, <1>4 DEF MemInv, z
<1>8. /\ n \notin Freed(z) \cup held \cup live(Entries(z), Dirs)
      /\ z.ref[n] = m.ref[n] \/ z.ref[n] = m.ref[n] + 1
  BY <1>1, <1>3, <1>4
<1>9. \A v \in Va : page_lookup(z, env_pgdir, v) = IF v = va(a) /\ ~f THEN w
                                                   ELSE page_lookup(m, env_pgdir, v)
  BY <1>1, <1>3
<1>10. \A q \in AllPages \ live(Entries(z), Dirs) : q # n => z.mem[q] = m.mem[q]
  BY <1>1, <1>3, <1>5
<1> QED
  BY <1>1, <1>5, <1>7, <1>8, <1>9, <1>10 DEF PagePut, f, n, z, w

LEMMA CopiedPage ==
  ASSUME MemInv, Usable, NEW a \in Nat, va(a) \in Va,
         NEW at \in Nat, NEW n \in Int, NEW from \in Nat,
         m' = bcopy(insert(a), page, at, n, from), held' = held, Took(a)
  PROVE  /\ PagePut(a)
         /\ \A k \in Idx : at <= k /\ k < at + n => m'.mem[page][k] = Byte(U(from + k - at))
         /\ ~page_alloc_fails(m) =>
              \A k \in Idx : ~(at <= k /\ k < at + n) => m'.mem[page][k] = Zero
<1> DEFINE y == insert(a)
           g == [k \in Idx |-> IF at <= k /\ k < at + n THEN Byte(U(from + k - at))
                               ELSE y.mem[page][k]]
<1>1. /\ page \in Page /\ y.mem \in [AllPages -> [Idx -> ProgramByte]]
      /\ ~page_alloc_fails(m) => y.mem[page] = ZeroPage
  <2>1. page \in Page /\ Sound(y, Away(y)) /\ (~page_alloc_fails(m) => y.mem[page] = ZeroPage)
    BY Inserted
  <2> QED
    BY <2>1 DEF Sound, Raw
<1>2. m' = [y EXCEPT !.mem[page] = g]
  BY DEF bcopy
<1> HIDE DEF y
<1>3. \A k \in Idx : Byte(U(from + k - at)) \in ProgramByte
  <2> SUFFICES ASSUME NEW k \in Idx PROVE Byte(U(from + k - at)) \in ProgramByte
    OBVIOUS
  <2>1. from + k - at \in Int
    BY ElfLoadAssumption
  <2>2. U(from + k - at) \in 0 .. Wrap - 1
    BY <2>1, ByteNumbers DEF U
  <2>3. U(from + k - at) \in -1 .. 2 * Wrap
    BY <2>2, ByteNumbers
  <2> QED
    BY <2>3 DEF ProgramByte
<1>4. g \in [Idx -> ProgramByte]
  BY <1>1, <1>3, PageFacts
<1>5. \A k \in Idx : Entry(g[k]) \in {Zero, Entry(y.mem[page][k])}
  BY ByteEntry
<1>6. /\ \A k \in Idx : at <= k /\ k < at + n => g[k] = Byte(U(from + k - at))
      /\ ~page_alloc_fails(m) => \A k \in Idx : ~(at <= k /\ k < at + n) => g[k] = Zero
  BY <1>1 DEF ZeroPage
<1> HIDE DEF g
<1>7. PagePut(a) /\ m'.mem[page] = g
  BY <1>2, <1>4, <1>5, PutPage DEF y
<1> QED
  BY <1>6, <1>7

LEMMA ClearedPage ==
  ASSUME MemInv, Usable, NEW a \in Nat, va(a) \in Va, NEW n \in Int,
         m' = bzero(insert(a), page, n), held' = held, Took(a)
  PROVE  /\ PagePut(a)
         /\ ~page_alloc_fails(m) => \A k \in Idx : m'.mem[page][k] = Zero
<1> DEFINE y == insert(a)
           g == [k \in Idx |-> IF k < n THEN Zero ELSE y.mem[page][k]]
<1>1. /\ page \in Page /\ y.mem \in [AllPages -> [Idx -> ProgramByte]]
      /\ ~page_alloc_fails(m) => y.mem[page] = ZeroPage
  <2>1. page \in Page /\ Sound(y, Away(y)) /\ (~page_alloc_fails(m) => y.mem[page] = ZeroPage)
    BY Inserted
  <2> QED
    BY <2>1 DEF Sound, Raw
<1>2. m' = [y EXCEPT !.mem[page] = g]
  BY DEF bzero
<1> HIDE DEF y
<1>3. Zero \in ProgramByte /\ Entry(Zero) = Zero
  BY WordByte, EntryWord
<1>4. g \in [Idx -> ProgramByte]
  BY <1>1, <1>3, PageFacts
<1>5. \A k \in Idx : Entry(g[k]) \in {Zero, Entry(y.mem[page][k])}
  BY <1>3
<1>6. ~page_alloc_fails(m) => \A k \in Idx : g[k] = Zero
  BY <1>1 DEF ZeroPage
<1> HIDE DEF g
<1>7. PagePut(a) /\ m'.mem[page] = g
  BY <1>2, <1>4, <1>5, PutPage DEF y
<1> QED
  BY <1>6, <1>7

-----------------------------------------------------------------------------
(***************************************************************************)
(* Where load_icode_mapper is in a segment.                                *)
(***************************************************************************)

LEMMA Segment ==
  ASSUME image \in Programs, NEW j \in DOMAIN image.seg, image.seg[j].load
  PROVE  LET s == image.seg[j] IN
         /\ s.va \in Nat /\ s.filesz \in Nat /\ s.memsz \in Nat /\ s.off \in Nat
         /\ s.filesz <= s.memsz /\ ROUND(s.va) + s.memsz <= StackPage
         /\ s.memsz + 2 * BY2PG <= Wrap /\ s.memsz + 3 * BY2PG <= RefMax * BY2PG
<1> DEFINE s == image.seg[j]
<1>1. image.seg \in Seq(ProgramHeader)
  BY ProgramsAssumption
<1>2. s \in ProgramHeader
  BY <1>1
<1>3. s.va \in Nat /\ s.filesz \in Nat /\ s.memsz \in Nat /\ s.off \in Nat
  BY <1>2 DEF ProgramHeader
<1>4. /\ s.filesz <= s.memsz /\ ROUND(s.va) + s.memsz <= StackPage
      /\ s.memsz + 2 * BY2PG <= Wrap /\ s.memsz + 3 * BY2PG <= RefMax * BY2PG
  BY ProgramsAssumption
<1> QED
  BY <1>3, <1>4

LEMMA SegHere ==
  ASSUME IInv, Mapping
  PROVE  /\ ph \in DOMAIN image.seg /\ seg.load
         /\ seg.va \in Nat /\ seg.filesz \in Nat /\ seg.memsz \in Nat /\ seg.off \in Nat
         /\ seg.filesz <= seg.memsz /\ ROUND(seg.va) + seg.memsz <= StackPage
         /\ seg.memsz + 2 * BY2PG <= Wrap /\ seg.memsz + 3 * BY2PG <= RefMax * BY2PG
         /\ ROUND(seg.va) \in Nat /\ seg.va <= ROUND(seg.va) /\ ROUND(seg.va) < seg.va + BY2PG
         /\ i \in 0 .. Wrap - 1 /\ tempVa \in Nat /\ ROUND(seg.va) <= tempVa
<1>1. image \in Programs /\ seg.load /\ seg = image.seg[ph]
  BY DEF IInv, CursorInv, seg
<1>2. ph \in DOMAIN image.seg
  <2>1. image.seg \in Seq(ProgramHeader)
    BY <1>1, ProgramsAssumption
  <2>2. ph \in 1 .. Len(image.seg) + 1 /\ ph <= Len(image.seg)
    BY DEF IInv, TypeOK, CursorInv
  <2> QED
    BY <2>1, <2>2
<1>3. /\ seg.va \in Nat /\ seg.filesz \in Nat /\ seg.memsz \in Nat /\ seg.off \in Nat
      /\ seg.filesz <= seg.memsz /\ ROUND(seg.va) + seg.memsz <= StackPage
      /\ seg.memsz + 2 * BY2PG <= Wrap /\ seg.memsz + 3 * BY2PG <= RefMax * BY2PG
  BY <1>1, <1>2, Segment
<1>4. ROUND(seg.va) \in Nat /\ seg.va <= ROUND(seg.va) /\ ROUND(seg.va) < seg.va + BY2PG
  BY <1>3, Rounding
<1>5. i \in 0 .. Wrap - 1 /\ tempVa \in Nat /\ ROUND(seg.va) <= tempVa
  BY DEF IInv, TypeOK, CursorInv
<1> QED
  BY <1>1, <1>2, <1>3, <1>4, <1>5

LEMMA VaBelow ==
  ASSUME NEW a \in Nat, a < StackPage + BY2PG
  PROVE  va(a) \in Va
<1>1. CASE a <= StackPage
  BY <1>1, Stack, VaType
<1>2. CASE StackPage < a
  <2>1. VPN(a) = VPN(StackPage)
    <3> DEFINE k == a - StackPage
    <3>1. k \in 0 .. BY2PG - 1 /\ a = StackPage + k
      BY <1>2, Stack, ByteNumbers
    <3> HIDE DEF k
    <3> QED
      BY <3>1, Stack
  <2>2. StackPage \in Nat /\ StackPage <= StackPage
    BY Stack
  <2>3. va(StackPage) \in Va
    BY <2>2, Stack, VaType
  <2> QED
    BY <2>1, <2>2, <2>3, VaSame
<1> QED
  BY <1>1, <1>2, Stack

LEMMA Ready ==
  ASSUME IInv, Copying, page # NULL, tempVa < ROUND(seg.va) + seg.memsz + BY2PG
  PROVE  Usable /\ va(tempVa) \in Va
<1>m. Mapping /\ MemInv
  BY DEF Copying, Mapping, IInv
<1>1. va(tempVa) \in Va
  <2>1. tempVa \in Nat /\ tempVa < StackPage + BY2PG
    BY <1>m, SegHere, Stack, ByteNumbers
  <2> QED
    BY <2>1, VaBelow
<1>2. ASSUME page_alloc_fails(m)
      PROVE  p \in Page /\ m.ref[p] < RefMax /\ p \notin Freed(m) \cup held \cup live(Entries(m), Dirs)
  <2>1. p # NULL /\ p \in Page /\ p \in AllPages
    BY <1>2, PageFacts DEF page, IInv, TypeOK
  <2>2. /\ p \notin Freed(m) \cup held \cup live(Entries(m), Dirs)
        /\ m.ref[p] * BY2PG <= tempVa - ROUND(seg.va) + BY2PG
    BY <2>1 DEF IInv, CursorInv
  <2>3. m.ref[p] \in Nat /\ RefMax \in Nat
    <3>1. m.ref \in [AllPages -> 0 .. RefMax] /\ RefMax \in Nat
      BY PmapAssumption DEF IInv, TypeOK
    <3> QED
      BY <2>1, <3>1
  <2>4. tempVa - ROUND(seg.va) + BY2PG < RefMax * BY2PG
    <3> DEFINE rb == RefMax * BY2PG
    <3>1. /\ seg.memsz \in Nat /\ ROUND(seg.va) \in Nat /\ tempVa \in Nat
          /\ seg.memsz + 3 * BY2PG <= rb
      BY <1>m, SegHere
    <3>2. rb \in Nat
      BY <2>3, ByteNumbers, Times
    <3> HIDE DEF rb
    <3>3. tempVa - ROUND(seg.va) + BY2PG < rb
      BY <3>1, <3>2, ByteNumbers
    <3> QED
      BY <3>3 DEF rb
  <2>5. m.ref[p] * BY2PG \in Nat /\ RefMax * BY2PG \in Nat
        /\ (RefMax <= m.ref[p] => RefMax * BY2PG <= m.ref[p] * BY2PG)
    BY <2>3, ByteNumbers, Times
  <2>6. m.ref[p] < RefMax
    <3> DEFINE r  == m.ref[p]
               rb == r * BY2PG
               xb == RefMax * BY2PG
               t  == tempVa - ROUND(seg.va) + BY2PG
    <3>1. rb \in Nat /\ xb \in Nat /\ (RefMax <= r => xb <= rb) /\ rb <= t /\ t < xb /\ t \in Int
          /\ r \in Nat /\ RefMax \in Nat
      BY <1>m, <2>2, <2>3, <2>4, <2>5, SegHere, ByteNumbers
    <3> HIDE DEF r, rb, xb, t
    <3>2. r < RefMax
      BY <3>1
    <3> QED
      BY <3>2 DEF r
  <2> QED
    BY <2>1, <2>2, <2>6
<1> QED
  BY <1>1, <1>2 DEF Usable

LEMMA ReadyFirst ==
  ASSUME IInv, pc = "first", page # NULL
  PROVE  Usable /\ va(seg.va) \in Va
<1>1. ~page_alloc_fails(m)
  BY DEF page, IInv, CursorInv
<1>2. Mapping
  BY DEF Mapping
<1>3. seg.va \in Nat /\ seg.va < StackPage + BY2PG
  BY <1>2, SegHere, Stack, ByteNumbers
<1> QED
  BY <1>1, <1>3, VaBelow DEF Usable

-----------------------------------------------------------------------------
(***************************************************************************)
(* The invariant holds at first.                                           *)
(***************************************************************************)

LEMMA InitIInv == Init => IInv
<1> SUFFICES ASSUME Init PROVE IInv
  OBVIOUS
<1> DEFINE all == page_init_free
           N   == npage - nboot
           e   == Entries(m)
<1>n. /\ npage \in Nat /\ nboot \in Nat /\ 1 < nboot /\ nboot < npage /\ N \in Nat
      /\ N = npage - nboot
      /\ \A q : q \in Page <=> q \in Int /\ nboot <= q /\ q < npage
  BY PmapAssumption DEF Page
<1>a. all \in Seq(Page) /\ Len(all) = N /\ \A j \in 1 .. N : all[j] = npage - j
  <2>1. all = [k \in 1 .. N |-> npage - k]
    BY DEF page_init_free
  <2>2. \A k \in 1 .. N : npage - k \in Page
    BY <1>n
  <2> HIDE DEF all
  <2> QED
    BY <1>n, <2>1, <2>2
<1>1. PICK k \in Taken :
        /\ held = {all[j] : j \in 2 .. k + 1}
        /\ m = [free |-> SubSeq(all, k + 2, Len(all)),
                ref  |-> [page_init_ref EXCEPT ![env_pgdir] = 1],
                mem  |-> [q \in AllPages |-> IF q \in {all[j] : j \in k + 2 .. Len(all)}
                                             THEN [x \in Idx |-> OldByte] ELSE ZeroPage],
                tlb  |-> {}, asid |-> 0]
  BY DEF Init
<1> HIDE DEF all, N
<1>2. /\ m.free = SubSeq(all, k + 2, N) /\ m.ref = [page_init_ref EXCEPT ![env_pgdir] = 1]
      /\ m.mem = [q \in AllPages |-> IF q \in {all[j] : j \in k + 2 .. N}
                                     THEN [x \in Idx |-> OldByte] ELSE ZeroPage]
      /\ m.tlb = {} /\ m.asid = 0
  BY <1>1, <1>a
<1> DEFINE M == npage - k - 1
<1>k. k \in Nat /\ k + 2 <= N + 1 /\ M \in Int /\ M = npage - k - 1 /\ nboot <= M
  BY <1>n, ElfLoadAssumption
<1> HIDE DEF M
<1>3. /\ m.free \in Seq(Page) /\ Len(m.free) = M - nboot
      /\ \A j \in 1 .. Len(m.free) : m.free[j] = M - j
  <2>1. /\ Len(m.free) = N - k - 1
        /\ \A j \in 1 .. N - k - 1 : m.free[j] = all[k + 1 + j]
    BY <1>2, <1>a, <1>k, <1>n
  <2>2. m.free \in Seq(Page)
    BY <1>2, <1>a, <1>k, <1>n
  <2>3. \A j \in 1 .. N - k - 1 : k + 1 + j \in 1 .. N
    BY <1>k, <1>n
  <2> QED
    BY <1>a, <1>k, <1>n, <2>1, <2>2, <2>3
<1>4. \A q : q \in Freed(m) <=> q \in Int /\ nboot <= q /\ q < M
  <2>1. ASSUME NEW q \in Freed(m) PROVE q \in Int /\ nboot <= q /\ q < M
    <3>1. PICK j \in 1 .. Len(m.free) : q = m.free[j]
      BY <2>1 DEF Freed
    <3>2. q = M - j /\ j \in 1 .. M - nboot
      BY <1>3, <3>1, Zenon
    <3> QED
      BY <1>k, <1>n, <3>2
  <2>2. ASSUME NEW q \in Int, nboot <= q, q < M PROVE q \in Freed(m)
    <3>1. /\ M - q \in 1 .. Len(m.free)
          /\ M - (M - q) = q
      BY <1>3, <1>k, <1>n, <2>2
    <3>2. m.free[M - q] = q
      BY <1>3, <3>1
    <3> QED
      BY <3>1, <3>2 DEF Freed
  <2> QED
    BY <2>1, <2>2
<1>5. \A q : q \in held <=> q \in Int /\ M <= q /\ q < npage - 1
  <2>1. ASSUME NEW q \in held PROVE q \in Int /\ M <= q /\ q < npage - 1
    <3>1. PICK j \in 2 .. k + 1 : q = all[j]
      BY <1>1, <2>1
    <3> QED
      BY <1>a, <1>k, <1>n, <3>1
  <2>2. ASSUME NEW q \in Int, M <= q, q < npage - 1 PROVE q \in held
    <3>1. npage - q \in 2 .. k + 1 /\ npage - q \in 1 .. N /\ npage - (npage - q) = q
      BY <1>k, <1>n, <2>2
    <3>2. all[npage - q] = q
      BY <1>a, <3>1
    <3> QED
      BY <1>1, <3>1, <3>2
  <2> QED
    BY <2>1, <2>2
<1>p. env_pgdir = npage - 1
  BY DEF env_pgdir
<1>6. /\ m.ref \in [AllPages -> 0 .. RefMax]
      /\ \A q \in Page : m.ref[q] = IF q = env_pgdir THEN 1 ELSE 0
  <2>1. 1 \in 0 .. RefMax /\ 0 \in 0 .. RefMax
    BY PmapAssumption
  <2> QED
    BY <1>2, <1>n, <2>1, DirsType, PageFacts DEF page_init_ref
<1>b. \A j \in k + 2 .. N : all[j] \in Freed(m)
  BY <1>4, <1>a, <1>k, <1>n
<1>7. /\ m.mem \in [AllPages -> [Idx -> ProgramByte]]
      /\ \A q \in AllPages : q \notin Freed(m) => m.mem[q] = ZeroPage
      /\ \A q \in AllPages, x \in Idx : Entry(m.mem[q][x]) = Zero
  <2>1. OldByte \in ProgramByte
    BY ByteNumbers DEF OldByte, ProgramByte
  <2>2. ZeroPage \in [Idx -> ProgramByte] /\ [x \in Idx |-> OldByte] \in [Idx -> ProgramByte]
    BY <2>1, WordByte
  <2>3. Entry(OldByte) = Zero /\ Entry(Zero) = Zero
    BY ByteEntry, EntryWord, WordByte DEF OldByte
  <2> QED
    BY <1>2, <1>b, <2>2, <2>3 DEF ZeroPage
<1>8. m \in Raw
  <2>1. 0 \in AllPages
    BY PageFacts DEF LowPage
  <2> QED
    BY <1>1, <1>2, <1>3, <1>6, <1>7, <2>1 DEF Raw
<1>9. /\ e \in MemState /\ e.free = m.free /\ e.ref = m.ref
      /\ e.mem = [q \in AllPages |-> ZeroPage]
  <2>1. /\ e \in MemState /\ e.free = m.free /\ e.ref = m.ref
        /\ e.mem = [q \in AllPages |-> [x \in Idx |-> Entry(m.mem[q][x])]]
    BY <1>8, EntriesType
  <2> QED
    BY <1>7, <2>1 DEF ZeroPage
<1> HIDE DEF e
<1>10. \A s \in AllPages \X Idx : word(e, s) = Zero
  BY <1>9 DEF word, ZeroPage
<1>11. tables(e, Dirs) = {} /\ data_pages(e, Dirs) = {} /\ live(e, Dirs) = Dirs
  <2>1. tables(e, Dirs) = {}
    BY <1>10, DirsType DEF tables
  <2> QED
    BY <2>1 DEF data_pages, live
<1>12. \A q : pointers(e, Dirs, q) = {}
  BY <1>11, PointedTo
<1>13. CountExact(e, Dirs, {})
  <2>1. \A q \in Page : Cardinality(pointers(e, Dirs, q)) = 0
    BY <1>12, FS_EmptySet
  <2>2. \A q \in Page : q \in Dirs <=> q = env_pgdir
    BY DirsType DEF Dirs
  <2> QED
    BY <1>6, <1>9, <2>1, <2>2 DEF CountExact
<1>14. \A q \in Page : q \in Freed(m) <=> m.ref[q] = 0 /\ q \notin held
  BY <1>4, <1>5, <1>6, <1>k, <1>n, <1>p
<1>15. ListExact(e, held)
  <2>1. Freed(e) = Freed(m)
    BY <1>9 DEF Freed
  <2>2. \A j, l \in 1 .. Len(m.free) : m.free[j] = m.free[l] => j = l
    <3>1. Len(m.free) \in Int
      BY <1>3, <1>k, <1>n
    <3>2. \A j \in 1 .. Len(m.free) : m.free[j] = M - j
      BY <1>3
    <3> QED
      BY <1>k, <3>1, <3>2
  <2> QED
    BY <1>9, <1>14, <2>1, <2>2 DEF ListExact
<1>16. held \subseteq Page /\ env_pgdir \notin held
  BY <1>5, <1>k, <1>n, <1>p
<1>17. Forest(e, Dirs, held)
  <2>1. Dirs \cap held = {}
    BY <1>16, DirsType DEF Dirs
  <2> QED
    BY <1>11, <2>1 DEF Forest
<1>18. Good(e, Dirs, held, {})
  <2>1. Clear(e, held)
    BY <1>9, <1>16, PageFacts DEF Clear, ZeroPage
  <2>2. Sets(Dirs, held, {})
    BY <1>16, DirsType DEF Sets
  <2> QED
    BY <1>9, <1>13, <1>15, <1>17, <2>1, <2>2 DEF Good
<1>19. Sound(m, held)
  <2>1. Dirs \cup {LowPage} \subseteq AllPages /\ Dirs \cap Freed(m) = {} /\ LowPage \notin Freed(m)
    BY <1>4, <1>n, <1>k, <1>p, DirsType, PageFacts, PmapAssumption DEF Dirs, boot_pgdir, LowPage
  <2>2. Dirs \cup {LowPage} \subseteq Tidy(m)
    BY <1>7, <2>1, WordByte DEF Tidy
  <2> QED
    BY <1>8, <1>11, <1>18, <2>2 DEF Sound, e
<1>20. held = Away(m) /\ Sound(m, Away(m))
  BY <1>19, SoundAway
<1>21. TypeOK
  <2>1. /\ i = 0 /\ tempVa = 0 /\ p = NULL /\ ph = 1 /\ wild = FALSE /\ failed = FALSE
        /\ image \in Programs
    BY DEF Init
  <2>2. Len(image.seg) \in Nat
    BY <2>1, ProgramsAssumption
  <2>3. 1 \in 1 .. Len(image.seg) + 1 /\ 0 \in 0 .. Wrap - 1
    BY <2>2, ByteNumbers
  <2> QED
    BY <1>3, <1>6, <1>7, <1>16, <2>1, <2>3 DEF TypeOK
<1>22. MemInv
  BY <1>20 DEF MemInv
<1> QED
  BY <1>21, <1>22 DEF Init, IInv, CursorInv, Mapping, Copying

-----------------------------------------------------------------------------
(***************************************************************************)
(* Every step keeps the invariant.                                         *)
(***************************************************************************)

LEMMA TypeAfter ==
  ASSUME IInv, MemInv', UNCHANGED <<image, held>>, ph' \in 1 .. Len(image.seg) + 1,
         i' \in 0 .. Wrap - 1, tempVa' \in Nat, p' \in Page \cup {NULL},
         wild' \in BOOLEAN, failed' \in BOOLEAN
  PROVE  TypeOK' /\ image' \in Programs
<1>1. m' \in Raw /\ held' \subseteq Page /\ image' = image
  BY DEF MemInv, Sound, Away
<1>2. /\ m'.free \in Seq(Page) /\ m'.ref \in [AllPages -> 0 .. RefMax]
      /\ \A q \in AllPages, k \in Idx : m'.mem[q][k] \in ProgramByte
  BY <1>1 DEF Raw
<1> QED
  BY <1>1, <1>2 DEF TypeOK, IInv

\* The page after tempVa's.
LEMMA PageAfter ==
  ASSUME NEW t \in Nat, t % BY2PG = 0
  PROVE  t + BY2PG \in Nat /\ (t + BY2PG) % BY2PG = 0
         /\ t = VPN(t) * BY2PG /\ VPN(t + BY2PG) = VPN(t) + 1
<1> DEFINE n == VPN(t)
           b == n * BY2PG
           c == (n + 1) * BY2PG
           u == t + BY2PG
<1>1. n \in Nat /\ t = b
  <2>1. n \in Nat /\ t = b + (t % BY2PG) /\ b \in Nat
    BY PageNumber
  <2> HIDE DEF b
  <2> QED
    BY <2>1
<1>2. c = b + BY2PG /\ b \in Nat
  BY <1>1, ByteNumbers, Times
<1>3. u \in Nat /\ c <= u /\ u < c + BY2PG /\ u - c = 0
  BY <1>1, <1>2, ByteNumbers
<1> HIDE DEF u, n
<1>4. VPN(u) = n + 1 /\ u % BY2PG = u - (n + 1) * BY2PG
  BY <1>1, <1>3, PageOf
<1> QED
  BY <1>1, <1>3, <1>4 DEF u, n

LEMMA CursorAfter ==
  ASSUME IInv, Mapping, NEW a, PagePut(a), p' = page, UNCHANGED <<image, held, ph>>,
         Copying', i' \in Nat, tempVa' = tempVa + BY2PG \/ (~Copying /\ tempVa' = tempVa),
         tempVa' <= ROUND(seg.va) + i' + BY2PG, i' + BY2PG < Wrap
  PROVE  CursorInv' /\ tempVa' \in Nat /\ i' \in 0 .. Wrap - 1
<1> DEFINE R == ROUND(seg.va)
<1>1. /\ R \in Nat /\ tempVa \in Nat /\ R <= tempVa /\ ph <= Len(image.seg) /\ seg.load
      /\ tempVa % BY2PG = 0
  BY SegHere DEF IInv, CursorInv
<1>2. tempVa' \in Nat /\ R <= tempVa' /\ tempVa' % BY2PG = 0
  <2>1. tempVa + BY2PG \in Nat /\ (tempVa + BY2PG) % BY2PG = 0
    BY <1>1, PageAfter
  <2>2. tempVa' = tempVa + BY2PG \/ tempVa' = tempVa
    OBVIOUS
  <2>3. tempVa' % BY2PG = 0 /\ tempVa' \in Nat
    BY <1>1, <2>1, <2>2, Zenon
  <2>4. R <= tempVa'
    <3> HIDE DEF R
    <3> QED
      BY <1>1, <2>2, ByteNumbers
  <2> QED
    BY <2>3, <2>4
<1>3. seg' = seg /\ R' = R
  BY DEF seg, ROUND, ROUNDDOWN
<1>4. m'.ref[page] * BY2PG <= tempVa' - R + BY2PG
  <2>1. /\ page \in Page
        /\ m'.ref[page] = m.ref[page] \/ m'.ref[page] = m.ref[page] + 1
        /\ ~page_alloc_fails(m) => m.ref[page] = 0
    BY DEF PagePut
  <2>2. m.ref[page] \in Nat
    <3>1. m.ref \in [AllPages -> 0 .. RefMax] /\ RefMax \in Nat
      BY PmapAssumption DEF IInv, TypeOK
    <3>2. page \in AllPages
      BY <2>1, PageFacts
    <3> QED
      BY <3>1, <3>2
  <2>3. CASE ~page_alloc_fails(m)
    <3>1. m'.ref[page] = 0 \/ m'.ref[page] = 1
      BY <2>1, <2>3
    <3>2. 0 * BY2PG = 0 /\ 1 * BY2PG = BY2PG
      BY ByteNumbers
    <3> QED
      BY <1>1, <1>2, <3>1, <3>2, ByteNumbers
  <2>4. CASE page_alloc_fails(m)
    <3>1. page = p /\ p # NULL
      <4>1. page \in Page /\ NULL \notin Page
        BY <2>1, ElfLoadAssumption
      <4>2. page = p
        BY <2>4 DEF page
      <4> QED
        BY <4>1, <4>2
    <3>2. Copying /\ m.ref[p] * BY2PG <= tempVa - R + BY2PG
      BY <3>1 DEF IInv, CursorInv, Mapping, Copying
    <3>3. tempVa' = tempVa + BY2PG
      BY <3>2
    <3> DEFINE r == m.ref[page]
               b == r * BY2PG
    <3>4. /\ b \in Nat /\ (r + 1) * BY2PG = b + BY2PG
      BY <2>2, ByteNumbers, Times
    <3>5. m'.ref[page] * BY2PG = b \/ m'.ref[page] * BY2PG = b + BY2PG
      BY <2>1, <3>4
    <3>6. b <= tempVa - R + BY2PG
      BY <3>1, <3>2
    <3> HIDE DEF b, R
    <3> QED
      BY <1>1, <3>3, <3>4, <3>5, <3>6, ByteNumbers
  <2> QED
    BY <2>3, <2>4
<1> HIDE DEF R
<1>5. Mapping' => ph' <= Len(image'.seg) /\ seg'.load /\ tempVa' % BY2PG = 0 /\ R' <= tempVa'
  BY <1>1, <1>2, <1>3
<1>6. page \notin Freed(m') \cup held' \cup live(Entries(m'), Dirs)
  BY DEF PagePut
<1>7. Copying' =>
        /\ tempVa' <= R' + i' + BY2PG
        /\ i' + BY2PG < Wrap \/ tempVa' = R'
        /\ p' # NULL => /\ p' \notin Freed(m') \cup held' \cup live(Entries(m'), Dirs)
                        /\ m'.ref[p'] * BY2PG <= tempVa' - R' + BY2PG
  BY <1>3, <1>4, <1>6 DEF R
<1>8. pc' # "first"
  BY DEF Copying
<1>9. i' \in 0 .. Wrap - 1
  <2> DEFINE j == i'
  <2>1. j \in Nat /\ j + BY2PG < Wrap
    OBVIOUS
  <2> HIDE DEF j
  <2>2. j \in 0 .. Wrap - 1
    BY <2>1, ByteNumbers
  <2> QED
    BY <2>2 DEF j
<1> QED
  BY <1>2, <1>5, <1>7, <1>8, <1>9 DEF CursorInv, R

LEMMA Idle ==
  ASSUME MemInv, UNCHANGED <<m, held>>, failed => failed'
  PROVE  MemInv'
BY DEF MemInv, Sound, Away, Freed

LEMMA PanicIInv ==
  ASSUME IInv, Panic, UNCHANGED <<image, held, wild>>
  PROVE  IInv'
<1>1. MemInv'
  BY Idle DEF Panic, IInv
<1>2. TypeOK' /\ image' \in Programs
  BY <1>1, TypeAfter DEF Panic, IInv, TypeOK
<1> QED
  BY <1>1, <1>2 DEF Panic, IInv, Returned, CursorInv, Mapping, Copying

\* The steps that map a page.
LEMMA LoadIcodeIInv ==
  ASSUME IInv, LoadIcode
  PROVE  /\ IInv'
         /\ ~failed' => /\ PagePut(StackPage) /\ ~Fails(StackPage)
                        /\ \A k \in Idx : m'.mem[page][k] = Zero
<1>m. MemInv /\ StackPage \in Nat /\ va(StackPage) \in Va
  <2>1. StackPage \in Nat /\ StackPage < StackPage + BY2PG
    BY Stack, ByteNumbers
  <2> QED
    BY <2>1, VaBelow DEF IInv
<1>1. MemInv' /\ failed' \in BOOLEAN
  <2>1. CASE page_alloc_fails(m)
    BY <1>m, <2>1, Idle DEF LoadIcode
  <2>2. CASE ~page_alloc_fails(m)
    <3> DEFINE y == insert(StackPage)
    <3>1. m' = y /\ held' = held /\ (failed \/ Fails(StackPage) => failed') /\ failed' \in BOOLEAN
      BY <2>2 DEF LoadIcode, IInv, TypeOK
    <3>2. Sound(y, Away(y)) /\ held \subseteq Away(y)
          /\ (Away(y) # held => failed \/ Fails(StackPage))
      BY <1>m, <2>2, Inserted DEF Usable
    <3> HIDE DEF y
    <3> QED
      BY <3>1, <3>2 DEF MemInv
  <2> QED
    BY <2>1, <2>2
<1>2. TypeOK' /\ image' \in Programs
  BY <1>1, TypeAfter DEF LoadIcode, IInv, TypeOK
<1>3. pc' \in {"no_stack", "not_elf", "load_elf"}
  BY DEF LoadIcode
<1>4. ASSUME ~failed'
      PROVE  PagePut(StackPage) /\ ~Fails(StackPage) /\ \A k \in Idx : m'.mem[page][k] = Zero
  <2> DEFINE y == insert(StackPage)
  <2>1. m' = y /\ held' = held /\ ~page_alloc_fails(m) /\ ~Fails(StackPage)
    BY <1>4 DEF LoadIcode
  <2>2. /\ page \in Page /\ page \notin Freed(y) \cup held \cup live(Entries(y), Dirs)
        /\ y.ref[page] = m.ref[page] \/ y.ref[page] = m.ref[page] + 1
        /\ m.ref[page] = 0 /\ y.mem[page] = ZeroPage
        /\ \A v \in Va : page_lookup(y, env_pgdir, v) =
             IF v = va(StackPage) /\ ~page_insert_fails(got, env_pgdir, page, va(StackPage))
             THEN [pg |-> page, perm |-> {"PTE_R"}] ELSE page_lookup(m, env_pgdir, v)
        /\ \A q \in AllPages \ live(Entries(y), Dirs) : q # page => y.mem[q] = m.mem[q]
    BY <1>m, <2>1, Inserted DEF Usable
  <2> HIDE DEF y
  <2>3. PagePut(StackPage)
    BY <1>1, <2>1, <2>2 DEF PagePut
  <2>4. \A k \in Idx : m'.mem[page][k] = Zero
    BY <2>1, <2>2 DEF ZeroPage
  <2> QED
    BY <2>1, <2>3, <2>4
<1> QED
  BY <1>1, <1>2, <1>3, <1>4 DEF IInv, Returned, CursorInv, Mapping, Copying

LEMMA FirstPageIInv ==
  ASSUME IInv, FirstPage
  PROVE  /\ IInv'
         /\ page # NULL =>
              /\ PagePut(seg.va) /\ failed' = (failed \/ Fails(seg.va))
              /\ \A k \in Idx : offset <= k => m'.mem[page][k] = Byte(U(seg.off + k - offset))
<1>1. CASE page = NULL
  BY <1>1, PanicIInv DEF FirstPage
<1>2. CASE page # NULL
  <2>1. /\ Took(seg.va) /\ m' = bcopy(insert(seg.va), page, offset, BY2PG - offset, seg.off)
        /\ i' = BY2PG - offset /\ UNCHANGED <<image, held, wild, ph, tempVa>>
    BY <1>2 DEF FirstPage
  <2>2. Mapping /\ ~Copying /\ Copying' /\ pc = "first"
    BY <1>2 DEF FirstPage, Mapping, Copying
  <2>3. Usable /\ va(seg.va) \in Va
    BY <1>2, <2>2, ReadyFirst
  <2>s. /\ seg.va \in Nat /\ seg.off \in Nat /\ seg.memsz \in Nat
        /\ ROUND(seg.va) \in Nat /\ seg.memsz + 2 * BY2PG <= Wrap
    BY <2>2, SegHere
  <2>4. offset \in Nat /\ offset > 0 /\ offset < BY2PG
    <3>1. offset = seg.va % BY2PG /\ seg.va % BY2PG \in 0 .. BY2PG - 1
      BY <2>s, Rounding, PageNumber DEF offset
    <3>2. offset > 0
      BY <2>2 DEF IInv, CursorInv
    <3> QED
      BY <3>1, <3>2, ByteNumbers
  <2>5. /\ PagePut(seg.va)
        /\ \A k \in Idx : offset <= k => m'.mem[page][k] = Byte(U(seg.off + k - offset))
    <3>1. MemInv /\ BY2PG - offset \in Int /\ held' = held
      BY <2>1, <2>4, ByteNumbers DEF IInv
    <3>2. /\ PagePut(seg.va)
          /\ \A k \in Idx : offset <= k /\ k < offset + (BY2PG - offset) =>
               m'.mem[page][k] = Byte(U(seg.off + k - offset))
      BY <2>1, <2>3, <2>4, <2>s, <3>1, CopiedPage
    <3>3. \A k \in Idx : k < offset + (BY2PG - offset)
      BY <2>4, ElfLoadAssumption
    <3> QED
      BY <3>2, <3>3
  <2>6. i' \in Nat /\ tempVa' <= ROUND(seg.va) + i' + BY2PG /\ i' + BY2PG < Wrap
    <3>1. tempVa' = ROUND(seg.va)
      BY <2>1, <2>2 DEF IInv, CursorInv
    <3>2. i' = BY2PG - offset
      BY <2>1
    <3> DEFINE o == offset
               R == ROUND(seg.va)
    <3>3. R \in Nat /\ o \in Nat /\ o > 0 /\ o < BY2PG /\ tempVa' = R /\ i' = BY2PG - o
      BY <2>4, <2>s, <3>1, <3>2
    <3>4. seg.memsz + 2 * BY2PG <= Wrap /\ seg.memsz \in Nat
      BY <2>s
    <3> HIDE DEF o, R
    <3>5. i' \in Nat /\ tempVa' <= R + i' + BY2PG /\ i' + BY2PG < Wrap
      BY <3>3, <3>4, ByteNumbers
    <3> QED
      BY <3>5 DEF R
  <2>7. p' = page /\ page \in Page /\ MemInv' /\ failed' = (failed \/ Fails(seg.va))
    BY <2>1, <2>5 DEF Took, PagePut
  <2>8. CursorInv' /\ tempVa' \in Nat /\ i' \in 0 .. Wrap - 1
    BY <2>1, <2>2, <2>5, <2>6, <2>7, CursorAfter
  <2>9. TypeOK' /\ image' \in Programs
    BY <2>1, <2>7, <2>8, TypeAfter DEF IInv, TypeOK
  <2> QED
    BY <2>2, <2>5, <2>7, <2>8, <2>9 DEF IInv, Copying
<1> QED
  BY <1>1, <1>2

\* u_long arithmetic.
LEMMA Unsigned ==
  ASSUME NEW n \in Nat
  PROVE  U(n) \in 0 .. Wrap - 1 /\ (n < Wrap => U(n) = n)
<1>1. n % Wrap \in 0 .. Wrap - 1
  BY ByteNumbers, DivMod
<1>2. ASSUME n < Wrap PROVE n % Wrap = n
  <2>1. n \in 0 .. Wrap - 1 /\ 0 * Wrap + n = n
    BY <1>2, ByteNumbers
  <2>2. (0 * Wrap + n) % Wrap = n
    BY <2>1, ByteNumbers, DivModUnique
  <2> QED
    BY <2>1, <2>2
<1> QED
  BY <1>1, <1>2 DEF U

\* i and tempVa while there is something left to be mapped, and after a page.
LEMMA Near ==
  ASSUME IInv, Copying, U(i + BY2PG) <= seg.memsz \/ i < seg.memsz
  PROVE  /\ tempVa < ROUND(seg.va) + seg.memsz + BY2PG
         /\ tempVa + BY2PG <= ROUND(seg.va) + U(i + BY2PG) + BY2PG
         /\ U(i + BY2PG) \in Nat /\ U(i + BY2PG) + BY2PG < Wrap
<1> DEFINE R == ROUND(seg.va)
           M == seg.memsz
           t == tempVa
           j == i
           u == U(j + BY2PG)
<1>1. /\ R \in Nat /\ M \in Nat /\ t \in Nat /\ j \in 0 .. Wrap - 1 /\ R <= t
      /\ M + 2 * BY2PG <= Wrap
  BY SegHere DEF Copying, Mapping
<1>2. t <= R + j + BY2PG /\ (j + BY2PG < Wrap \/ t = R)
  BY DEF IInv, CursorInv
<1>3. u <= M \/ j < M
  OBVIOUS
<1> HIDE DEF R, M, t, j
<1>4. j + BY2PG \in Nat
  BY <1>1, ByteNumbers
<1>5. u \in 0 .. Wrap - 1 /\ (j + BY2PG < Wrap => u = j + BY2PG)
  BY <1>4, Unsigned
<1> HIDE DEF u
<1>6. /\ t < R + M + BY2PG /\ t + BY2PG <= R + u + BY2PG /\ u \in Nat /\ u + BY2PG < Wrap
  <2>1. CASE j + BY2PG < Wrap
    <3>1. u = j + BY2PG
      BY <1>5, <2>1
    <3> QED
      BY <1>1, <1>2, <1>3, <3>1, ByteNumbers
  <2>2. CASE ~(j + BY2PG < Wrap)
    <3>1. t = R /\ u <= M /\ u \in Nat
      BY <1>1, <1>2, <1>3, <1>5, <2>2, ByteNumbers
    <3> QED
      BY <1>1, <3>1, ByteNumbers
  <2> QED
    BY <2>1, <2>2
<1> QED
  BY <1>6 DEF R, M, t, j, u

LEMMA Advance ==
  ASSUME IInv, Copying, U(i + BY2PG) <= seg.memsz \/ i < seg.memsz,
         PagePut(tempVa), Took(tempVa), UNCHANGED <<image, held, ph, wild>>, Copying',
         i' = U(i + BY2PG), tempVa' = tempVa + BY2PG
  PROVE  IInv'
<1>1. /\ p' = page /\ page \in Page /\ MemInv' /\ failed' \in BOOLEAN /\ ph' = ph
      /\ UNCHANGED <<image, held>> /\ wild' \in BOOLEAN /\ ph' \in 1 .. Len(image.seg) + 1
  BY DEF Took, PagePut, IInv, TypeOK
<1>2. tempVa' <= ROUND(seg.va) + i' + BY2PG /\ i' \in Nat /\ i' + BY2PG < Wrap
  BY Near
<1>3. CursorInv' /\ tempVa' \in Nat /\ i' \in 0 .. Wrap - 1
  BY <1>1, <1>2, CursorAfter DEF Copying, Mapping
<1>4. TypeOK' /\ image' \in Programs
  BY <1>1, <1>3, TypeAfter
<1> QED
  BY <1>1, <1>3, <1>4 DEF IInv, Copying

LEMMA WholePageIInv ==
  ASSUME IInv, WholePage
  PROVE  /\ IInv'
         /\ page # NULL =>
              /\ PagePut(tempVa) /\ failed' = (failed \/ Fails(tempVa))
              /\ \A k \in Idx : m'.mem[page][k] = Byte(U(seg.off + i + k))
<1>0. Copying /\ Mapping
  BY DEF WholePage, Copying, Mapping
<1>1. CASE page = NULL
  BY <1>1, PanicIInv DEF WholePage
<1>2. CASE page # NULL
  <2>1. /\ Took(tempVa) /\ m' = bcopy(insert(tempVa), page, 0, BY2PG, seg.off + i)
        /\ i' = U(i + BY2PG) /\ tempVa' = tempVa + BY2PG
        /\ UNCHANGED <<pc, ph, image, held, wild>>
    BY <1>2 DEF WholePage
  <2>2. U(i + BY2PG) <= seg.memsz
    <3> DEFINE u == U(i + BY2PG)
    <3>1. u <= seg.filesz /\ seg.filesz <= seg.memsz /\ seg.filesz \in Nat /\ seg.memsz \in Nat
      BY <1>0, SegHere DEF WholePage
    <3>2. i + BY2PG \in Nat
      BY ByteNumbers DEF IInv, TypeOK
    <3>3. u \in Int
      BY <3>2, Unsigned, ByteNumbers
    <3> HIDE DEF u
    <3>4. u <= seg.memsz
      BY <3>1, <3>3
    <3> QED
      BY <3>4 DEF u
  <2>3. Usable /\ va(tempVa) \in Va
    BY <1>0, <1>2, <2>2, Near, Ready
  <2>4. /\ tempVa \in Nat /\ seg.off + i \in Nat /\ MemInv /\ held' = held
        /\ 0 \in Nat /\ BY2PG \in Int /\ seg.off \in Nat /\ i \in Nat
    <3>1. seg.off \in Nat /\ i \in Nat
      BY <1>0, SegHere, ByteNumbers
    <3> QED
      BY <2>1, <3>1, ByteNumbers DEF IInv, TypeOK
  <2>5. /\ PagePut(tempVa)
        /\ \A k \in Idx : 0 <= k /\ k < 0 + BY2PG =>
             m'.mem[page][k] = Byte(U((seg.off + i) + k - 0))
    BY <2>1, <2>3, <2>4, CopiedPage
  <2>6. Copying'
    BY <1>0, <2>1 DEF Copying
  <2>7. IInv'
    BY <1>0, <2>1, <2>2, <2>5, <2>6, Advance
  <2>8. \A k \in Idx : m'.mem[page][k] = Byte(U(seg.off + i + k))
    <3>1. \A k \in Idx : 0 <= k /\ k < 0 + BY2PG /\ (seg.off + i) + k - 0 = seg.off + i + k
      BY <2>4, ElfLoadAssumption
    <3> QED
      BY <2>5, <3>1
  <2> QED
    BY <2>1, <2>5, <2>7, <2>8 DEF Took
<1> QED
  BY <1>1, <1>2

LEMMA PartPageIInv ==
  ASSUME IInv, PartPage
  PROVE  /\ IInv'
         /\ page # NULL /\ i < seg.filesz =>
              /\ PagePut(tempVa) /\ failed' = (failed \/ Fails(tempVa))
              /\ \A k \in Idx : k < seg.filesz - i => m'.mem[page][k] = Byte(U(seg.off + i + k))
              /\ ~page_alloc_fails(m) =>
                   \A k \in Idx : seg.filesz - i <= k => m'.mem[page][k] = Zero
<1>0. Copying /\ Mapping
  BY DEF PartPage, Copying, Mapping
<1>s. /\ seg.off \in Nat /\ i \in Nat /\ i \in 0 .. Wrap - 1 /\ seg.filesz \in Nat
      /\ seg.memsz \in Nat /\ seg.filesz <= seg.memsz
  BY <1>0, SegHere, ByteNumbers
<1>1. CASE seg.filesz <= i
  <2>1. pc' = "sg" /\ UNCHANGED <<m, ph, i, tempVa, p, failed, image, held, wild>>
    BY <1>1 DEF PartPage
  <2>2. MemInv'
    BY <2>1, Idle DEF IInv
  <2>3. TypeOK' /\ image' \in Programs
    BY <2>1, <2>2, TypeAfter DEF IInv, TypeOK
  <2>4. CursorInv'
    BY <1>0, <2>1 DEF IInv, CursorInv, Mapping, Copying, seg, ROUND, ROUNDDOWN, Freed
  <2>5. ~(i < seg.filesz)
    BY <1>1, <1>s
  <2> QED
    BY <2>1, <2>2, <2>3, <2>4, <2>5 DEF IInv
<1>2. CASE ~(seg.filesz <= i) /\ page = NULL
  BY <1>2, PanicIInv DEF PartPage
<1>3. CASE ~(seg.filesz <= i) /\ page # NULL
  <2>1. /\ Took(tempVa)
        /\ m' = bcopy(insert(tempVa), page, 0, seg.filesz - i, seg.off + i)
        /\ i' = U(i + BY2PG) /\ tempVa' = tempVa + BY2PG /\ pc' = "sg"
        /\ UNCHANGED <<ph, image, held, wild>>
    BY <1>3 DEF PartPage
  <2>2. i < seg.memsz
    BY <1>3, <1>s
  <2>3. Usable /\ va(tempVa) \in Va
    BY <1>0, <1>3, <2>2, Near, Ready
  <2>4. /\ tempVa \in Nat /\ seg.off + i \in Nat /\ MemInv /\ held' = held
        /\ 0 \in Nat /\ seg.filesz - i \in Int
    BY <1>s, <2>1 DEF IInv, TypeOK
  <2>5. /\ PagePut(tempVa)
        /\ \A k \in Idx : 0 <= k /\ k < 0 + (seg.filesz - i) =>
             m'.mem[page][k] = Byte(U((seg.off + i) + k - 0))
        /\ ~page_alloc_fails(m) =>
             \A k \in Idx : ~(0 <= k /\ k < 0 + (seg.filesz - i)) => m'.mem[page][k] = Zero
    BY <2>1, <2>3, <2>4, CopiedPage
  <2>6. Copying'
    BY <2>1 DEF Copying
  <2>7. IInv'
    BY <1>0, <2>1, <2>2, <2>5, <2>6, Advance
  <2>8. \A k \in Idx : /\ 0 <= k /\ 0 + (seg.filesz - i) = seg.filesz - i
                       /\ (seg.off + i) + k - 0 = seg.off + i + k
                       /\ ~(k < seg.filesz - i) <=> seg.filesz - i <= k
    BY <1>s, ElfLoadAssumption
  <2>9. /\ \A k \in Idx : k < seg.filesz - i => m'.mem[page][k] = Byte(U(seg.off + i + k))
        /\ ~page_alloc_fails(m) => \A k \in Idx : seg.filesz - i <= k => m'.mem[page][k] = Zero
    BY <2>5, <2>8
  <2> QED
    BY <2>1, <2>5, <2>7, <2>9 DEF Took
<1> QED
  BY <1>1, <1>2, <1>3

LEMMA ZeroedPageIInv ==
  ASSUME IInv, ZeroedPage
  PROVE  /\ IInv'
         /\ page # NULL =>
              /\ PagePut(tempVa) /\ failed' = (failed \/ Fails(tempVa))
              /\ ~page_alloc_fails(m) => \A k \in Idx : m'.mem[page][k] = Zero
<1>0. Copying /\ Mapping
  BY DEF ZeroedPage, Copying, Mapping
<1>1. CASE page = NULL
  BY <1>1, PanicIInv DEF ZeroedPage
<1>2. CASE page # NULL
  <2>1. /\ Took(tempVa) /\ m' = bzero(insert(tempVa), page, BY2PG)
        /\ i' = U(i + BY2PG) /\ tempVa' = tempVa + BY2PG
        /\ UNCHANGED <<pc, ph, image, held, wild>>
    BY <1>2 DEF ZeroedPage
  <2>2. U(i + BY2PG) <= seg.memsz
    <3> DEFINE u == U(i + BY2PG)
    <3>1. u < seg.memsz /\ seg.memsz \in Nat
      BY <1>0, SegHere DEF ZeroedPage
    <3>2. i + BY2PG \in Nat
      BY ByteNumbers DEF IInv, TypeOK
    <3>3. u \in Int
      BY <3>2, Unsigned, ByteNumbers
    <3> HIDE DEF u
    <3>4. u <= seg.memsz
      BY <3>1, <3>3
    <3> QED
      BY <3>4 DEF u
  <2>3. Usable /\ va(tempVa) \in Va
    BY <1>0, <1>2, <2>2, Near, Ready
  <2>4. tempVa \in Nat /\ MemInv /\ held' = held /\ BY2PG \in Int
    BY <2>1, ByteNumbers DEF IInv, TypeOK
  <2>5. /\ PagePut(tempVa)
        /\ ~page_alloc_fails(m) => \A k \in Idx : m'.mem[page][k] = Zero
    BY <2>1, <2>3, <2>4, ClearedPage
  <2>6. Copying'
    BY <1>0, <2>1 DEF Copying
  <2>7. IInv'
    BY <1>0, <2>1, <2>2, <2>5, <2>6, Advance
  <2> QED
    BY <2>1, <2>5, <2>7 DEF Took
<1> QED
  BY <1>1, <1>2

LEMMA LastPageIInv ==
  ASSUME IInv, LastPage
  PROVE  /\ IInv'
         /\ page # NULL /\ i < seg.memsz =>
              /\ PagePut(tempVa) /\ failed' = (failed \/ Fails(tempVa))
              /\ ~page_alloc_fails(m) => \A k \in Idx : m'.mem[page][k] = Zero
<1>0. Copying /\ Mapping
  BY DEF LastPage, Copying, Mapping
<1>s. i \in Nat /\ seg.memsz \in Nat /\ ph \in 1 .. Len(image.seg) /\ ph + 1 \in 1 .. Len(image.seg) + 1
  <2>1. i \in Nat /\ seg.memsz \in Nat /\ ph \in DOMAIN image.seg /\ image.seg \in Seq(ProgramHeader)
    BY <1>0, SegHere, ByteNumbers, ProgramsAssumption DEF IInv
  <2> QED
    BY <2>1
<1>1. CASE seg.memsz <= i
  <2>1. /\ pc' = "load_elf" /\ ph' = ph + 1
        /\ UNCHANGED <<m, i, tempVa, p, failed, image, held, wild>>
    BY <1>1 DEF LastPage
  <2>2. MemInv'
    BY <2>1, Idle DEF IInv
  <2>3. TypeOK' /\ image' \in Programs
    BY <1>s, <2>1, <2>2, TypeAfter DEF IInv, TypeOK
  <2>5. ~(i < seg.memsz)
    BY <1>1, <1>s
  <2> QED
    BY <2>1, <2>2, <2>3, <2>5 DEF IInv, CursorInv, Mapping, Copying
<1>2. CASE ~(seg.memsz <= i) /\ page = NULL
  BY <1>2, PanicIInv DEF LastPage
<1>3. CASE ~(seg.memsz <= i) /\ page # NULL
  <2>1. /\ Took(tempVa) /\ m' = bzero(insert(tempVa), page, seg.memsz - i)
        /\ pc' = "load_elf" /\ ph' = ph + 1
        /\ UNCHANGED <<i, tempVa, image, held, wild>>
    BY <1>3 DEF LastPage
  <2>2. i < seg.memsz
    BY <1>3, <1>s
  <2>3. Usable /\ va(tempVa) \in Va
    BY <1>0, <1>3, <2>2, Near, Ready
  <2>4. tempVa \in Nat /\ MemInv /\ held' = held /\ seg.memsz - i \in Int
    BY <1>s, <2>1 DEF IInv, TypeOK
  <2>5. /\ PagePut(tempVa)
        /\ ~page_alloc_fails(m) => \A k \in Idx : m'.mem[page][k] = Zero
    BY <2>1, <2>3, <2>4, ClearedPage
  <2>6. p' = page /\ page \in Page /\ MemInv' /\ failed' \in BOOLEAN
    BY <2>1, <2>5 DEF PagePut, Took, IInv, TypeOK
  <2>7. TypeOK' /\ image' \in Programs
    BY <1>s, <2>1, <2>6, TypeAfter DEF IInv, TypeOK
  <2> QED
    BY <2>1, <2>5, <2>6, <2>7 DEF IInv, CursorInv, Mapping, Copying, Took
<1> QED
  BY <1>1, <1>2, <1>3

LEMMA NextHeaderIInv ==
  ASSUME IInv, NextHeader PROVE IInv'
<1>1. /\ pc = "load_elf" /\ ph <= Len(image.seg) /\ UNCHANGED <<m, image, held, failed>>
  BY DEF NextHeader
<1>2. MemInv'
  BY <1>1, Idle DEF IInv
<1>3. ph \in DOMAIN image.seg /\ Len(image.seg) \in Nat /\ ph \in Nat /\ ph >= 1
  <2>1. image.seg \in Seq(ProgramHeader) /\ ph \in 1 .. Len(image.seg) + 1
    BY ProgramsAssumption DEF IInv, TypeOK
  <2> QED
    BY <1>1, <2>1
<1>4. CASE ~seg.load
  <2>1. ph' = ph + 1 /\ UNCHANGED <<pc, i, tempVa, p, wild>>
    BY <1>4 DEF NextHeader
  <2>2. TypeOK' /\ image' \in Programs
    BY <1>1, <1>2, <1>3, <2>1, TypeAfter DEF IInv, TypeOK
  <2> QED
    BY <1>1, <1>2, <2>1, <2>2 DEF IInv, CursorInv, Mapping, Copying
<1>5. CASE seg.load
  <2>1. p' = NULL /\ tempVa' = ROUND(seg.va) /\ ph' = ph
    BY <1>5 DEF NextHeader
  <2>2. seg.va \in Nat /\ ROUND(seg.va) \in Nat /\ ROUND(seg.va) % BY2PG = 0
    <3>1. seg.va \in Nat
      BY <1>3, <1>5, Segment DEF IInv, seg
    <3> QED
      BY <3>1, Rounding
  <2>3. /\ seg' = seg /\ (ROUND(seg.va))' = ROUND(seg.va) /\ offset' = offset
    BY <1>1, <2>1 DEF seg, ROUND, ROUNDDOWN, offset
  <2>4. CASE offset > 0
    <3>1. pc' = "first" /\ UNCHANGED <<i, wild>>
      BY <1>5, <2>4 DEF NextHeader
    <3>2. TypeOK' /\ image' \in Programs
      BY <1>1, <1>2, <1>3, <2>1, <2>2, <3>1, TypeAfter DEF IInv, TypeOK
    <3>3. CursorInv'
      BY <1>1, <1>5, <2>1, <2>2, <2>3, <2>4, <3>1 DEF CursorInv, Mapping, Copying
    <3> QED
      BY <1>2, <3>1, <3>2, <3>3 DEF IInv
  <2>5. CASE ~(offset > 0)
    <3>1. pc' = "bin" /\ i' \in Garbage /\ wild' = (wild \/ i' # 0)
      BY <1>5, <2>5 DEF NextHeader
    <3>2. i' \in 0 .. Wrap - 1 /\ i' \in Nat
      BY <3>1, ElfLoadAssumption
    <3>3. TypeOK' /\ image' \in Programs
      BY <1>1, <1>2, <1>3, <2>1, <2>2, <3>1, <3>2, TypeAfter DEF IInv, TypeOK
    <3>4. tempVa' <= (ROUND(seg.va))' + i' + BY2PG
      <4> DEFINE R == ROUND(seg.va)
                 j == i'
      <4>1. R \in Nat /\ j \in Nat /\ tempVa' = R /\ (ROUND(seg.va))' = R
        BY <2>1, <2>2, <2>3, <3>2
      <4> HIDE DEF R, j
      <4>2. R <= R + j + BY2PG
        BY <4>1, ByteNumbers
      <4> QED
        BY <4>1, <4>2 DEF j
    <3>5. CursorInv'
      BY <1>1, <1>5, <2>1, <2>2, <2>3, <3>1, <3>4 DEF CursorInv, Mapping, Copying
    <3> QED
      BY <1>2, <3>1, <3>3, <3>5 DEF IInv
  <2> QED
    BY <2>4, <2>5
<1> QED
  BY <1>4, <1>5

LEMMA StepIInv == IInv /\ [Next]_vars => IInv'
<1> SUFFICES ASSUME IInv, [Next]_vars PROVE IInv'
  OBVIOUS
<1>1. CASE LoadDone
  <2>1. /\ pc' = "loaded" /\ UNCHANGED <<m, image, held, ph, i, tempVa, p, wild, failed>>
    BY <1>1 DEF LoadDone
  <2>2. MemInv'
    BY <2>1, Idle DEF IInv
  <2>3. TypeOK' /\ image' \in Programs
    BY <2>1, <2>2, TypeAfter DEF IInv, TypeOK
  <2> QED
    BY <2>1, <2>2, <2>3 DEF IInv, Returned, CursorInv, Mapping, Copying
<1>2. CASE Stopped \/ UNCHANGED vars
  <2>1. UNCHANGED vars
    BY <1>2 DEF Stopped
  <2>2. MemInv'
    BY <2>1, Idle DEF IInv, vars
  <2>3. TypeOK' /\ image' \in Programs
    BY <2>1, <2>2, TypeAfter DEF IInv, TypeOK, vars
  <2>4. CursorInv'
    BY <2>1 DEF IInv, CursorInv, Mapping, Copying, seg, ROUND, ROUNDDOWN, Freed, vars, offset
  <2> QED
    BY <2>1, <2>2, <2>3, <2>4 DEF IInv, Returned, vars
<1> QED
  BY <1>1, <1>2, LoadIcodeIInv, NextHeaderIInv, FirstPageIInv, WholePageIInv, PartPageIInv,
     ZeroedPageIInv, LastPageIInv DEF Next, Loader

-----------------------------------------------------------------------------
(***************************************************************************)
(* The counts and the free list.                                           *)
(***************************************************************************)

LEMMA MemExact == IInv => MemoryExact
<1> SUFFICES ASSUME IInv PROVE MemoryExact
  OBVIOUS
<1> DEFINE e == Entries(m)
           H == Away(m)
<1>1. /\ m \in Raw /\ Good(e, Dirs, H, {}) /\ live(e, Dirs) \subseteq Tidy(m)
      /\ held \subseteq H /\ (H # held => failed)
  BY DEF IInv, MemInv, Sound
<1>2. /\ e.free = m.free /\ e.ref = m.ref /\ \A q \in Tidy(m) : e.mem[q] = m.mem[q]
  BY <1>1, EntriesType
<1>3. Freed(e) = Freed(m) /\ FreeSet = Freed(m)
  BY <1>2 DEF Freed, FreeSet
<1>4. Lost = H \ held
  BY <1>3 DEF Lost, Away
<1> HIDE DEF e, H
<1>5. ASSUME NEW q PROVE pointers(m, Dirs, q) = pointers(e, Dirs, q)
  <2>1. \A r \in live(e, Dirs) : m.mem[r] = e.mem[r]
    BY <1>1, <1>2
  <2> QED
    BY <2>1, SameWords
<1>6. \A j, k \in 1 .. Len(m.free) : m.free[j] = m.free[k] => j = k
  BY <1>1, <1>2 DEF Good, ListExact
<1>7. \A q \in FreeSet : m.ref[q] = 0 /\ q \notin held
  <2>1. \A q \in Page : q \in Freed(m) => m.ref[q] = 0 /\ q \notin H
    BY <1>1, <1>2, <1>3 DEF Good, ListExact
  <2>2. FreeSet \subseteq Page
    BY <1>1 DEF FreeSet, Raw
  <2> QED
    BY <1>1, <1>3, <2>1, <2>2
<1>8. \A q \in Page : m.ref[q] = Cardinality(pointers(m, Dirs, q)) + (IF q \in Dirs THEN 1 ELSE 0)
  <2> SUFFICES ASSUME NEW q \in Page
               PROVE  m.ref[q] = Cardinality(pointers(m, Dirs, q)) + (IF q \in Dirs THEN 1 ELSE 0)
    OBVIOUS
  <2>1. /\ e.ref[q] = Cardinality(pointers(e, Dirs, q)) + (IF q \in Dirs THEN 1 ELSE 0)
                                                       + (IF q \in {} THEN 1 ELSE 0)
    BY <1>1 DEF Good, CountExact
  <2>2. Cardinality(pointers(e, Dirs, q)) \in Nat
    BY <1>1, LiveType, SlotFinite, DirsType DEF Good
  <2>3. pointers(m, Dirs, q) = pointers(e, Dirs, q)
    BY <1>5
  <2> QED
    BY <1>2, <2>1, <2>2, <2>3
<1>9. Lost # {} => failed
  BY <1>1, <1>4
<1> QED
  BY <1>6, <1>7, <1>8, <1>9 DEF MemoryExact

\* The loader's variables keep their types: i stays an unsigned number, and what
\* pp_ref counts stays within its 16 bits, for every image, page size and amount
\* of memory.
THEOREM LoaderTyped == Spec => []TypeOK
<1>1. IInv => TypeOK
  BY DEF IInv
<1> QED
  BY <1>1, InitIInv, StepIInv, PTL DEF Spec

\* Loading a program leaves the reference counts and the free list exact at every
\* step, also when memory runs out in the middle of it; a page falls out of both
\* only after page_alloc or page_insert has failed.
THEOREM LoaderMemory == Spec => []MemoryExact
BY InitIInv, StepIInv, MemExact, PTL DEF Spec

-----------------------------------------------------------------------------
(***************************************************************************)
(* What the program finds in memory x.                                     *)
(***************************************************************************)

MappedIn(x, n) == refill_finds(x, env_pgdir, va(n * BY2PG))
LoadedIn(x, a) == x.mem[page_lookup(x, env_pgdir, va(a)).pg][a % BY2PG]

\* The first n bytes of segment s are in place.
Meant(s, k) == IF k < s.filesz THEN Byte(U(s.off + k)) ELSE Zero
PlacedIn(x, s, n) ==
  \A k \in 0 .. s.memsz - 1 : k < n =>
    MappedIn(x, VPN(s.va + k)) /\ LoadedIn(x, s.va + k) = Meant(s, k)

LEMMA PageStart ==
  ASSUME NEW n \in Nat
  PROVE  n * BY2PG \in Nat /\ VPN(n * BY2PG) = n
<1> DEFINE b == n * BY2PG
<1>1. b \in Nat
  BY ByteNumbers, Times
<1>2. b <= b /\ b < b + BY2PG
  BY <1>1, ByteNumbers
<1> QED
  BY <1>1, <1>2, PageOf

LEMMA MappedLookup ==
  ASSUME NEW x, NEW H, Sound(x, H), NEW b \in Nat, VPN(b) \in PageNumbers
  PROVE  va(b) \in Va /\ (MappedIn(x, VPN(b)) <=> page_lookup(x, env_pgdir, va(b)) # Zero)
<1> DEFINE e == Entries(x)
           u == va(b)
<1>1. u \in Va
  BY VaType
<1>2. va(VPN(b) * BY2PG) = u
  <2>1. VPN(b) \in Nat
    BY PageNumber
  <2>2. VPN(b) * BY2PG \in Nat /\ VPN(VPN(b) * BY2PG) = VPN(b)
    BY <2>1, PageStart
  <2> QED
    BY <2>2, VaSame
<1>3. env_pgdir \in Dirs /\ Good(e, Dirs, H, {})
  BY DirsType DEF Sound
<1> HIDE DEF e, u
<1>4. /\ refill_finds(x, env_pgdir, u) = refill_finds(e, env_pgdir, u)
      /\ page_lookup(x, env_pgdir, u) = page_lookup(e, env_pgdir, u)
  BY <1>1, <1>3, SoundLookup DEF e
<1>5. refill_finds(e, env_pgdir, u) <=> page_lookup(e, env_pgdir, u) # Zero
  BY <1>1, <1>3, Lookup
<1> QED
  BY <1>1, <1>2, <1>4, <1>5 DEF MappedIn, u

LEMMA DataPage ==
  ASSUME NEW x, NEW H, Sound(x, H), NEW u \in Va, page_lookup(x, env_pgdir, u) # Zero
  PROVE  LET q == page_lookup(x, env_pgdir, u).pg IN
         q \in Page /\ q \notin live(Entries(x), Dirs) /\ x.ref[q] # 0
<1> DEFINE e == Entries(x)
           w == page_lookup(x, env_pgdir, u)
<1>1. env_pgdir \in Dirs /\ Good(e, Dirs, H, {}) /\ e.ref = x.ref
  BY EntriesType, DirsType DEF Sound
<1>2. w = page_lookup(e, env_pgdir, u) /\ w \in Word
  BY <1>1, SoundLookup
<1> HIDE DEF e
<1>3. walk(e, env_pgdir, u) \in tables(e, Dirs) \X Idx
  BY <1>1, <1>2, Lookup
<1>4. word(e, walk(e, env_pgdir, u)) = w
  BY <1>2 DEF page_lookup
<1> HIDE DEF w
<1>5. w # Zero
  BY DEF w
<1>6. w.pg \in data_pages(e, Dirs)
  BY <1>3, <1>4, <1>5 DEF data_pages
<1>7. w.pg \in Page
  BY <1>2, <1>5 DEF Word, Pte
<1>8. w.pg \notin live(e, Dirs)
  BY <1>1, <1>6 DEF Good, Forest, live
<1>9. x.ref[w.pg] # 0
  BY <1>1, <1>6, <1>7, CountZero
<1> QED
  BY <1>7, <1>8, <1>9 DEF w, e

\* A page put at an address changes what is found in that page only.
LEMMA AfterPut ==
  ASSUME MemInv, NEW a \in Nat, VPN(a) \in PageNumbers, PagePut(a), ~Fails(a)
  PROVE  /\ \A n \in PageNumbers : MappedIn(m', n) <=> n = VPN(a) \/ MappedIn(m, n)
         /\ \A b \in Nat : VPN(b) \in PageNumbers /\ VPN(b) # VPN(a) /\ MappedIn(m, VPN(b))
                           => LoadedIn(m', b) = LoadedIn(m, b)
         /\ \A b \in Nat : VPN(b) = VPN(a) => LoadedIn(m', b) = m'.mem[page][b % BY2PG]
<1> DEFINE x == m
           y == m'
           w == [pg |-> page, perm |-> {"PTE_R"}]
<1>1. Sound(x, Away(x)) /\ Sound(y, Away(y))
  BY DEF MemInv, PagePut
<1>2. ~page_alloc_fails(x) /\ ~page_insert_fails(got, env_pgdir, page, va(a))
  BY DEF Fails
<1>3. /\ page \in Page /\ x.ref[page] = 0 /\ w # Zero
      /\ \A v \in Va : page_lookup(y, env_pgdir, v) = IF v = va(a) THEN w
                                                      ELSE page_lookup(x, env_pgdir, v)
      /\ \A q \in AllPages \ live(Entries(y), Dirs) : q # page => y.mem[q] = x.mem[q]
  BY <1>2, ZeroAssumption DEF PagePut, Pte, Flag
<1> HIDE DEF x, y, w
<1>4. ASSUME NEW b \in Nat, VPN(b) \in PageNumbers
      PROVE  MappedIn(y, VPN(b)) <=> VPN(b) = VPN(a) \/ MappedIn(x, VPN(b))
  <2>1. va(b) \in Va
    BY <1>4, VaType
  <2>2. MappedIn(y, VPN(b)) <=> page_lookup(y, env_pgdir, va(b)) # Zero
    BY <1>1, <1>4, MappedLookup
  <2>3. MappedIn(x, VPN(b)) <=> page_lookup(x, env_pgdir, va(b)) # Zero
    BY <1>1, <1>4, MappedLookup
  <2>4. va(b) = va(a) <=> VPN(b) = VPN(a)
    BY VaSame
  <2> QED
    BY <1>3, <2>1, <2>2, <2>3, <2>4
<1>5. ASSUME NEW n \in PageNumbers PROVE MappedIn(y, n) <=> n = VPN(a) \/ MappedIn(x, n)
  <2>1. n \in Nat
    BY Stack DEF PageNumbers
  <2>2. n * BY2PG \in Nat /\ VPN(n * BY2PG) = n
    BY <2>1, PageStart
  <2> QED
    BY <1>4, <2>2
<1>6. ASSUME NEW b \in Nat, VPN(b) \in PageNumbers, VPN(b) # VPN(a), MappedIn(x, VPN(b))
      PROVE  LoadedIn(y, b) = LoadedIn(x, b)
  <2> DEFINE z == page_lookup(x, env_pgdir, va(b))
  <2>1. va(b) \in Va /\ z # Zero
    BY <1>1, <1>6, MappedLookup
  <2>2. page_lookup(y, env_pgdir, va(b)) = z
    BY <1>3, <1>6, <2>1, VaSame
  <2>3. z.pg \in Page /\ x.ref[z.pg] # 0
    BY <1>1, <2>1, DataPage
  <2>4. z.pg \notin live(Entries(y), Dirs)
    BY <1>1, <2>1, <2>2, DataPage
  <2>5. y.mem[z.pg] = x.mem[z.pg]
    BY <1>3, <2>3, <2>4, PageFacts
  <2> HIDE DEF z
  <2> QED
    BY <2>2, <2>5 DEF LoadedIn, z
<1>7. ASSUME NEW b \in Nat, VPN(b) = VPN(a) PROVE LoadedIn(y, b) = y.mem[page][b % BY2PG]
  <2>1. va(b) = va(a) /\ va(a) \in Va
    BY <1>7, VaSame, VaType
  <2>2. page_lookup(y, env_pgdir, va(b)) = w
    BY <1>3, <2>1
  <2> QED
    BY <2>2 DEF LoadedIn, w
<1> QED
  BY <1>5, <1>6, <1>7 DEF x, y

LEMMA SegmentPages ==
  ASSUME image \in Programs, NEW k \in LoadSegs
  PROVE  LET s == image.seg[k] IN
         /\ s.va \in Nat /\ s.filesz \in Nat /\ s.memsz \in Nat /\ s.off \in Nat
         /\ Pages(s) \subseteq PageNumbers \ {VPN(StackPage)}
         /\ \A j \in 0 .. s.memsz - 1 : s.va + j \in Nat /\ VPN(s.va + j) \in Pages(s)
<1> DEFINE s == image.seg[k]
<1>1. k \in DOMAIN image.seg /\ s.load
  <2>1. image.seg \in Seq(ProgramHeader)
    BY ProgramsAssumption
  <2> QED
    BY <2>1 DEF LoadSegs
<1>2. /\ s.va \in Nat /\ s.filesz \in Nat /\ s.memsz \in Nat /\ s.off \in Nat
      /\ ROUND(s.va) + s.memsz <= StackPage
  BY <1>1, Segment
<1>3. ROUND(s.va) \in Nat /\ s.va <= ROUND(s.va) /\ StackPage \in Nat
  BY <1>2, Rounding, Stack
<1> HIDE DEF s
<1>4. s.va + s.memsz <= StackPage
  BY <1>2, <1>3
<1>5. ASSUME NEW j \in 0 .. s.memsz - 1
      PROVE  s.va + j \in Nat /\ VPN(s.va + j) \in Pages(s)
  <2> DEFINE b == s.va + j
  <2>1. b \in Nat /\ s.va <= b /\ b < s.va + s.memsz /\ b <= StackPage
    BY <1>2, <1>3, <1>4
  <2> HIDE DEF b
  <2>2. VPN(s.va) <= VPN(b) /\ VPN(b) \in PageNumbers
    BY <1>2, <2>1, PageOrder, Stack
  <2>3. VPN(b) * BY2PG < s.va + s.memsz
    <3>1. b = VPN(b) * BY2PG + (b % BY2PG) /\ b % BY2PG \in 0 .. BY2PG - 1 /\ VPN(b) * BY2PG \in Nat
      BY <2>1, PageNumber
    <3> DEFINE c == VPN(b) * BY2PG
               r == b % BY2PG
    <3>2. b = c + r /\ r \in 0 .. BY2PG - 1 /\ c \in Nat
      BY <3>1
    <3> HIDE DEF c, r
    <3>3. c < s.va + s.memsz
      BY <1>2, <2>1, <3>2, ByteNumbers
    <3> QED
      BY <3>3 DEF c
  <2> QED
    BY <2>1, <2>2, <2>3 DEF Pages, PageNumbers, b
<1>6. ASSUME NEW n \in Pages(s) PROVE n # VPN(StackPage)
  <2>1. n * BY2PG < s.va + s.memsz
    BY DEF Pages
  <2>2. VPN(StackPage) * BY2PG = StackPage
    BY Stack DEF StackPage
  <2>3. CASE n = VPN(StackPage)
    BY <1>2, <1>3, <1>4, <2>1, <2>2, <2>3
  <2> QED
    BY <2>3
<1>7. Pages(s) \subseteq PageNumbers
  BY DEF Pages, PageNumbers
<1> QED
  BY <1>2, <1>5, <1>6, <1>7 DEF s

\* Of the program: the segments D are in memory x, the stack is if S, and the
\* pages F are mapped.
InPlace(x, D, F, S) ==
  /\ \A k \in D : PlacedIn(x, image.seg[k], image.seg[k].memsz)
  /\ \A n \in PageNumbers : MappedIn(x, n) <=> n \in F
  /\ S => \A k \in 0 .. BY2PG - 1 : LoadedIn(x, StackPage + k) = Zero

\* Bytes in other pages than the one just put stay in place.
LEMMA StaysPlaced ==
  ASSUME MemInv, image \in Programs, NEW a \in Nat, VPN(a) \in PageNumbers, PagePut(a), ~Fails(a),
         NEW k \in LoadSegs, NEW n, PlacedIn(m, image.seg[k], n),
         \A j \in 0 .. image.seg[k].memsz - 1 : j < n => VPN(image.seg[k].va + j) # VPN(a)
  PROVE  PlacedIn(m', image.seg[k], n)
<1> DEFINE s == image.seg[k]
<1>1. SUFFICES ASSUME NEW j \in 0 .. s.memsz - 1, j < n
               PROVE  MappedIn(m', VPN(s.va + j)) /\ LoadedIn(m', s.va + j) = Meant(s, j)
  BY DEF PlacedIn
<1> DEFINE b == s.va + j
<1>2. b \in Nat /\ VPN(b) \in PageNumbers
  BY SegmentPages
<1>3. VPN(b) # VPN(a) /\ MappedIn(m, VPN(b)) /\ LoadedIn(m, b) = Meant(s, j)
  BY <1>1 DEF PlacedIn
<1> HIDE DEF b, s
<1>4. MappedIn(m', VPN(b)) /\ LoadedIn(m', b) = LoadedIn(m, b)
  BY <1>2, <1>3, AfterPut
<1> QED
  BY <1>3, <1>4 DEF b

LEMMA StaysInPlace ==
  ASSUME MemInv, image \in Programs, NEW a \in Nat, VPN(a) \in PageNumbers, PagePut(a), ~Fails(a),
         NEW D \in SUBSET LoadSegs, NEW F, NEW S, InPlace(m, D, F, S),
         \A k \in D : VPN(a) \notin Pages(image.seg[k]),
         S => VPN(StackPage) \in F /\ VPN(a) # VPN(StackPage)
  PROVE  InPlace(m', D, F \cup {VPN(a)}, S)
<1>1. ASSUME NEW k \in D PROVE PlacedIn(m', image.seg[k], image.seg[k].memsz)
  <2>1. k \in LoadSegs /\ PlacedIn(m, image.seg[k], image.seg[k].memsz)
    BY DEF InPlace
  <2>2. \A j \in 0 .. image.seg[k].memsz - 1 : VPN(image.seg[k].va + j) # VPN(a)
    BY <2>1, SegmentPages
  <2> QED
    BY <2>1, <2>2, StaysPlaced
<1>2. \A n \in PageNumbers : MappedIn(m', n) <=> n \in F \cup {VPN(a)}
  <2>1. \A n \in PageNumbers : MappedIn(m, n) <=> n \in F
    BY DEF InPlace
  <2>2. \A n \in PageNumbers : MappedIn(m', n) <=> n = VPN(a) \/ MappedIn(m, n)
    BY AfterPut
  <2> QED
    BY <2>1, <2>2
<1>3. ASSUME S, NEW k \in 0 .. BY2PG - 1 PROVE LoadedIn(m', StackPage + k) = Zero
  <2> DEFINE b == StackPage + k
  <2>1. b \in Nat /\ VPN(b) = VPN(StackPage) /\ VPN(b) \in PageNumbers
    <3>1. StackPage \in Nat /\ StackPage <= StackPage /\ b \in Nat
      BY Stack, ByteNumbers
    <3> QED
      BY <3>1, Stack
  <2>2. LoadedIn(m, b) = Zero
    BY <1>3 DEF InPlace
  <2>3. MappedIn(m, VPN(b)) /\ VPN(b) # VPN(a)
    BY <1>3, <2>1 DEF InPlace
  <2> HIDE DEF b
  <2>4. LoadedIn(m', b) = LoadedIn(m, b)
    BY <2>1, <2>3, AfterPut
  <2> QED
    BY <2>2, <2>4 DEF b
<1> QED
  BY <1>1, <1>2, <1>3 DEF InPlace

-----------------------------------------------------------------------------
(***************************************************************************)
(* How far the program is in memory.                                       *)
(***************************************************************************)

\* What ProgramLoaded asks of the program and of the run.
Fit == /\ ~failed /\ ~wild /\ SegmentsApart
       /\ \A k \in LoadSegs : FillsFirstPage(image.seg[k])

Running == pc \in {"load_icode", "load_elf", "first", "bin", "sg", "loaded"}
Stacked == pc # "load_icode"
Done    == {k \in LoadSegs : k < ph}
Reached == {n \in Pages(seg) : Copying /\ n * BY2PG < tempVa}
Filled  == {n \in PageNumbers : \/ Stacked /\ n = VPN(StackPage)
                                \/ \E k \in Done : n \in Pages(image.seg[k])
                                \/ Mapping /\ n \in Reached}

\* The segments before ph are in place, and of the one at ph everything below
\* tempVa, which is the address of its byte i.
LoadInv ==
  Fit /\ Running =>
    /\ InPlace(m, Done, Filled, Stacked)
    /\ Copying => seg.va + i = tempVa /\ PlacedIn(m, seg, i)
    /\ pc = "sg" => seg.filesz <= i
    /\ pc = "loaded" => ph > Len(image.seg)

\* The page for address a of the segment at ph, with the bytes from u to v.
LEMMA NextPage ==
  ASSUME IInv, LoadInv, Fit, Mapping, NEW a \in Nat, PagePut(a), ~Fails(a),
         VPN(a) \in Pages(seg), NEW u \in Nat, NEW v \in Nat, PlacedIn(m, seg, u),
         \A k \in 0 .. seg.memsz - 1 : k < u => VPN(seg.va + k) # VPN(a),
         \A k \in 0 .. seg.memsz - 1 : u <= k /\ k < v =>
           /\ VPN(seg.va + k) = VPN(a)
           /\ m'.mem[page][(seg.va + k) % BY2PG] = Meant(seg, k)
  PROVE  InPlace(m', Done, Filled \cup {VPN(a)}, TRUE) /\ PlacedIn(m', seg, v)
<1>0. /\ MemInv /\ image \in Programs /\ Running /\ Stacked
      /\ InPlace(m, Done, Filled, Stacked)
  BY DEF IInv, LoadInv, Mapping, Running, Stacked
<1>1. ph \in LoadSegs /\ seg = image.seg[ph]
  <2>1. image.seg \in Seq(ProgramHeader) /\ ph \in DOMAIN image.seg /\ seg.load
    BY <1>0, SegHere, ProgramsAssumption
  <2> QED
    BY <2>1 DEF LoadSegs, seg
<1>2. VPN(a) \in PageNumbers /\ VPN(a) # VPN(StackPage)
  BY <1>0, <1>1, SegmentPages
<1>3. \A k \in Done : VPN(a) \notin Pages(image.seg[k])
  <2> SUFFICES ASSUME NEW k \in Done PROVE VPN(a) \notin Pages(image.seg[k])
    OBVIOUS
  <2>1. k \in LoadSegs /\ k # ph
    BY <1>1 DEF Done, LoadSegs
  <2>2. Pages(image.seg[k]) \cap Pages(image.seg[ph]) = {}
    BY <1>1, <2>1 DEF Fit, SegmentsApart
  <2> QED
    BY <1>1, <2>2
<1>4. InPlace(m', Done, Filled \cup {VPN(a)}, TRUE)
  <2>1. InPlace(m, Done, Filled, TRUE)
    BY <1>0 DEF InPlace
  <2>2. Done \in SUBSET LoadSegs
    BY DEF Done
  <2>3. VPN(StackPage) \in Filled
    <3>1. VPN(StackPage) \in PageNumbers
      BY Stack
    <3> QED
      BY <1>0, <3>1 DEF Filled
  <2> QED
    BY <1>0, <1>2, <1>3, <2>1, <2>2, <2>3, StaysInPlace
<1>5. PlacedIn(m', seg, u)
  BY <1>0, <1>1, <1>2, StaysPlaced
<1>6. ASSUME NEW k \in 0 .. seg.memsz - 1, k < v
      PROVE  MappedIn(m', VPN(seg.va + k)) /\ LoadedIn(m', seg.va + k) = Meant(seg, k)
  <2>1. CASE k < u
    BY <1>5, <2>1 DEF PlacedIn
  <2>2. CASE ~(k < u)
    <3> DEFINE b == seg.va + k
    <3>1. b \in Nat /\ k \in Int
      BY <1>0, <1>1, SegmentPages
    <3>2. u <= k
      BY <2>2, <3>1
    <3>3. VPN(b) = VPN(a) /\ m'.mem[page][b % BY2PG] = Meant(seg, k)
      BY <1>6, <3>2
    <3> HIDE DEF b
    <3>4. MappedIn(m', VPN(b)) /\ LoadedIn(m', b) = m'.mem[page][b % BY2PG]
      BY <1>0, <1>2, <3>1, <3>3, AfterPut
    <3> QED
      BY <3>3, <3>4 DEF b
  <2> QED
    BY <2>1, <2>2
<1>7. PlacedIn(m', seg, v)
  BY <1>6 DEF PlacedIn
<1> QED
  BY <1>4, <1>7

\* The page for tempVa, filled with the bytes from i on.
LEMMA PageCopied ==
  ASSUME IInv, LoadInv, Fit, Copying, i < seg.memsz, PagePut(tempVa), ~Fails(tempVa),
         \A k \in Idx : i + k < seg.memsz => m'.mem[page][k] = Meant(seg, i + k)
  PROVE  /\ U(i + BY2PG) = i + BY2PG /\ i + BY2PG \in Nat /\ i \in Nat
         /\ seg.va + (i + BY2PG) = tempVa + BY2PG
         /\ VPN(tempVa) \in Pages(seg)
         /\ InPlace(m', Done, Filled \cup {VPN(tempVa)}, TRUE)
         /\ PlacedIn(m', seg, i + BY2PG)
<1> DEFINE n == VPN(tempVa)
           t == tempVa
           M == seg.memsz
           V == seg.va
<1>0. Mapping /\ Running /\ image \in Programs
  BY DEF Copying, Mapping, Running, IInv
<1>1. V + i = t /\ PlacedIn(m, seg, i)
  BY <1>0 DEF LoadInv
<1>2. /\ V \in Nat /\ M \in Nat /\ i \in 0 .. Wrap - 1 /\ i \in Nat /\ t \in Nat
      /\ M + 2 * BY2PG <= Wrap
  BY <1>0, SegHere, ByteNumbers
<1>3. ph \in LoadSegs /\ seg = image.seg[ph]
  <2>1. image.seg \in Seq(ProgramHeader) /\ ph \in DOMAIN image.seg /\ seg.load
    BY <1>0, SegHere, ProgramsAssumption
  <2> QED
    BY <2>1 DEF LoadSegs, seg
<1>4. t % BY2PG = 0
  BY <1>0 DEF IInv, CursorInv
<1>5. n \in Nat /\ t = n * BY2PG
  BY <1>2, <1>4, PageAfter, PageNumber
<1>6. n \in Pages(seg)
  <2>1. i \in 0 .. M - 1
    BY <1>2
  <2>2. VPN(V + i) \in Pages(seg)
    BY <1>0, <1>3, <2>1, SegmentPages
  <2> QED
    BY <1>1, <2>2
<1> HIDE DEF n, t, M, V
<1>7. i + BY2PG \in Nat /\ i + BY2PG < Wrap /\ V + (i + BY2PG) = t + BY2PG
  BY <1>1, <1>2, ByteNumbers DEF M
<1>8. U(i + BY2PG) = i + BY2PG
  BY <1>7, Unsigned
<1>9. ASSUME NEW k \in 0 .. M - 1, k < i PROVE VPN(V + k) # n
  <2> DEFINE b == V + k
  <2>1. b \in Nat /\ b < t
    BY <1>1, <1>2, <1>9
  <2> HIDE DEF b
  <2>2. b = VPN(b) * BY2PG + (b % BY2PG) /\ b % BY2PG \in 0 .. BY2PG - 1
        /\ VPN(b) * BY2PG \in Nat
    BY <2>1, PageNumber
  <2>3. VPN(b) * BY2PG <= b
    <3> DEFINE c == VPN(b) * BY2PG
               r == b % BY2PG
    <3>1. b = c + r /\ r \in 0 .. BY2PG - 1 /\ c \in Nat
      BY <2>2
    <3> HIDE DEF c, r
    <3>2. c <= b
      BY <3>1, ByteNumbers
    <3> QED
      BY <3>2 DEF c
  <2>4. VPN(b) # n
    BY <1>5, <2>1, <2>2, <2>3
  <2> QED
    BY <2>4 DEF b
<1>10. ASSUME NEW k \in 0 .. M - 1, i <= k, k < i + BY2PG
       PROVE  VPN(V + k) = n /\ m'.mem[page][(V + k) % BY2PG] = Meant(seg, k)
  <2> DEFINE b == V + k
             j == k - i
  <2>1. /\ b \in Nat /\ n * BY2PG <= b /\ b < n * BY2PG + BY2PG /\ b - n * BY2PG = j
        /\ j \in 0 .. BY2PG - 1 /\ i + j = k /\ k < M
    BY <1>1, <1>2, <1>5, <1>10, ByteNumbers
  <2> HIDE DEF b, j
  <2>2. VPN(b) = n /\ b % BY2PG = j
    BY <1>5, <2>1, PageOf
  <2>3. j \in Idx
    BY <2>1, ElfLoadAssumption
  <2>4. m'.mem[page][j] = Meant(seg, k)
    BY <2>1, <2>3 DEF M
  <2> QED
    BY <2>2, <2>4 DEF b
<1>11. InPlace(m', Done, Filled \cup {n}, TRUE) /\ PlacedIn(m', seg, i + BY2PG)
  <2> DEFINE w == i + BY2PG
  <2>1. w \in Nat /\ i \in Nat /\ t \in Nat /\ PagePut(t) /\ ~Fails(t) /\ VPN(t) \in Pages(seg)
    BY <1>2, <1>6, <1>7 DEF n, t
  <2>2. /\ \A k \in 0 .. seg.memsz - 1 : k < i => VPN(seg.va + k) # VPN(t)
        /\ \A k \in 0 .. seg.memsz - 1 : i <= k /\ k < w =>
             VPN(seg.va + k) = VPN(t) /\ m'.mem[page][(seg.va + k) % BY2PG] = Meant(seg, k)
    BY <1>9, <1>10 DEF n, t, M, V
  <2> HIDE DEF w
  <2>3. InPlace(m', Done, Filled \cup {VPN(t)}, TRUE) /\ PlacedIn(m', seg, w)
    BY <1>0, <1>1, <2>1, <2>2, NextPage
  <2> QED
    BY <2>3 DEF w, n, t
<1> QED
  BY <1>2, <1>6, <1>7, <1>8, <1>11 DEF n, t, V

LEMMA PageBelow ==
  ASSUME NEW n \in Nat, NEW t \in Nat, t % BY2PG = 0
  PROVE  n * BY2PG < t + BY2PG <=> n * BY2PG < t \/ n = VPN(t)
<1> DEFINE q == VPN(t)
           b == n * BY2PG
           c == q * BY2PG
<1>1. q \in Nat /\ t = c
  BY PageAfter, PageNumber
<1> HIDE DEF q
<1>2. /\ b \in Nat /\ c \in Nat /\ (n < q => b + BY2PG <= c) /\ (q < n => c + BY2PG <= b)
  BY <1>1, ByteNumbers, Times
<1>3. n = q => b = c
  OBVIOUS
<1> HIDE DEF b, c
<1>4. b < t + BY2PG <=> b < t \/ n = q
  BY <1>1, <1>2, <1>3, ByteNumbers
<1> QED
  BY <1>4 DEF b, q

\* Fit never begins.
LEMMA FitBefore ==
  ASSUME image' = image, failed => failed', wild => wild', Fit'
  PROVE  Fit
BY DEF Fit, SegmentsApart, FillsFirstPage, LoadSegs, Pages, VPN

LEMMA InPlaceThen ==
  ASSUME image' = image, InPlace(m', Done', Filled', Stacked')
  PROVE  InPlace(m, Done, Filled, Stacked)'
BY DEF InPlace, PlacedIn, MappedIn, LoadedIn, Meant, PageNumbers

LEMMA PlacedThen ==
  ASSUME seg' = seg, PlacedIn(m', seg, i')
  PROVE  PlacedIn(m, seg, i)'
BY DEF PlacedIn, MappedIn, LoadedIn, Meant

\* load_icode_mapper has mapped a page and goes on to the next.
LEMMA CopyOn ==
  ASSUME IInv, LoadInv, Fit, Copying, i < seg.memsz, PagePut(tempVa), ~Fails(tempVa),
         \A k \in Idx : i + k < seg.memsz => m'.mem[page][k] = Meant(seg, i + k),
         Copying', UNCHANGED <<image, ph>>, i' = U(i + BY2PG), tempVa' = tempVa + BY2PG,
         pc' = "sg" => seg.filesz <= U(i + BY2PG)
  PROVE  LoadInv'
<1> DEFINE n == VPN(tempVa)
<1>1. /\ U(i + BY2PG) = i + BY2PG /\ seg.va + (i + BY2PG) = tempVa + BY2PG /\ n \in Pages(seg)
      /\ InPlace(m', Done, Filled \cup {n}, TRUE) /\ PlacedIn(m', seg, i + BY2PG)
  BY PageCopied
<1>2. Mapping /\ Stacked /\ Mapping' /\ Stacked' /\ pc' # "loaded" /\ seg' = seg
  BY DEF Copying, Mapping, Stacked, seg
<1>3. Done' = Done
  BY DEF Done, LoadSegs
<1>4. Reached' = Reached \cup {n}
  <2>1. ASSUME NEW q \in Pages(seg)
        PROVE  q * BY2PG < tempVa + BY2PG <=> q * BY2PG < tempVa \/ q = n
    <3>1. q \in Nat /\ tempVa \in Nat /\ tempVa % BY2PG = 0
      BY <1>2, Stack DEF Pages, IInv, TypeOK, CursorInv
    <3> QED
      BY <3>1, PageBelow
  <2>2. Reached' = {q \in Pages(seg) : q * BY2PG < tempVa + BY2PG}
    BY <1>2 DEF Reached, Pages, VPN
  <2>3. Reached = {q \in Pages(seg) : q * BY2PG < tempVa}
    BY DEF Reached
  <2> HIDE DEF n
  <2> QED
    BY <1>1, <2>1, <2>2, <2>3
<1>5. Filled' = Filled \cup {n}
  <2>1. n \in PageNumbers
    BY <1>1 DEF Pages, PageNumbers
  <2>2. Filled = {q \in PageNumbers : \/ q = VPN(StackPage)
                                      \/ \E k \in Done : q \in Pages(image.seg[k])
                                      \/ q \in Reached}
    BY <1>2 DEF Filled
  <2>3. Filled' = {q \in PageNumbers : \/ q = VPN(StackPage)
                                       \/ \E k \in Done : q \in Pages(image.seg[k])
                                       \/ q \in Reached'}
    BY <1>2, <1>3 DEF Filled, PageNumbers, VPN, StackPage, Pages
  <2> HIDE DEF n
  <2> QED
    BY <1>4, <2>1, <2>2, <2>3
<1>6. InPlace(m, Done, Filled, Stacked)'
  <2>1. InPlace(m', Done', Filled', Stacked')
    <3>1. InPlace(m', Done, Filled', TRUE)
      BY <1>1, <1>5
    <3> QED
      BY <1>2, <1>3, <3>1 DEF InPlace
  <2> QED
    BY <2>1, InPlaceThen
<1>7. (seg.va + i)' = tempVa' /\ PlacedIn(m, seg, i)'
  <2>1. i' = i + BY2PG
    BY <1>1
  <2>2. (seg.va + i)' = tempVa'
    BY <1>1, <1>2, <2>1
  <2>3. PlacedIn(m', seg, i')
    BY <1>1, <2>1
  <2> QED
    BY <1>2, <2>2, <2>3, PlacedThen
<1>8. pc' = "sg" => (seg.filesz <= i)'
  BY <1>2
<1> QED
  BY <1>2, <1>6, <1>7, <1>8 DEF LoadInv

\* Of a program that fits, `i' stays far below what a u_long holds.
LEMMA NoWrap ==
  ASSUME IInv, LoadInv, Fit, Copying
  PROVE  i \in Nat /\ i + BY2PG \in Nat /\ U(i + BY2PG) = i + BY2PG
<1> DEFINE R == ROUND(seg.va)
           M == seg.memsz
           V == seg.va
           t == tempVa
           j == i
<1>0. Mapping /\ Running
  BY DEF Copying, Mapping, Running
<1>1. V + j = t
  BY <1>0 DEF LoadInv
<1>2. j + BY2PG < Wrap \/ t = R
  BY DEF IInv, CursorInv
<1>3. /\ R \in Nat /\ V \in Nat /\ M \in Nat /\ j \in Nat /\ R < V + BY2PG /\ M + 2 * BY2PG <= Wrap
      /\ t \in Nat
  BY <1>0, SegHere, ByteNumbers
<1> HIDE DEF R, M, V, t, j
<1>4. j + BY2PG \in Nat /\ j + BY2PG < Wrap
  BY <1>1, <1>2, <1>3, ByteNumbers
<1>5. U(j + BY2PG) = j + BY2PG
  BY <1>4, Unsigned
<1> QED
  BY <1>3, <1>4, <1>5 DEF j

LEMMA PanicOn ==
  ASSUME Panic PROVE LoadInv'
BY DEF Panic, LoadInv, Fit

LEMMA WholePageOn ==
  ASSUME IInv, LoadInv, WholePage PROVE LoadInv'
<1>1. CASE page = NULL
  BY <1>1, PanicOn DEF WholePage
<1>2. CASE ~Fit'
  BY <1>2 DEF LoadInv
<1>3. CASE page # NULL /\ Fit'
  <2>1. /\ PagePut(tempVa) /\ failed' = (failed \/ Fails(tempVa))
        /\ \A k \in Idx : m'.mem[page][k] = Byte(U(seg.off + i + k))
    BY <1>3, WholePageIInv
  <2>2. /\ UNCHANGED <<image, ph, pc, wild>> /\ i' = U(i + BY2PG) /\ tempVa' = tempVa + BY2PG
        /\ Copying /\ Copying' /\ Mapping /\ pc' # "sg" /\ U(i + BY2PG) <= seg.filesz
    BY <1>3 DEF WholePage, Copying, Mapping
  <2>3. Fit
    BY <1>3, <2>1, <2>2, FitBefore
  <2>4. ~Fails(tempVa)
    BY <1>3, <2>1 DEF Fit
  <2>5. /\ i \in Nat /\ i + BY2PG <= seg.filesz /\ seg.filesz <= seg.memsz
        /\ seg.filesz \in Nat /\ seg.memsz \in Nat /\ seg.off \in Nat
    <3>1. U(i + BY2PG) = i + BY2PG /\ i \in Nat
      BY <2>2, <2>3, NoWrap
    <3> QED
      BY <2>2, <3>1, SegHere
  <2>6. i < seg.memsz
    BY <2>5, ByteNumbers
  <2>7. \A k \in Idx : m'.mem[page][k] = Meant(seg, i + k)
    <3> SUFFICES ASSUME NEW k \in Idx PROVE m'.mem[page][k] = Meant(seg, i + k)
      OBVIOUS
    <3>1. i + k < seg.filesz /\ seg.off + i + k = seg.off + (i + k)
      BY <2>5, ElfLoadAssumption
    <3> QED
      BY <2>1, <3>1 DEF Meant
  <2> QED
    BY <2>1, <2>2, <2>3, <2>4, <2>6, <2>7, CopyOn
<1> QED
  BY <1>1, <1>2, <1>3

LEMMA PartPageOn ==
  ASSUME IInv, LoadInv, PartPage PROVE LoadInv'
<1>0. /\ Copying /\ Mapping /\ U(i + BY2PG) > seg.filesz /\ UNCHANGED <<image, held, wild>>
      /\ seg.filesz \in Nat /\ i \in Nat
  <2>1. Copying /\ Mapping
    BY DEF PartPage, Copying, Mapping
  <2>2. seg.filesz \in Nat /\ i \in Nat
    BY <2>1, SegHere, ByteNumbers
  <2> QED
    BY <2>1, <2>2 DEF PartPage
<1>1. CASE ~(seg.filesz <= i) /\ page = NULL
  BY <1>1, PanicOn DEF PartPage
<1>2. CASE ~Fit'
  BY <1>2 DEF LoadInv
<1>3. CASE seg.filesz <= i /\ Fit'
  <2>1. /\ pc = "bin" /\ pc' = "sg" /\ UNCHANGED <<m, ph, i, tempVa, failed, image, wild>>
        /\ seg' = seg
    BY <1>3 DEF PartPage, seg
  <2>2. Fit /\ Running
    BY <1>3, <2>1, FitBefore DEF Running
  <2>3. /\ InPlace(m, Done, Filled, Stacked) /\ seg.va + i = tempVa /\ PlacedIn(m, seg, i)
    BY <1>0, <2>2 DEF LoadInv
  <2>4. Done' = Done /\ Filled' = Filled /\ Stacked' /\ Stacked
    <3>1. Done' = Done /\ Stacked' /\ Stacked
      BY <2>1 DEF Done, LoadSegs, Stacked
    <3>2. Copying' /\ Mapping' /\ Copying /\ Mapping
      BY <2>1 DEF Copying, Mapping
    <3>3. Reached' = Reached
      BY <2>1, <3>2 DEF Reached, Pages, VPN
    <3>4. Filled' = Filled
      BY <2>1, <3>1, <3>2, <3>3 DEF Filled, Pages, VPN, PageNumbers, StackPage
    <3> QED
      BY <3>1, <3>4
  <2>5. InPlace(m, Done, Filled, Stacked)'
    <3>1. InPlace(m', Done', Filled', Stacked')
      BY <2>1, <2>3, <2>4 DEF InPlace
    <3> QED
      BY <2>1, <3>1, InPlaceThen
  <2>6. (seg.va + i)' = tempVa' /\ PlacedIn(m, seg, i)' /\ (seg.filesz <= i)'
    <3>1. PlacedIn(m', seg, i')
      BY <2>1, <2>3
    <3> QED
      BY <1>3, <2>1, <2>3, <3>1, PlacedThen
  <2> QED
    BY <2>1, <2>5, <2>6 DEF LoadInv
<1>4. CASE ~(seg.filesz <= i) /\ page # NULL /\ Fit'
  <2>0. i < seg.filesz
    BY <1>0, <1>4
  <2>1. /\ PagePut(tempVa) /\ failed' = (failed \/ Fails(tempVa))
        /\ \A k \in Idx : k < seg.filesz - i => m'.mem[page][k] = Byte(U(seg.off + i + k))
        /\ ~page_alloc_fails(m) => \A k \in Idx : seg.filesz - i <= k => m'.mem[page][k] = Zero
    BY <1>4, <2>0, PartPageIInv
  <2>2. /\ ph' = ph /\ i' = U(i + BY2PG) /\ tempVa' = tempVa + BY2PG
        /\ Copying' /\ pc' = "sg"
    BY <1>4 DEF PartPage, Copying
  <2>3. Fit
    BY <1>0, <1>4, <2>1, FitBefore
  <2>4. ~Fails(tempVa) /\ ~page_alloc_fails(m)
    BY <1>4, <2>1 DEF Fit, Fails
  <2>5. i < seg.memsz /\ seg.off \in Nat
    BY <1>0, <2>0, SegHere
  <2>6. \A k \in Idx : m'.mem[page][k] = Meant(seg, i + k)
    <3> SUFFICES ASSUME NEW k \in Idx PROVE m'.mem[page][k] = Meant(seg, i + k)
      OBVIOUS
    <3>1. /\ i + k < seg.filesz <=> k < seg.filesz - i
          /\ seg.filesz - i <= k <=> ~(i + k < seg.filesz)
          /\ seg.off + i + k = seg.off + (i + k)
      BY <1>0, <2>5, ElfLoadAssumption
    <3> QED
      BY <2>1, <2>4, <3>1 DEF Meant
  <2>7. seg.filesz <= U(i + BY2PG)
    <3>1. U(i + BY2PG) = i + BY2PG /\ i + BY2PG \in Nat
      BY <1>0, <2>3, NoWrap
    <3> QED
      BY <1>0, <3>1
  <2> QED
    BY <1>0, <2>1, <2>2, <2>3, <2>4, <2>5, <2>6, <2>7, CopyOn
<1> QED
  BY <1>1, <1>2, <1>3, <1>4

LEMMA ZeroedPageOn ==
  ASSUME IInv, LoadInv, ZeroedPage PROVE LoadInv'
<1>1. CASE page = NULL
  BY <1>1, PanicOn DEF ZeroedPage
<1>2. CASE ~Fit'
  BY <1>2 DEF LoadInv
<1>3. CASE page # NULL /\ Fit'
  <2>1. /\ PagePut(tempVa) /\ failed' = (failed \/ Fails(tempVa))
        /\ ~page_alloc_fails(m) => \A k \in Idx : m'.mem[page][k] = Zero
    BY <1>3, ZeroedPageIInv
  <2>2. /\ UNCHANGED <<image, ph, pc, wild>> /\ i' = U(i + BY2PG) /\ tempVa' = tempVa + BY2PG
        /\ Copying /\ Copying' /\ Mapping /\ pc = "sg" /\ U(i + BY2PG) < seg.memsz
    BY <1>3 DEF ZeroedPage, Copying, Mapping
  <2>3. Fit /\ Running
    BY <1>3, <2>1, <2>2, FitBefore DEF Running
  <2>4. ~Fails(tempVa) /\ ~page_alloc_fails(m)
    BY <1>3, <2>1 DEF Fit, Fails
  <2>5. /\ i \in Nat /\ U(i + BY2PG) = i + BY2PG /\ i + BY2PG < seg.memsz /\ seg.filesz <= i
        /\ seg.filesz \in Nat /\ seg.memsz \in Nat
    <3>1. U(i + BY2PG) = i + BY2PG /\ i \in Nat
      BY <2>2, <2>3, NoWrap
    <3> QED
      BY <2>2, <2>3, <3>1, SegHere DEF LoadInv
  <2>6. i < seg.memsz /\ seg.filesz <= U(i + BY2PG)
    BY <2>5, ByteNumbers
  <2>7. \A k \in Idx : m'.mem[page][k] = Meant(seg, i + k)
    <3> SUFFICES ASSUME NEW k \in Idx PROVE m'.mem[page][k] = Meant(seg, i + k)
      OBVIOUS
    <3>1. ~(i + k < seg.filesz)
      BY <2>5, ElfLoadAssumption
    <3> QED
      BY <2>1, <2>4, <3>1 DEF Meant
  <2> QED
    BY <2>1, <2>2, <2>3, <2>4, <2>6, <2>7, CopyOn
<1> QED
  BY <1>1, <1>2, <1>3

\* load_icode_mapper has put what was missing of the segment at ph, on the pages G.
LEMMA SegmentDone ==
  ASSUME IInv, Copying, image' = image, ph' = ph + 1, pc' = "load_elf",
         NEW G, Reached \cup G = Pages(seg), InPlace(m', Done, Filled \cup G, TRUE),
         NEW w \in Nat, seg.memsz <= w, PlacedIn(m', seg, w)
  PROVE  LoadInv'
<1>0. Mapping /\ Stacked /\ ~Mapping' /\ ~Copying' /\ Stacked' /\ ph \in Nat /\ seg.memsz \in Nat
  <2>1. Mapping /\ Stacked
    BY DEF Copying, Mapping, Stacked
  <2>2. ~Mapping' /\ ~Copying' /\ Stacked'
    BY DEF Copying, Mapping, Stacked
  <2>3. ph \in Nat /\ seg.memsz \in Nat
    <3>1. image.seg \in Seq(ProgramHeader) /\ ph \in DOMAIN image.seg
      BY <2>1, SegHere, ProgramsAssumption DEF IInv
    <3> QED
      BY <2>1, <3>1, SegHere
  <2> QED
    BY <2>1, <2>2, <2>3
<1>1. ph \in LoadSegs /\ seg = image.seg[ph] /\ LoadSegs \subseteq Nat
  <2>1. image.seg \in Seq(ProgramHeader) /\ ph \in DOMAIN image.seg /\ seg.load
    BY <1>0, SegHere, ProgramsAssumption DEF IInv
  <2> QED
    BY <2>1 DEF LoadSegs, seg
<1>2. Done' = Done \cup {ph}
  <2>1. Done' = {k \in LoadSegs : k < ph + 1}
    BY DEF Done, LoadSegs
  <2>2. \A k \in LoadSegs : k < ph + 1 <=> k < ph \/ k = ph
    BY <1>0, <1>1
  <2> QED
    BY <1>1, <2>1, <2>2 DEF Done
<1>3. Filled' = Filled \cup G
  <2>1. Filled = {n \in PageNumbers : \/ n = VPN(StackPage)
                                      \/ \E k \in Done : n \in Pages(image.seg[k])
                                      \/ n \in Reached}
    BY <1>0 DEF Filled
  <2>2. Filled' = {n \in PageNumbers : \/ n = VPN(StackPage)
                                       \/ \E k \in Done' : n \in Pages(image.seg[k])}
    BY <1>0 DEF Filled, PageNumbers, VPN, StackPage, Pages
  <2>3. G \subseteq PageNumbers
    BY DEF Pages, PageNumbers
  <2> QED
    BY <1>1, <1>2, <2>1, <2>2, <2>3
<1>4. InPlace(m', Done', Filled', Stacked')
  <2>1. PlacedIn(m', seg, seg.memsz)
    <3>1. \A k \in 0 .. seg.memsz - 1 : k < w
      BY <1>0
    <3> QED
      BY <3>1 DEF PlacedIn
  <2> QED
    BY <1>0, <1>1, <1>2, <1>3, <2>1 DEF InPlace
<1>5. InPlace(m, Done, Filled, Stacked)'
  BY <1>4, InPlaceThen
<1> QED
  BY <1>0, <1>5 DEF LoadInv

LEMMA LastPageOn ==
  ASSUME IInv, LoadInv, LastPage PROVE LoadInv'
<1>0. /\ Copying /\ Mapping /\ Running /\ pc = "sg" /\ UNCHANGED <<image, held, wild>>
      /\ seg.memsz \in Nat /\ seg.va \in Nat /\ i \in Nat /\ tempVa \in Nat /\ tempVa % BY2PG = 0
      /\ U(i + BY2PG) >= seg.memsz
  <2>1. Copying /\ Mapping /\ Running
    BY DEF LastPage, Copying, Mapping, Running
  <2>2. seg.memsz \in Nat /\ seg.va \in Nat /\ i \in Nat /\ tempVa \in Nat
    BY <2>1, SegHere, ByteNumbers
  <2>3. tempVa % BY2PG = 0
    BY <2>1 DEF IInv, CursorInv
  <2> QED
    BY <2>1, <2>2, <2>3 DEF LastPage
<1>1. CASE ~(seg.memsz <= i) /\ page = NULL
  BY <1>1, PanicOn DEF LastPage
<1>2. CASE ~Fit'
  BY <1>2 DEF LoadInv
<1>3. CASE seg.memsz <= i /\ Fit'
  <2>1. pc' = "load_elf" /\ ph' = ph + 1 /\ UNCHANGED <<m, failed>>
    BY <1>3 DEF LastPage
  <2>2. Fit
    BY <1>0, <1>3, <2>1, FitBefore
  <2>3. /\ InPlace(m, Done, Filled, Stacked) /\ seg.va + i = tempVa /\ PlacedIn(m, seg, i)
    BY <1>0, <2>2 DEF LoadInv
  <2>4. Reached \cup {} = Pages(seg)
    <3>1. ASSUME NEW n \in Pages(seg) PROVE n * BY2PG < tempVa
      <4>1. n * BY2PG < seg.va + seg.memsz /\ n \in Nat
        BY Stack DEF Pages
      <4>2. n * BY2PG \in Nat
        BY <4>1, PageStart
      <4> QED
        BY <1>0, <1>3, <2>3, <4>1, <4>2
    <3> QED
      BY <1>0, <3>1 DEF Reached
  <2>5. InPlace(m', Done, Filled \cup {}, TRUE)
    <3>1. Filled \cup {} = Filled /\ Stacked
      BY <1>0 DEF Stacked
    <3> QED
      BY <2>1, <2>3, <3>1 DEF InPlace
  <2>6. PlacedIn(m', seg, i)
    BY <2>1, <2>3
  <2> QED
    BY <1>0, <1>3, <2>1, <2>4, <2>5, <2>6, SegmentDone
<1>4. CASE ~(seg.memsz <= i) /\ page # NULL /\ Fit'
  <2>0. i < seg.memsz
    BY <1>0, <1>4
  <2>1. /\ PagePut(tempVa) /\ failed' = (failed \/ Fails(tempVa))
        /\ ~page_alloc_fails(m) => \A k \in Idx : m'.mem[page][k] = Zero
    BY <1>4, <2>0, LastPageIInv
  <2>2. pc' = "load_elf" /\ ph' = ph + 1
    BY <1>4 DEF LastPage
  <2>3. Fit
    BY <1>0, <1>4, <2>1, FitBefore
  <2>4. ~Fails(tempVa) /\ ~page_alloc_fails(m)
    BY <1>4, <2>1 DEF Fit, Fails
  <2>5. seg.filesz <= i /\ seg.filesz \in Nat
    BY <1>0, <2>3, SegHere DEF LoadInv
  <2>6. \A k \in Idx : m'.mem[page][k] = Meant(seg, i + k)
    <3> SUFFICES ASSUME NEW k \in Idx PROVE m'.mem[page][k] = Meant(seg, i + k)
      OBVIOUS
    <3>1. ~(i + k < seg.filesz)
      BY <1>0, <2>5, ElfLoadAssumption
    <3> QED
      BY <2>1, <2>4, <3>1 DEF Meant
  <2> DEFINE t == VPN(tempVa)
  <2>7. /\ U(i + BY2PG) = i + BY2PG /\ i + BY2PG \in Nat /\ seg.va + (i + BY2PG) = tempVa + BY2PG
        /\ t \in Pages(seg) /\ InPlace(m', Done, Filled \cup {t}, TRUE)
        /\ PlacedIn(m', seg, i + BY2PG)
    BY <1>0, <2>0, <2>1, <2>3, <2>4, <2>6, PageCopied
  <2>8. seg.memsz <= i + BY2PG
    BY <1>0, <2>7
  <2>9. Reached \cup {t} = Pages(seg)
    <3>1. ASSUME NEW n \in Pages(seg) PROVE n * BY2PG < tempVa \/ n = t
      <4>1. n * BY2PG < seg.va + seg.memsz /\ n \in Nat
        BY Stack DEF Pages
      <4>2. n * BY2PG \in Nat
        BY <4>1, PageStart
      <4>3. seg.va + seg.memsz <= seg.va + (i + BY2PG)
        BY <1>0, <2>7, <2>8
      <4>4. n * BY2PG < tempVa + BY2PG
        <5> DEFINE b == n * BY2PG
                   c == seg.va + seg.memsz
        <5>1. b \in Nat /\ b < c /\ c <= tempVa + BY2PG /\ c \in Nat
          BY <1>0, <2>7, <4>1, <4>2, <4>3
        <5> HIDE DEF b, c
        <5>2. b < tempVa + BY2PG
          BY <1>0, <5>1, ByteNumbers
        <5> QED
          BY <5>2 DEF b
      <4> QED
        BY <1>0, <4>1, <4>4, PageBelow
    <3> HIDE DEF t
    <3>2. Reached = {n \in Pages(seg) : n * BY2PG < tempVa}
      BY <1>0 DEF Reached
    <3> QED
      BY <2>7, <3>1, <3>2
  <2> HIDE DEF t
  <2> QED
    BY <1>0, <2>2, <2>7, <2>8, <2>9, SegmentDone
<1> QED
  BY <1>1, <1>2, <1>3, <1>4

LEMMA FirstPageOn ==
  ASSUME IInv, LoadInv, FirstPage PROVE LoadInv'
<1>1. CASE page = NULL
  BY <1>1, PanicOn DEF FirstPage
<1>2. CASE ~Fit'
  BY <1>2 DEF LoadInv
<1>3. CASE page # NULL /\ Fit'
  <2> DEFINE o == offset
             V == seg.va
             n == VPN(V)
             M == seg.memsz
             b == n * BY2PG
  <2>1. /\ PagePut(V) /\ failed' = (failed \/ Fails(V))
        /\ \A k \in Idx : o <= k => m'.mem[page][k] = Byte(U(seg.off + k - o))
    BY <1>3, FirstPageIInv
  <2>2. /\ UNCHANGED <<image, ph, wild, tempVa>> /\ i' = BY2PG - o
        /\ pc = "first" /\ pc' = "bin" /\ seg' = seg
    BY <1>3 DEF FirstPage, seg
  <2>3. Mapping /\ ~Copying /\ Running /\ Stacked /\ Mapping' /\ Copying' /\ Stacked'
    BY <2>2 DEF Copying, Mapping, Running, Stacked
  <2>4. Fit
    BY <1>3, <2>1, <2>2, FitBefore
  <2>5. ~Fails(V)
    BY <1>3, <2>1 DEF Fit
  <2>6. /\ V \in Nat /\ M \in Nat /\ seg.filesz \in Nat /\ seg.off \in Nat
        /\ o > 0 /\ tempVa = ROUND(V) /\ ph \in LoadSegs /\ seg = image.seg[ph]
    <3>1. image.seg \in Seq(ProgramHeader) /\ ph \in DOMAIN image.seg /\ seg.load
      BY <2>3, SegHere, ProgramsAssumption DEF IInv
    <3> QED
      BY <2>2, <2>3, <3>1, SegHere DEF IInv, CursorInv, LoadSegs, seg
  <2>7. /\ n \in Nat /\ b \in Nat /\ V = b + o /\ o = V % BY2PG /\ o \in 0 .. BY2PG - 1
        /\ tempVa = b + BY2PG
    <3>1. o = V % BY2PG /\ V % BY2PG \in 0 .. BY2PG - 1 /\ n \in Nat /\ b \in Nat
          /\ V = b + (V % BY2PG)
      BY <2>6, Rounding, PageNumber DEF offset
    <3>2. ROUND(V) = b + BY2PG
      BY <2>6, <3>1, Rounding
    <3> QED
      BY <2>6, <3>1, <3>2
  <2>8. n \in Pages(seg)
    <3>1. n \in PageNumbers
      <4>1. V <= StackPage
        <5>1. V <= ROUND(V) /\ ROUND(V) \in Nat /\ ROUND(V) + M <= StackPage /\ StackPage \in Nat
          BY <2>3, SegHere, Stack
        <5> HIDE DEF V, M
        <5> QED
          BY <2>6, <5>1
      <4> QED
        BY <2>6, <4>1, Stack
    <3>2. b < V + M
      <4> HIDE DEF b, o, V, M
      <4> QED
        BY <2>6, <2>7
    <3>3. n <= n
      BY <2>7
    <3> QED
      BY <3>1, <3>2, <3>3 DEF Pages, PageNumbers
  <2>9. M <= seg.filesz \/ BY2PG <= o + seg.filesz
    <3>1. FillsFirstPage(seg)
      BY <2>4, <2>6 DEF Fit
    <3>2. V % BY2PG # 0
      BY <2>6, <2>7
    <3>3. seg.filesz = M \/ o + seg.filesz >= BY2PG
      BY <2>7, <3>1, <3>2 DEF FillsFirstPage
    <3> QED
      BY <2>6, <2>7, <3>3, ByteNumbers
  <2> HIDE DEF o, V, M
  <2>10. ASSUME NEW k \in 0 .. M - 1, k < BY2PG - o
         PROVE  VPN(V + k) = n /\ m'.mem[page][(V + k) % BY2PG] = Meant(seg, k)
    <3> DEFINE c == V + k
               j == o + k
    <3>1. /\ c \in Nat /\ b <= c /\ c < b + BY2PG /\ c - b = j /\ j \in 0 .. BY2PG - 1
          /\ o <= j /\ seg.off + j - o = seg.off + k /\ k < seg.filesz
      <4> HIDE DEF b
      <4> QED
        BY <2>6, <2>7, <2>9, <2>10, ByteNumbers
    <3> HIDE DEF c
    <3>2. VPN(c) = n /\ c % BY2PG = j
      BY <2>7, <3>1, PageOf
    <3> HIDE DEF j, n
    <3>3. j \in Idx
      BY <3>1, ElfLoadAssumption
    <3>4. m'.mem[page][j] = Byte(U(seg.off + k))
      BY <2>1, <3>1, <3>3
    <3> QED
      BY <3>1, <3>2, <3>4 DEF Meant, c
  <2>11. i' \in Nat /\ V + i' = tempVa
    <3> HIDE DEF b
    <3> QED
      BY <2>2, <2>6, <2>7, ByteNumbers
  <2>12. InPlace(m', Done, Filled \cup {n}, TRUE) /\ PlacedIn(m', seg, i')
    <3> DEFINE v == i'
    <3>1. /\ v \in Nat /\ 0 \in Nat /\ V \in Nat
          /\ \A k \in 0 .. seg.memsz - 1 : k < 0 => VPN(seg.va + k) # VPN(V)
          /\ PlacedIn(m, seg, 0)
      <4>1. \A k \in 0 .. seg.memsz - 1 : ~(k < 0)
        BY <2>6 DEF M
      <4> QED
        BY <2>6, <2>11, <4>1 DEF PlacedIn
    <3>2. \A k \in 0 .. seg.memsz - 1 : 0 <= k /\ k < v =>
            VPN(seg.va + k) = VPN(V) /\ m'.mem[page][(seg.va + k) % BY2PG] = Meant(seg, k)
      BY <2>2, <2>10 DEF M, V
    <3>3. PagePut(V) /\ ~Fails(V) /\ VPN(V) \in Pages(seg)
      BY <2>1, <2>5, <2>8
    <3> HIDE DEF v
    <3>4. InPlace(m', Done, Filled \cup {VPN(V)}, TRUE) /\ PlacedIn(m', seg, v)
      BY <2>3, <2>4, <3>1, <3>2, <3>3, NextPage
    <3> QED
      BY <3>4 DEF v
  <2>13. Done' = Done
    BY <2>2 DEF Done, LoadSegs
  <2>14. Reached' = {n} /\ Reached = {}
    <3>1. ASSUME NEW q \in Pages(seg) PROVE q * BY2PG < tempVa <=> q = n
      <4>1. q \in Nat /\ n <= q
        BY <2>7, Stack DEF Pages, V
      <4>2. b % BY2PG = 0 /\ VPN(b) = n
        <5>1. b <= b /\ b < b + BY2PG /\ b - b = 0
          BY <2>7, ByteNumbers
        <5>2. VPN(b) = n /\ b % BY2PG = b - b
          BY <2>7, <5>1, PageOf
        <5> QED
          BY <5>1, <5>2
      <4>3. q * BY2PG < b + BY2PG <=> q * BY2PG < b \/ q = n
        BY <2>7, <4>1, <4>2, PageBelow
      <4>4. b <= q * BY2PG /\ q * BY2PG \in Nat
        BY <2>7, <4>1, ByteNumbers, Times
      <4>5. ~(q * BY2PG < b)
        BY <2>7, <4>4
      <4> QED
        BY <2>7, <4>3, <4>5
    <3>2. Reached' = {q \in Pages(seg) : q * BY2PG < tempVa}
      BY <2>2, <2>3 DEF Reached, Pages, VPN
    <3>3. Reached = {}
      BY <2>3 DEF Reached
    <3> HIDE DEF n
    <3> QED
      BY <2>8, <3>1, <3>2, <3>3
  <2>15. Filled' = Filled \cup {n}
    <3>1. Filled = {q \in PageNumbers : \/ q = VPN(StackPage)
                                        \/ \E k \in Done : q \in Pages(image.seg[k])}
      BY <2>3, <2>14 DEF Filled
    <3>2. Filled' = {q \in PageNumbers : \/ q = VPN(StackPage)
                                         \/ \E k \in Done : q \in Pages(image.seg[k])
                                         \/ q \in Reached'}
      BY <2>2, <2>3, <2>13 DEF Filled, PageNumbers, VPN, StackPage, Pages
    <3>3. n \in PageNumbers
      BY <2>8 DEF Pages, PageNumbers
    <3> HIDE DEF n
    <3> QED
      BY <2>14, <3>1, <3>2, <3>3
  <2>16. InPlace(m, Done, Filled, Stacked)'
    <3>1. InPlace(m', Done', Filled', Stacked')
      BY <2>3, <2>12, <2>13, <2>15 DEF InPlace
    <3> QED
      BY <2>2, <3>1, InPlaceThen
  <2>17. (seg.va + i)' = tempVa' /\ PlacedIn(m, seg, i)'
    BY <2>2, <2>11, <2>12, PlacedThen DEF V
  <2> QED
    BY <2>2, <2>16, <2>17 DEF LoadInv
<1> QED
  BY <1>1, <1>2, <1>3

LEMMA LoadIcodeOn ==
  ASSUME IInv, LoadInv, LoadIcode PROVE LoadInv'
<1>1. CASE ~(Fit /\ Fit' /\ Running')
  <2>1. /\ image' = image /\ wild' = wild
        /\ failed' = TRUE \/ failed' = failed
    BY DEF LoadIcode
  <2> QED
    BY <1>1, <2>1, FitBefore DEF LoadInv
<1>2. CASE Fit /\ Fit' /\ Running'
  <2> DEFINE n == VPN(StackPage)
  <2>1. /\ PagePut(StackPage) /\ ~Fails(StackPage)
        /\ \A k \in Idx : m'.mem[page][k] = Zero
    BY <1>2, LoadIcodeIInv DEF Fit
  <2>2. /\ image' = image /\ ph' = ph /\ pc = "load_icode" /\ pc' = "load_elf"
    <3>1. pc' \in {"no_stack", "not_elf", "load_elf"} /\ pc = "load_icode"
      BY DEF LoadIcode
    <3> QED
      BY <1>2, <3>1 DEF LoadIcode, Running
  <2>3. /\ ~Mapping /\ ~Copying /\ ~Stacked /\ Running /\ ~Mapping' /\ ~Copying' /\ Stacked'
    BY <2>2 DEF Copying, Mapping, Running, Stacked
  <2>4. MemInv /\ image \in Programs /\ InPlace(m, Done, Filled, FALSE)
    <3>1. InPlace(m, Done, Filled, Stacked)
      BY <1>2, <2>3 DEF LoadInv
    <3> QED
      BY <2>3, <3>1 DEF IInv, InPlace
  <2>5. StackPage \in Nat /\ n \in PageNumbers /\ StackPage <= StackPage
    <3>1. StackPage \in Nat /\ StackPage <= StackPage
      BY Stack
    <3> QED
      BY <3>1, Stack
  <2>6. InPlace(m', Done, Filled \cup {n}, FALSE)
    <3>1. Done \in SUBSET LoadSegs /\ \A k \in Done : n \notin Pages(image.seg[k])
      BY <2>4, SegmentPages DEF Done
    <3> QED
      BY <2>1, <2>4, <2>5, <3>1, StaysInPlace
  <2>7. ASSUME NEW k \in 0 .. BY2PG - 1 PROVE LoadedIn(m', StackPage + k) = Zero
    <3> DEFINE b == StackPage + k
    <3>1. b \in Nat /\ VPN(b) = n /\ b % BY2PG \in Idx
      <4>1. b \in Nat
        BY <2>5, ByteNumbers
      <4> QED
        BY <4>1, Stack, ElfLoadAssumption
    <3> HIDE DEF b
    <3>2. LoadedIn(m', b) = m'.mem[page][b % BY2PG]
      BY <2>1, <2>4, <2>5, <3>1, AfterPut
    <3> QED
      BY <2>1, <3>1, <3>2 DEF b
  <2>8. Done' = Done
    BY <2>2 DEF Done, LoadSegs
  <2>9. Filled' = Filled \cup {n}
    <3>1. Filled = {q \in PageNumbers : \E k \in Done : q \in Pages(image.seg[k])}
      BY <2>3 DEF Filled
    <3>2. Filled' = {q \in PageNumbers : \/ q = n
                                         \/ \E k \in Done : q \in Pages(image.seg[k])}
      BY <2>2, <2>3, <2>8 DEF Filled, PageNumbers, VPN, StackPage, Pages
    <3> HIDE DEF n
    <3> QED
      BY <2>5, <3>1, <3>2
  <2>10. InPlace(m', Done', Filled', Stacked')
    BY <2>3, <2>6, <2>7, <2>8, <2>9 DEF InPlace
  <2>11. InPlace(m, Done, Filled, Stacked)'
    BY <2>2, <2>10, InPlaceThen
  <2> QED
    BY <2>2, <2>3, <2>11 DEF LoadInv
<1> QED
  BY <1>1, <1>2

\* load_elf goes on to the next header, or into load_icode_mapper.
LEMMA NextHeaderOn ==
  ASSUME IInv, LoadInv, NextHeader PROVE LoadInv'
<1>1. /\ pc = "load_elf" /\ ph <= Len(image.seg) /\ UNCHANGED <<m, image, held, failed>>
      /\ wild => wild'
  BY DEF NextHeader, IInv, TypeOK
<1>2. CASE ~Fit'
  BY <1>2 DEF LoadInv
<1>3. CASE Fit'
  <2>1. Fit /\ Running /\ Stacked /\ ~Mapping /\ ~Copying
    BY <1>1, <1>3, FitBefore DEF Running, Stacked, Mapping, Copying
  <2>2. InPlace(m, Done, Filled, Stacked)
    BY <2>1 DEF LoadInv
  <2>3. /\ ph \in DOMAIN image.seg /\ ph \in Nat /\ LoadSegs \subseteq Nat
        /\ ph \in LoadSegs <=> seg.load
    <3>1. image.seg \in Seq(ProgramHeader) /\ ph \in 1 .. Len(image.seg) + 1
      BY ProgramsAssumption DEF IInv, TypeOK
    <3> QED
      BY <1>1, <3>1 DEF LoadSegs, seg
  <2>4. CASE ~seg.load
    <3>1. ph' = ph + 1 /\ pc' = pc
      BY <2>4 DEF NextHeader
    <3>2. Done' = Done
      <4>1. Done' = {k \in LoadSegs : k < ph + 1}
        BY <1>1, <3>1 DEF Done, LoadSegs
      <4>2. \A k \in LoadSegs : k < ph + 1 <=> k < ph
        BY <2>3, <2>4
      <4> QED
        BY <4>1, <4>2 DEF Done
    <3>3. Stacked' /\ ~Mapping' /\ ~Copying'
      BY <1>1, <3>1 DEF Stacked, Mapping, Copying
    <3>4. Filled' = Filled
      BY <1>1, <2>1, <3>2, <3>3 DEF Filled, PageNumbers, VPN, StackPage, Pages
    <3>5. InPlace(m', Done', Filled', Stacked')
      BY <1>1, <2>1, <2>2, <3>2, <3>3, <3>4 DEF InPlace
    <3>6. InPlace(m, Done, Filled, Stacked)'
      BY <1>1, <3>5, InPlaceThen
    <3> QED
      BY <1>1, <3>1, <3>3, <3>6 DEF LoadInv
  <2>5. CASE seg.load
    <3>1. /\ tempVa' = ROUND(seg.va) /\ ph' = ph /\ seg' = seg
          /\ pc' = "first" \/ (offset <= 0 /\ pc' = "bin" /\ i' = 0)
      <4>1. /\ tempVa' = ROUND(seg.va) /\ ph' = ph
            /\ IF offset > 0 THEN pc' = "first" ELSE pc' = "bin" /\ wild' = (wild \/ i' # 0)
        BY <2>5 DEF NextHeader
      <4>2. ~wild'
        BY <1>3 DEF Fit
      <4>3. seg.va \in Nat
        BY <2>3, <2>5, Segment DEF IInv, seg
      <4>4. offset \in Int
        <5>1. offset = seg.va % BY2PG
          BY <4>3, Rounding DEF offset
        <5>2. seg.va % BY2PG \in 0 .. BY2PG - 1
          BY <4>3, PageNumber
        <5> QED
          BY <5>1, <5>2, ByteNumbers
      <4>5. offset > 0 \/ offset <= 0
        BY <4>4
      <4> QED
        BY <1>1, <4>1, <4>2, <4>5 DEF seg
    <3>2. /\ seg.va \in Nat /\ ROUND(seg.va) \in Nat
          /\ pc' = "bin" => ROUND(seg.va) = seg.va /\ seg.va = VPN(seg.va) * BY2PG
      <4>1. seg.va \in Nat
        BY <2>3, <2>5, Segment DEF IInv, seg
      <4>2. offset = seg.va % BY2PG /\ seg.va % BY2PG \in 0 .. BY2PG - 1
        BY <4>1, Rounding, PageNumber DEF offset
      <4>3. pc' = "bin" => seg.va % BY2PG = 0
        BY <3>1, <4>2, ByteNumbers
      <4> QED
        BY <4>1, <4>3, Rounding, PageAfter
    <3>3. Done' = Done
      BY <1>1, <3>1 DEF Done, LoadSegs
    <3>4. Stacked'
      BY <3>1 DEF Stacked
    <3>5. Reached' = {}
      <4>1. CASE pc' = "first"
        <5>1. ~Copying'
          BY <4>1 DEF Copying
        <5> QED
          BY <5>1 DEF Reached
      <4>2. CASE pc' = "bin"
        <5>1. ASSUME NEW n \in Pages(seg) PROVE ~(n * BY2PG < tempVa')
          <6>1. n \in Nat /\ VPN(seg.va) <= n /\ VPN(seg.va) \in Nat
            <7>1. n \in Nat /\ VPN(seg.va) <= n
              BY Stack DEF Pages
            <7>2. VPN(seg.va) \in Nat
              BY <3>2, PageNumber
            <7> QED
              BY <7>1, <7>2
          <6>2. VPN(seg.va) * BY2PG <= n * BY2PG /\ n * BY2PG \in Nat
            BY <6>1, ByteNumbers, Times
          <6> QED
            BY <3>1, <3>2, <4>2, <6>2
        <5>2. Reached' = {n \in Pages(seg) : Copying' /\ n * BY2PG < tempVa'}
          BY <3>1 DEF Reached, Pages, VPN
        <5> QED
          BY <5>1, <5>2
      <4> QED
        BY <3>1, <4>1, <4>2
    <3>6. Filled' = Filled
      BY <1>1, <2>1, <3>3, <3>4, <3>5 DEF Filled, PageNumbers, VPN, StackPage, Pages
    <3>7. InPlace(m', Done', Filled', Stacked')
      BY <1>1, <2>1, <2>2, <3>3, <3>4, <3>6 DEF InPlace
    <3>8. InPlace(m, Done, Filled, Stacked)'
      BY <1>1, <3>7, InPlaceThen
    <3>9. Copying' => (seg.va + i)' = tempVa' /\ PlacedIn(m, seg, i)'
      <4> SUFFICES ASSUME Copying' PROVE (seg.va + i)' = tempVa' /\ PlacedIn(m, seg, i)'
        OBVIOUS
      <4>1. pc' = "bin" /\ i' = 0
        BY <3>1 DEF Copying
      <4>2. PlacedIn(m', seg, i')
        <5>1. seg.memsz \in Nat
          BY <2>3, <2>5, Segment DEF IInv, seg
        <5>2. \A k \in 0 .. seg.memsz - 1 : ~(k < i')
          BY <4>1, <5>1
        <5> QED
          BY <5>2 DEF PlacedIn
      <4>3. seg.va + i' = tempVa'
        BY <3>1, <3>2, <4>1
      <4> QED
        BY <3>1, <4>2, <4>3, PlacedThen
    <3>10. pc' # "sg" /\ pc' # "loaded"
      BY <3>1
    <3> QED
      BY <3>8, <3>9, <3>10 DEF LoadInv
  <2> QED
    BY <2>4, <2>5
<1> QED
  BY <1>2, <1>3

LEMMA LoadDoneOn ==
  ASSUME IInv, LoadInv, LoadDone PROVE LoadInv'
<1>1. /\ pc = "load_elf" /\ pc' = "loaded" /\ ph > Len(image.seg)
      /\ UNCHANGED <<m, image, ph, wild, failed>>
  BY DEF LoadDone
<1>2. CASE ~Fit'
  BY <1>2 DEF LoadInv
<1>3. CASE Fit'
  <2>1. Fit /\ Running /\ Stacked /\ Stacked' /\ ~Mapping /\ ~Mapping' /\ ~Copying'
    BY <1>1, <1>3, FitBefore DEF Running, Stacked, Mapping, Copying
  <2>2. InPlace(m, Done, Filled, Stacked)
    BY <2>1 DEF LoadInv
  <2>3. Done' = Done
    BY <1>1 DEF Done, LoadSegs
  <2>4. Filled' = Filled
    BY <1>1, <2>1, <2>3 DEF Filled, PageNumbers, VPN, StackPage, Pages
  <2>5. InPlace(m', Done', Filled', Stacked')
    BY <1>1, <2>1, <2>2, <2>3, <2>4 DEF InPlace
  <2>6. InPlace(m, Done, Filled, Stacked)'
    BY <1>1, <2>5, InPlaceThen
  <2> QED
    BY <1>1, <2>1, <2>6 DEF LoadInv
<1> QED
  BY <1>2, <1>3

LEMMA IdleOn ==
  ASSUME LoadInv, UNCHANGED vars PROVE LoadInv'
BY DEF LoadInv, Fit, Running, Stacked, Done, Reached, Filled, Mapping, Copying, InPlace,
   PlacedIn, MappedIn, LoadedIn, Meant, SegmentsApart, FillsFirstPage, LoadSegs, Pages,
   VPN, StackPage, PageNumbers, seg, vars

LEMMA StepLoadInv == IInv /\ LoadInv /\ [Next]_vars => LoadInv'
<1> SUFFICES ASSUME IInv, LoadInv, [Next]_vars PROVE LoadInv'
  OBVIOUS
<1>1. CASE Stopped \/ UNCHANGED vars
  BY <1>1, IdleOn DEF Stopped
<1> QED
  BY <1>1, LoadIcodeOn, NextHeaderOn, LoadDoneOn, FirstPageOn, WholePageOn, PartPageOn,
     ZeroedPageOn, LastPageOn DEF Next, Loader

LEMMA InitLoadInv == Init => LoadInv
<1> SUFFICES ASSUME Init PROVE LoadInv
  OBVIOUS
<1>1. /\ pc = "load_icode" /\ ph = 1 /\ ~Stacked /\ ~Mapping /\ ~Copying
      /\ Sound(m, Away(m)) /\ m \in Raw
  <2>1. pc = "load_icode" /\ ph = 1
    BY DEF Init
  <2> QED
    BY <2>1, InitIInv DEF Stacked, Mapping, Copying, IInv, MemInv, Sound
<1>2. Done = {} /\ Filled = {}
  <2>1. ASSUME NEW k \in Done PROVE FALSE
    <3>1. k \in Int /\ 1 <= k /\ k < 1
      BY <1>1 DEF Done, LoadSegs
    <3> QED
      BY <3>1
  <2> QED
    BY <1>1, <2>1 DEF Filled
<1>3. ASSUME NEW n \in PageNumbers PROVE ~MappedIn(m, n)
  <2> DEFINE u == va(n * BY2PG)
  <2>1. u \in Va
    <3>1. n \in Nat
      BY Stack DEF PageNumbers
    <3>2. n * BY2PG \in Nat /\ VPN(n * BY2PG) = n
      BY <3>1, PageStart
    <3> QED
      BY <3>2, VaType
  <2> HIDE DEF u
  <2>2. refill_finds(m, env_pgdir, u) = refill_finds(Entries(m), env_pgdir, u)
    BY <1>1, <2>1, SoundLookup, DirsType
  <2>3. PDX(u) \in Idx /\ env_pgdir \in AllPages
    BY <2>1, DirsType DEF Va, PDX
  <2>4. Entry(m.mem[env_pgdir][PDX(u)]) = Zero
    <3>1. PICK k \in Taken : m.mem = [q \in AllPages |->
            IF q \in {page_init_free[j] : j \in k + 2 .. Len(page_init_free)}
            THEN [x \in Idx |-> OldByte] ELSE ZeroPage]
      BY DEF Init
    <3>2. \/ m.mem[env_pgdir] = [x \in Idx |-> OldByte]
          \/ m.mem[env_pgdir] = ZeroPage
      BY <2>3, <3>1
    <3>3. m.mem[env_pgdir][PDX(u)] \in {OldByte, Zero}
      BY <2>3, <3>2 DEF ZeroPage
    <3> QED
      BY <3>3, ByteEntry, EntryWord, WordByte DEF OldByte
  <2>5. pde(Entries(m), env_pgdir, u) = Zero
    <3> DEFINE e == Entries(m)
    <3>1. e.mem = [q \in AllPages |-> [k \in Idx |-> Entry(m.mem[q][k])]]
      BY <1>1, EntriesType
    <3> HIDE DEF e
    <3>2. pde(e, env_pgdir, u) = Entry(m.mem[env_pgdir][PDX(u)])
      BY <2>3, <3>1 DEF pde
    <3> QED
      BY <2>4, <3>2 DEF e
  <2> QED
    BY <2>2, <2>5 DEF refill_finds, MappedIn, u
<1>4. InPlace(m, Done, Filled, Stacked)
  BY <1>1, <1>2, <1>3 DEF InPlace
<1> QED
  BY <1>1, <1>4 DEF LoadInv, Copying

LEMMA WholeProgram == IInv /\ LoadInv => ProgramLoaded
<1> SUFFICES ASSUME IInv, LoadInv, pc = "loaded", ~failed, ~wild, SegmentsApart,
                    \A k \in LoadSegs : FillsFirstPage(image.seg[k])
             PROVE  /\ \A k \in LoadSegs : InMemory(image.seg[k])
                    /\ \A n \in 0 .. BY2PG * BY2PG - 1 :
                         Mapped(n) <=> \/ n = VPN(StackPage)
                                       \/ \E k \in LoadSegs : n \in Pages(image.seg[k])
                    /\ \A k \in 0 .. BY2PG - 1 : Loaded(StackPage + k) = Zero
  BY DEF ProgramLoaded
<1>1. /\ InPlace(m, Done, Filled, Stacked) /\ ph > Len(image.seg) /\ Stacked /\ ~Mapping
  BY DEF LoadInv, Fit, Running, Stacked, Mapping
<1>2. Done = LoadSegs
  <2>1. image.seg \in Seq(ProgramHeader) /\ ph \in 1 .. Len(image.seg) + 1
    BY ProgramsAssumption DEF IInv, TypeOK
  <2>2. \A k \in LoadSegs : k < ph
    BY <1>1, <2>1 DEF LoadSegs
  <2> QED
    BY <2>2 DEF Done
<1>3. ASSUME NEW k \in LoadSegs PROVE InMemory(image.seg[k])
  <2> DEFINE s == image.seg[k]
  <2>1. PlacedIn(m, s, s.memsz)
    BY <1>1, <1>2 DEF InPlace
  <2>2. s.memsz \in Nat
    BY SegmentPages DEF IInv
  <2> HIDE DEF s
  <2>3. \A j \in 0 .. s.memsz - 1 : j < s.memsz
    BY <2>2
  <2>4. InMemory(s)
    BY <2>1, <2>3 DEF PlacedIn, MappedIn, LoadedIn, Meant, InMemory, Mapped, Loaded
  <2> QED
    BY <2>4 DEF s
<1>4. ASSUME NEW n \in 0 .. BY2PG * BY2PG - 1
      PROVE  Mapped(n) <=> n = VPN(StackPage) \/ \E k \in LoadSegs : n \in Pages(image.seg[k])
  <2>1. n \in PageNumbers
    BY DEF PageNumbers
  <2>2. Mapped(n) <=> n \in Filled
    BY <1>1, <2>1 DEF InPlace, Mapped, MappedIn
  <2> QED
    BY <1>1, <1>2, <2>1, <2>2 DEF Filled
<1>5. \A k \in 0 .. BY2PG - 1 : Loaded(StackPage + k) = Zero
  BY <1>1 DEF InPlace, Loaded, LoadedIn
<1> QED
  BY <1>3, <1>4, <1>5

\* A program whose segments are on pages of their own is in memory whole and byte
\* for byte when load_icode is done, each page mapped once and nothing else mapped
\* but the stack, if memory sufficed and `i' was not garbage: for every number of
\* segments, page size and length of a segment.
THEOREM ProgramsLoaded == Spec => []ProgramLoaded
<1>1. Init => IInv /\ LoadInv
  BY InitIInv, InitLoadInv
<1>2. IInv /\ LoadInv /\ [Next]_vars => (IInv /\ LoadInv)'
  BY StepIInv, StepLoadInv
<1> QED
  BY <1>1, <1>2, WholeProgram, PTL DEF Spec
=============================================================================
