-------------------------- MODULE LinkedListProofs --------------------------
(***************************************************************************)
(* The LIST macros keep every list linked, whatever elements and heads     *)
(* there are and however long the lists get.  The pointers alone are not   *)
(* inductive: that a write through le_prev hits no other list needs the    *)
(* lists to be apart, and the loop of LIST_INSERT_TAIL needs to know how   *)
(* far it has come.                                                        *)
(***************************************************************************)
EXTENDS LinkedList, SequenceTheorems, TLAPS

Injective(s) == \A j, k \in 1 .. Len(s) : s[j] = s[k] => j = k

\* No element is on two of the lists `l' and `st', or twice on one.
Apart(l, st) ==
  /\ \A h \in ListHead : Injective(l[h]) /\ Injective(st[h])
  /\ \A g, h \in ListHead :
       /\ ToSet(l[g]) \cap ToSet(st[h]) = {}
       /\ g # h => ToSet(l[g]) \cap ToSet(l[h]) = {}
       /\ g # h => ToSet(st[g]) \cap ToSet(st[h]) = {}

\* The pointer to position k of list s of h, and what it holds.
Pred(h, s, k) == IF k = 1 THEN h ELSE s[k - 1]
At(s, k)      == IF k <= Len(s) THEN s[k] ELSE NULL

\* The loop of LIST_INSERT_TAIL is at some position of the list.
TailInv ==
  ~Idle =>
    /\ tail.elm \notin OnList /\ list[tail.head] # << >>
    /\ \E k \in 1 .. Len(list[tail.head]) + 1 :
         /\ next[tail.elm] = At(list[tail.head], k)
         /\ k > 1 => prev[tail.elm] = Pred(tail.head, list[tail.head], k - 1)

IInv == TypeOK /\ Linked /\ Apart(list, stolen) /\ TailInv

-----------------------------------------------------------------------------
(***************************************************************************)
(* Sequences.                                                              *)
(***************************************************************************)

LEMMA InsertFacts ==
  ASSUME NEW s \in Seq(Elem), NEW k \in 1 .. Len(s) + 1, NEW e \in Elem
  PROVE  /\ InsertAt(s, k, e) \in Seq(Elem) /\ Len(InsertAt(s, k, e)) = Len(s) + 1
         /\ \A j \in 1 .. Len(s) + 1 :
              InsertAt(s, k, e)[j] = IF j < k THEN s[j] ELSE IF j = k THEN e ELSE s[j - 1]
<1> DEFINE a == SubSeq(s, 1, k - 1)
           b == SubSeq(s, k, Len(s))
           c == a \o <<e>>
<1>1. a \in Seq(Elem) /\ Len(a) = k - 1 /\ \A j \in 1 .. k - 1 : a[j] = s[j]
  BY SubSeqProperties
<1>2. b \in Seq(Elem) /\ Len(b) = Len(s) - k + 1
      /\ \A j \in 1 .. Len(s) - k + 1 : b[j] = s[k + j - 1]
  BY SubSeqProperties
<1> HIDE DEF a, b
<1>3. <<e>> \in Seq(Elem) /\ Len(<<e>>) = 1 /\ <<e>>[1] = e
  OBVIOUS
<1>4. /\ c \in Seq(Elem) /\ Len(c) = k
      /\ \A j \in 1 .. k : c[j] = IF j < k THEN s[j] ELSE e
  <2>1. /\ c \in Seq(Elem) /\ Len(c) = Len(a) + 1
        /\ \A j \in 1 .. Len(a) + 1 : c[j] = IF j <= Len(a) THEN a[j] ELSE <<e>>[j - Len(a)]
    BY <1>1, <1>3, ConcatProperties
  <2> QED
    BY <1>1, <1>3, <2>1
<1> HIDE DEF c
<1>5. /\ c \o b \in Seq(Elem) /\ Len(c \o b) = Len(c) + Len(b)
      /\ \A j \in 1 .. Len(c) + Len(b) : (c \o b)[j] = IF j <= Len(c) THEN c[j] ELSE b[j - Len(c)]
  BY <1>2, <1>4, ConcatProperties
<1>6. ASSUME NEW j \in 1 .. Len(s) + 1
      PROVE  (c \o b)[j] = IF j < k THEN s[j] ELSE IF j = k THEN e ELSE s[j - 1]
  <2>1. (c \o b)[j] = IF j <= k THEN c[j] ELSE b[j - k]
    BY <1>2, <1>4, <1>5
  <2>2. ASSUME j > k PROVE b[j - k] = s[j - 1]
    <3>1. j - k \in 1 .. Len(s) - k + 1 /\ k + (j - k) - 1 = j - 1
      BY <2>2
    <3> QED
      BY <1>2, <3>1
  <2> QED
    BY <1>4, <2>1, <2>2
<1>7. InsertAt(s, k, e) = c \o b
  BY DEF InsertAt, a, b, c
<1> QED
  BY <1>2, <1>4, <1>5, <1>6, <1>7

LEMMA RemoveFacts ==
  ASSUME NEW s \in Seq(Elem), NEW k \in 1 .. Len(s)
  PROVE  /\ RemoveAt(s, k) \in Seq(Elem) /\ Len(RemoveAt(s, k)) = Len(s) - 1
         /\ \A j \in 1 .. Len(s) - 1 : RemoveAt(s, k)[j] = IF j < k THEN s[j] ELSE s[j + 1]
<1> DEFINE a == SubSeq(s, 1, k - 1)
           b == SubSeq(s, k + 1, Len(s))
<1>1. a \in Seq(Elem) /\ Len(a) = k - 1 /\ \A j \in 1 .. k - 1 : a[j] = s[j]
  BY SubSeqProperties
<1>2. b \in Seq(Elem) /\ Len(b) = Len(s) - k
      /\ \A j \in 1 .. Len(s) - k : b[j] = s[(k + 1) + j - 1]
  BY SubSeqProperties
<1> HIDE DEF a, b
<1>3. /\ a \o b \in Seq(Elem) /\ Len(a \o b) = Len(a) + Len(b)
      /\ \A j \in 1 .. Len(a) + Len(b) : (a \o b)[j] = IF j <= Len(a) THEN a[j] ELSE b[j - Len(a)]
  BY <1>1, <1>2, ConcatProperties
<1>4. ASSUME NEW j \in 1 .. Len(s) - 1 PROVE (a \o b)[j] = IF j < k THEN s[j] ELSE s[j + 1]
  <2>1. (a \o b)[j] = IF j < k THEN a[j] ELSE b[j - (k - 1)]
    BY <1>1, <1>2, <1>3
  <2>2. ASSUME j >= k PROVE b[j - (k - 1)] = s[j + 1]
    <3>1. j - (k - 1) \in 1 .. Len(s) - k /\ (k + 1) + (j - (k - 1)) - 1 = j + 1
      BY <2>2
    <3> QED
      BY <1>2, <3>1
  <2> QED
    BY <1>1, <2>1, <2>2
<1>5. RemoveAt(s, k) = a \o b
  BY DEF RemoveAt, a, b
<1>6. a \o b \in Seq(Elem) /\ Len(a \o b) = Len(s) - 1
  BY <1>1, <1>2, <1>3
<1> QED
  BY <1>4, <1>5, <1>6

-----------------------------------------------------------------------------
(***************************************************************************)
(* One chain, under any links nx and pv.                                   *)
(***************************************************************************)

\* Positions of a sequence and its set of elements.
LEMMA Positions ==
  ASSUME NEW s \in Seq(Elem)
  PROVE  /\ Len(s) \in Nat /\ \A j \in 1 .. Len(s) : s[j] \in Elem /\ s[j] \in ToSet(s)
         /\ \A x \in ToSet(s) : \E j \in 1 .. Len(s) : x = s[j]
         /\ ToSet(s) \subseteq Elem
         /\ s = << >> <=> Len(s) = 0
<1>1. DOMAIN s = 1 .. Len(s) /\ Len(s) \in Nat
  OBVIOUS
<1>2. \A j \in 1 .. Len(s) : s[j] \in Elem
  OBVIOUS
<1>3. s = << >> <=> Len(s) = 0
  BY EmptySeq
<1> QED
  BY <1>1, <1>2, <1>3 DEF ToSet

\* The pointer to position k holds position k.
LEMMA PredHolds ==
  ASSUME NEW nx, NEW pv, NEW h \in ListHead, NEW s \in Seq(Elem), Chain(nx, pv, h, nx[h], s),
         NEW k \in 1 .. Len(s) + 1
  PROVE  /\ nx[Pred(h, s, k)] = At(s, k)
         /\ Pred(h, s, k) \in Elem \cup ListHead
         /\ k <= Len(s) => pv[s[k]] = Pred(h, s, k)
<1>0. Len(s) \in Nat
  BY Positions
<1>1. CASE k = 1
  BY <1>0, <1>1, Positions DEF Chain, Pred, At
<1>2. CASE k > 1
  <2>1. k - 1 \in 1 .. Len(s) /\ (k - 1) + 1 = k
    BY <1>0, <1>2
  <2>2. nx[s[k - 1]] = IF k - 1 = Len(s) THEN NULL ELSE s[(k - 1) + 1]
    BY <2>1 DEF Chain
  <2>3. s[k - 1] \in Elem
    BY <2>1, Positions
  <2> QED
    BY <1>0, <1>2, <2>1, <2>2, <2>3 DEF Chain, Pred, At
<1> QED
  BY <1>1, <1>2

\* Links that differ elsewhere only.
LEMMA ChainFrame ==
  ASSUME NEW nx, NEW pv, NEW nx2, NEW pv2, NEW h, NEW first, NEW s \in Seq(Elem),
         Chain(nx, pv, h, first, s),
         \A x \in ToSet(s) : nx2[x] = nx[x] /\ pv2[x] = pv[x]
  PROVE  Chain(nx2, pv2, h, first, s)
BY Positions DEF Chain

\* The links nx2 and pv2 are nx and pv with e put at position k.
Inserted(nx, pv, nx2, pv2, h, s, k, e) ==
  /\ \A x \in Elem \cup ListHead :
       nx2[x] = IF x = e THEN At(s, k) ELSE IF x = Pred(h, s, k) THEN e ELSE nx[x]
  /\ \A x \in Elem :
       pv2[x] = IF x = e THEN Pred(h, s, k) ELSE IF x = At(s, k) THEN e ELSE pv[x]

\* ... and with position k taken out.
Removed(nx, pv, nx2, pv2, h, s, k) ==
  /\ \A x \in Elem \cup ListHead : nx2[x] = IF x = Pred(h, s, k) THEN At(s, k + 1) ELSE nx[x]
  /\ \A x \in Elem : pv2[x] = IF x = At(s, k + 1) THEN Pred(h, s, k) ELSE pv[x]

LEMMA InsertChain ==
  ASSUME NEW nx, NEW pv, NEW nx2, NEW pv2, NEW h \in ListHead, NEW s \in Seq(Elem),
         Chain(nx, pv, h, nx[h], s), Injective(s),
         NEW k \in 1 .. Len(s) + 1, NEW e \in Elem \ ToSet(s),
         Inserted(nx, pv, nx2, pv2, h, s, k, e)
  PROVE  LET t == InsertAt(s, k, e)
         IN  t \in Seq(Elem) /\ Injective(t) /\ ToSet(t) = ToSet(s) \cup {e}
             /\ Chain(nx2, pv2, h, nx2[h], t)
<1> DEFINE t == InsertAt(s, k, e)
           n == Len(s)
<1>0. n \in Nat /\ k \in 1 .. n + 1 /\ \A j \in 1 .. n : s[j] \in Elem /\ s[j] # e
  BY Positions
<1>1. /\ t \in Seq(Elem) /\ Len(t) = n + 1
      /\ \A j \in 1 .. n + 1 : t[j] = IF j < k THEN s[j] ELSE IF j = k THEN e ELSE s[j - 1]
  BY InsertFacts
<1> HIDE DEF t
<1>a. \A p \in 1 .. n : p < k => t[p] = s[p]
  BY <1>0, <1>1
<1>b. t[k] = e
  BY <1>0, <1>1
<1>c. ASSUME NEW p \in 1 .. n, p >= k PROVE t[p + 1] = s[p]
  <2>1. p + 1 \in 1 .. n + 1 /\ ~(p + 1 < k) /\ p + 1 # k /\ (p + 1) - 1 = p
    BY <1>0, <1>c
  <2> QED
    BY <1>1, <2>1
<1>d. ASSUME NEW j \in 1 .. n + 1, j # k
      PROVE  \E p \in 1 .. n : t[j] = s[p] /\ j = (IF p < k THEN p ELSE p + 1)
  <2>1. CASE j < k
    <3>1. j \in 1 .. n
      BY <1>0, <2>1
    <3> QED
      BY <1>a, <2>1, <3>1
  <2>2. CASE j > k
    <3> DEFINE p == j - 1
    <3>1. p \in 1 .. n /\ p >= k /\ p + 1 = j
      BY <1>0, <2>2
    <3> HIDE DEF p
    <3> QED
      BY <1>0, <1>c, <3>1
  <2> QED
    BY <1>0, <1>d, <2>1, <2>2
<1>2. Injective(t)
  <2>1. SUFFICES ASSUME NEW i \in 1 .. n + 1, NEW j \in 1 .. n + 1, t[i] = t[j] PROVE i = j
    BY <1>1 DEF Injective
  <2>2. CASE i = k \/ j = k
    BY <1>0, <1>b, <1>d, <2>1, <2>2
  <2>3. CASE i # k /\ j # k
    <3>1. PICK p \in 1 .. n : t[i] = s[p] /\ i = (IF p < k THEN p ELSE p + 1)
      BY <1>d, <2>3
    <3>2. PICK q \in 1 .. n : t[j] = s[q] /\ j = (IF q < k THEN q ELSE q + 1)
      BY <1>d, <2>3
    <3>3. p = q
      BY <2>1, <3>1, <3>2 DEF Injective
    <3> QED
      BY <3>1, <3>2, <3>3
  <2> QED
    BY <2>2, <2>3
<1>3. ToSet(t) = ToSet(s) \cup {e}
  <2>1. ASSUME NEW x \in ToSet(t) PROVE x \in ToSet(s) \cup {e}
    <3>1. PICK j \in 1 .. n + 1 : x = t[j]
      BY <1>1, Positions
    <3> QED
      BY <1>b, <1>d, <3>1, Positions
  <2>2. e \in ToSet(t)
    BY <1>0, <1>1, Positions
  <2>3. ASSUME NEW j \in 1 .. n PROVE s[j] \in ToSet(t)
    <3>1. CASE j < k
      BY <1>0, <1>1, <1>a, <3>1, Positions
    <3>2. CASE j >= k
      <4>1. t[j + 1] = s[j] /\ j + 1 \in 1 .. n + 1
        BY <1>0, <1>c, <3>2
      <4> QED
        BY <1>1, <4>1, Positions
    <3> QED
      BY <1>0, <3>1, <3>2
  <2> QED
    BY <2>1, <2>2, <2>3, Positions
<1>4. h \notin Elem /\ NULL \notin Elem
  BY LinkedListAssumption
<1>5. nx2[h] = IF t = << >> THEN NULL ELSE t[1]
  <2>1. t # << >>
    BY <1>0, <1>1, Positions
  <2>2. CASE k = 1
    BY <1>0, <1>1, <1>4, <2>1, <2>2 DEF Inserted, Pred
  <2>3. CASE k > 1
    <3>1. Pred(h, s, k) # h /\ t[1] = s[1] /\ s # << >>
      BY <1>0, <1>1, <1>4, <2>3, Positions DEF Pred
    <3> QED
      BY <1>0, <1>4, <2>1, <3>1 DEF Inserted, Chain
  <2> QED
    BY <2>2, <2>3
<1>6. ASSUME NEW j \in 1 .. n + 1
      PROVE  /\ nx2[t[j]] = IF j = n + 1 THEN NULL ELSE t[j + 1]
             /\ pv2[t[j]] = IF j = 1 THEN h ELSE t[j - 1]
  <2>0. t[j] \in Elem /\ Pred(h, s, k) = (IF k = 1 THEN h ELSE s[k - 1])
    BY <1>1, Positions DEF Pred
  <2>1. CASE j < k - 1
    <3>1. t[j] = s[j] /\ t[j + 1] = s[j + 1] /\ j \in 1 .. n
          /\ t[j] # e /\ t[j] # Pred(h, s, k) /\ (j > 1 => t[j - 1] = s[j - 1])
      BY <1>0, <1>1, <1>4, <2>0, <2>1 DEF Injective
    <3>2. t[j] # At(s, k)
      BY <1>0, <1>4, <2>0, <2>1, <3>1 DEF At, Injective
    <3> QED
      BY <1>0, <2>0, <2>1, <3>1, <3>2 DEF Inserted, Chain
  <2>2. CASE j = k - 1
    <3>1. t[j] = s[j] /\ t[j + 1] = e /\ j \in 1 .. n
          /\ t[j] # e /\ t[j] = Pred(h, s, k) /\ (j > 1 => t[j - 1] = s[j - 1])
      BY <1>0, <1>1, <2>0, <2>2
    <3>2. t[j] # At(s, k)
      BY <1>0, <1>4, <2>0, <2>2, <3>1 DEF At, Injective
    <3> QED
      BY <1>0, <2>0, <2>2, <3>1, <3>2 DEF Inserted, Chain
  <2>3. CASE j = k
    <3>1. t[j] = e /\ (j > 1 => t[j - 1] = s[j - 1]) /\ (j <= n => t[j + 1] = s[j])
      BY <1>0, <1>1, <2>3
    <3> QED
      BY <1>0, <2>0, <2>3, <3>1 DEF Inserted, At
  <2>4. CASE j > k
    <3> DEFINE p == j - 1
    <3>1. p \in 1 .. n /\ p >= k /\ p + 1 = j
      BY <1>0, <2>4
    <3>2. t[j] = s[p]
      BY <1>c, <3>1
    <3>3. t[j - 1] = IF p = k THEN e ELSE s[p - 1]
      <4>1. CASE p = k
        BY <1>b, <4>1
      <4>2. CASE p > k
        <5>1. p - 1 \in 1 .. n /\ p - 1 >= k /\ (p - 1) + 1 = j - 1
          BY <1>0, <3>1, <4>2
        <5> QED
          BY <1>c, <4>2, <5>1
      <4> QED
        BY <1>0, <3>1, <4>1, <4>2
    <3>4. j <= n => t[j + 1] = s[p + 1]
      <4>1. SUFFICES ASSUME j <= n PROVE t[j + 1] = s[j]
        BY <3>1
      <4>2. j \in 1 .. n /\ j >= k
        BY <1>0, <2>4, <4>1
      <4> QED
        BY <1>c, <4>2
    <3> HIDE DEF p
    <3>5. t[j] # e /\ t[j] # Pred(h, s, k)
      BY <1>0, <1>4, <2>0, <3>1, <3>2 DEF Injective
    <3>6. nx2[t[j]] = IF j = n + 1 THEN NULL ELSE t[j + 1]
      <4>1. nx2[t[j]] = nx[s[p]]
        BY <2>0, <3>2, <3>5 DEF Inserted
      <4>2. nx[s[p]] = IF p = n THEN NULL ELSE s[p + 1]
        BY <3>1 DEF Chain
      <4> QED
        BY <1>0, <3>1, <3>4, <4>1, <4>2
    <3>7. pv2[t[j]] = IF j = 1 THEN h ELSE t[j - 1]
      <4>1. j # 1 /\ t[j] = At(s, k) <=> p = k
        BY <1>0, <1>4, <2>0, <2>4, <3>1, <3>2 DEF At, Injective
      <4>2. pv2[t[j]] = IF t[j] = At(s, k) THEN e ELSE pv[s[p]]
        BY <2>0, <3>2, <3>5 DEF Inserted
      <4>3. pv[s[p]] = IF p = 1 THEN h ELSE s[p - 1]
        BY <3>1 DEF Chain
      <4> QED
        BY <1>0, <2>4, <3>1, <3>3, <4>1, <4>2, <4>3
    <3> QED
      BY <3>6, <3>7
  <2> QED
    BY <1>0, <2>1, <2>2, <2>3, <2>4
<1>7. Chain(nx2, pv2, h, nx2[h], t)
  BY <1>1, <1>5, <1>6 DEF Chain
<1> QED
  BY <1>1, <1>2, <1>3, <1>7 DEF t

LEMMA RemoveChain ==
  ASSUME NEW nx, NEW pv, NEW nx2, NEW pv2, NEW h \in ListHead, NEW s \in Seq(Elem),
         Chain(nx, pv, h, nx[h], s), Injective(s), NEW k \in 1 .. Len(s),
         Removed(nx, pv, nx2, pv2, h, s, k)
  PROVE  LET t == RemoveAt(s, k)
         IN  t \in Seq(Elem) /\ Injective(t) /\ ToSet(t) \subseteq ToSet(s)
             /\ Chain(nx2, pv2, h, nx2[h], t)
<1> DEFINE t == RemoveAt(s, k)
           n == Len(s)
<1>0. n \in Nat /\ k \in 1 .. n /\ n - 1 \in Nat /\ \A j \in 1 .. n : s[j] \in Elem
  BY Positions
<1>1. /\ t \in Seq(Elem) /\ Len(t) = n - 1
      /\ \A j \in 1 .. n - 1 : t[j] = IF j < k THEN s[j] ELSE s[j + 1]
  BY RemoveFacts
<1> HIDE DEF t
<1>2. ASSUME NEW j \in 1 .. n - 1
      PROVE  \E p \in 1 .. n : t[j] = s[p] /\ p # k /\ p = (IF j < k THEN j ELSE j + 1)
  <2>1. CASE j < k
    <3>1. j \in 1 .. n
      BY <1>0
    <3> QED
      BY <1>0, <1>1, <2>1, <3>1
  <2>2. CASE j >= k
    <3>1. j + 1 \in 1 .. n /\ j + 1 # k
      BY <1>0, <2>2
    <3> QED
      BY <1>0, <1>1, <2>2, <3>1
  <2> QED
    BY <1>0, <2>1, <2>2
<1>3. Injective(t)
  <2>1. SUFFICES ASSUME NEW i \in 1 .. n - 1, NEW j \in 1 .. n - 1, t[i] = t[j] PROVE i = j
    BY <1>1 DEF Injective
  <2>2. PICK p \in 1 .. n : t[i] = s[p] /\ p = (IF i < k THEN i ELSE i + 1)
    BY <1>2
  <2>3. PICK q \in 1 .. n : t[j] = s[q] /\ q = (IF j < k THEN j ELSE j + 1)
    BY <1>2
  <2>4. p = q
    BY <2>1, <2>2, <2>3 DEF Injective
  <2> QED
    BY <1>0, <2>2, <2>3, <2>4
<1>4. ToSet(t) \subseteq ToSet(s)
  <2>1. SUFFICES ASSUME NEW x \in ToSet(t) PROVE x \in ToSet(s)
    OBVIOUS
  <2>2. PICK j \in 1 .. n - 1 : x = t[j]
    BY <1>1, Positions
  <2> QED
    BY <1>2, <2>2, Positions
<1>5. h \notin Elem /\ NULL \notin Elem
  BY LinkedListAssumption
<1>6. nx2[h] = IF t = << >> THEN NULL ELSE t[1]
  <2>1. t = << >> <=> n = 1
    BY <1>0, <1>1, Positions
  <2>2. CASE k = 1
    <3>1. nx2[h] = IF 2 <= n THEN s[2] ELSE NULL
      BY <2>2 DEF Removed, Pred, At
    <3>2. n > 1 => t[1] = s[2]
      BY <1>0, <1>1, <2>2
    <3>3. n = 1 \/ n > 1
      <4>1. n \in Nat /\ k \in 1 .. n
        BY <1>0
      <4> HIDE DEF n
      <4> QED
        BY <4>1
    <3>4. CASE n = 1
      BY <2>1, <3>1, <3>4
    <3>5. CASE n > 1
      <4>1. 2 <= n /\ n # 1
        BY <1>0, <3>5
      <4> HIDE DEF n
      <4> QED
        BY <2>1, <3>1, <3>2, <3>5, <4>1
    <3> QED
      BY <3>3, <3>4, <3>5
  <2>3. CASE k > 1
    <3>1. k - 1 \in 1 .. n /\ s # << >> /\ n > 1
      BY <1>0, <2>3, Positions
    <3>2. Pred(h, s, k) # h /\ t[1] = s[1]
      BY <1>0, <1>1, <1>5, <2>3, <3>1 DEF Pred
    <3> QED
      BY <1>0, <2>1, <3>1, <3>2 DEF Removed, Chain
  <2> QED
    BY <1>0, <2>2, <2>3
<1>7. ASSUME NEW j \in 1 .. n - 1
      PROVE  /\ nx2[t[j]] = IF j = n - 1 THEN NULL ELSE t[j + 1]
             /\ pv2[t[j]] = IF j = 1 THEN h ELSE t[j - 1]
  <2> DEFINE p == IF j < k THEN j ELSE j + 1
  <2>1. p \in 1 .. n /\ t[j] = s[p] /\ p # k
    BY <1>2
  <2>2. /\ nx[s[p]] = IF p = n THEN NULL ELSE s[p + 1]
        /\ pv[s[p]] = IF p = 1 THEN h ELSE s[p - 1]
    BY <2>1 DEF Chain
  <2>3. s[p] \in Elem
    BY <1>0, <2>1
  <2>4. s[p] = Pred(h, s, k) <=> (k > 1 /\ p = k - 1)
    <3>1. CASE k = 1
      BY <1>5, <2>3, <3>1 DEF Pred
    <3>2. CASE k > 1
      <4>1. k - 1 \in 1 .. n
        BY <1>0, <3>2
      <4> QED
        BY <2>1, <3>2, <4>1 DEF Pred, Injective
    <3> QED
      BY <1>0, <3>1, <3>2
  <2>5. s[p] = At(s, k + 1) <=> p = k + 1
    <3>1. CASE k < n
      <4>1. k + 1 \in 1 .. n
        BY <1>0, <3>1
      <4> QED
        BY <2>1, <3>1, <4>1 DEF At, Injective
    <3>2. CASE k = n
      BY <1>0, <1>5, <2>1, <2>3, <3>2 DEF At
    <3> QED
      BY <1>0, <3>1, <3>2
  <2>6. nx2[s[p]] = IF k > 1 /\ p = k - 1 THEN At(s, k + 1) ELSE nx[s[p]]
    BY <2>3, <2>4 DEF Removed
  <2>7. pv2[s[p]] = IF p = k + 1 THEN Pred(h, s, k) ELSE pv[s[p]]
    BY <2>3, <2>5 DEF Removed
  <2>8. nx2[s[p]] = IF j = n - 1 THEN NULL ELSE t[j + 1]
    <3>1. j < n - 1 => t[j + 1] = IF j + 1 < k THEN s[j + 1] ELSE s[(j + 1) + 1]
      BY <1>0, <1>1
    <3>2. CASE j < k - 1
      BY <1>0, <2>1, <2>2, <2>6, <3>1, <3>2
    <3>3. CASE j = k - 1
      BY <1>0, <2>1, <2>2, <2>6, <3>1, <3>3 DEF At
    <3>4. CASE j >= k
      BY <1>0, <2>1, <2>2, <2>6, <3>1, <3>4
    <3> QED
      BY <1>0, <3>2, <3>3, <3>4
  <2>9. pv2[s[p]] = IF j = 1 THEN h ELSE t[j - 1]
    <3>1. j > 1 => t[j - 1] = IF j - 1 < k THEN s[j - 1] ELSE s[(j - 1) + 1]
      BY <1>0, <1>1
    <3>2. CASE j < k
      BY <1>0, <2>1, <2>2, <2>7, <3>1, <3>2
    <3>3. CASE j = k
      BY <1>0, <2>1, <2>2, <2>7, <3>1, <3>3 DEF Pred
    <3>4. CASE j > k
      BY <1>0, <2>1, <2>2, <2>7, <3>1, <3>4
    <3> QED
      BY <1>0, <3>2, <3>3, <3>4
  <2> QED
    BY <2>1, <2>8, <2>9
<1>8. Chain(nx2, pv2, h, nx2[h], t)
  BY <1>1, <1>6, <1>7 DEF Chain
<1> QED
  BY <1>1, <1>3, <1>4, <1>8 DEF t

-----------------------------------------------------------------------------
(***************************************************************************)
(* What each macro writes.                                                 *)
(***************************************************************************)

LEMMA HeadLinks ==
  ASSUME TypeOK, Linked, NEW h \in ListHead, NEW e \in Elem, LIST_INSERT_HEAD(h, e)
  PROVE  Inserted(next, prev, next', prev', h, list[h], 1, e)
<1>1. list[h] \in Seq(Elem) /\ Chain(next, prev, h, next[h], list[h])
  BY DEF TypeOK, Linked
<1>2. next[h] = At(list[h], 1) /\ h \notin Elem /\ NULL \notin Elem
  BY <1>1, Positions, LinkedListAssumption DEF Chain, At
<1> QED
  BY <1>2 DEF TypeOK, LIST_INSERT_HEAD, head_next, head_prev, SetPrev, Inserted, Pred

LEMMA AfterLinks ==
  ASSUME TypeOK, Linked, NEW h \in ListHead, NEW k \in 1 .. Len(list[h]), NEW e \in Elem,
         LIST_INSERT_AFTER(list[h][k], e)
  PROVE  Inserted(next, prev, next', prev', h, list[h], k + 1, e)
<1>1. list[h] \in Seq(Elem) /\ Chain(next, prev, h, next[h], list[h])
  BY DEF TypeOK, Linked
<1>2. Len(list[h]) \in Nat /\ list[h][k] \in Elem
  BY <1>1, Positions
<1>3. k + 1 \in 1 .. Len(list[h]) + 1 /\ k + 1 # 1 /\ (k + 1) - 1 = k
  BY <1>2
<1>4. next[Pred(h, list[h], k + 1)] = At(list[h], k + 1)
  BY <1>1, <1>3, PredHolds
<1>5. Pred(h, list[h], k + 1) = list[h][k]
  BY <1>3 DEF Pred
<1>6. NULL \notin Elem
  BY LinkedListAssumption
<1> QED
  BY <1>2, <1>4, <1>5, <1>6 DEF TypeOK, LIST_INSERT_AFTER, SetPrev, Inserted

LEMMA BeforeLinks ==
  ASSUME TypeOK, Linked, NEW h \in ListHead, NEW k \in 1 .. Len(list[h]),
         NEW e \in Elem \ ToSet(list[h]), LIST_INSERT_BEFORE(list[h][k], e)
  PROVE  Inserted(next, prev, next', prev', h, list[h], k, e)
<1>1. list[h] \in Seq(Elem) /\ Chain(next, prev, h, next[h], list[h])
  BY DEF TypeOK, Linked
<1>2. Len(list[h]) \in Nat /\ list[h][k] \in Elem /\ list[h][k] \in ToSet(list[h])
  BY <1>1, Positions
<1>3. k \in 1 .. Len(list[h]) + 1 /\ k <= Len(list[h])
  BY <1>2
<1>4. prev[list[h][k]] = Pred(h, list[h], k) /\ Pred(h, list[h], k) \in Elem \cup ListHead
  <2>1. prev[list[h][k]] = Pred(h, list[h], k)
    BY <1>1 DEF Chain, Pred
  <2>2. Pred(h, list[h], k) \in Elem \cup ListHead
    BY <1>1, <1>3, PredHolds
  <2> QED
    BY <2>1, <2>2
<1>5. At(list[h], k) = list[h][k] /\ e # list[h][k]
  BY <1>2, <1>3 DEF At
<1>6. Pred(h, list[h], k) # e
  <2>1. CASE k = 1
    BY <2>1, LinkedListAssumption DEF Pred
  <2>2. CASE k > 1
    <3>1. k - 1 \in 1 .. Len(list[h])
      BY <1>2, <2>2
    <3> QED
      BY <1>1, <2>2, <3>1, Positions DEF Pred
  <2> QED
    BY <2>1, <2>2
<1> QED
  BY <1>2, <1>3, <1>4, <1>5, <1>6 DEF TypeOK, LIST_INSERT_BEFORE, Inserted

LEMMA RemoveLinks ==
  ASSUME TypeOK, Linked, NEW h \in ListHead, NEW k \in 1 .. Len(list[h]),
         LIST_REMOVE(list[h][k])
  PROVE  Removed(next, prev, next', prev', h, list[h], k)
<1>1. list[h] \in Seq(Elem) /\ Chain(next, prev, h, next[h], list[h])
  BY DEF TypeOK, Linked
<1>2. Len(list[h]) \in Nat /\ list[h][k] \in Elem
  BY <1>1, Positions
<1>3. k \in 1 .. Len(list[h]) + 1 /\ k <= Len(list[h])
  BY <1>2
<1>4. prev[list[h][k]] = Pred(h, list[h], k) /\ Pred(h, list[h], k) \in Elem \cup ListHead
  <2>1. prev[list[h][k]] = Pred(h, list[h], k)
    BY <1>1 DEF Chain, Pred
  <2>2. Pred(h, list[h], k) \in Elem \cup ListHead
    BY <1>1, <1>3, PredHolds
  <2> QED
    BY <2>1, <2>2
<1>5. next[list[h][k]] = At(list[h], k + 1)
  <2>1. next[list[h][k]] = IF k = Len(list[h]) THEN NULL ELSE list[h][k + 1]
    BY <1>1 DEF Chain
  <2> QED
    BY <1>2, <2>1 DEF At
<1>6. NULL \notin Elem
  BY LinkedListAssumption
<1> QED
  BY <1>2, <1>3, <1>4, <1>5, <1>6 DEF TypeOK, LIST_REMOVE, SetPrev, Removed

-----------------------------------------------------------------------------
(***************************************************************************)
(* One list changes, the others do not notice.                             *)
(***************************************************************************)

\* Pointers of list h only are written, and elements of e's set only.
LEMMA OthersKeep ==
  ASSUME TypeOK, Linked, Apart(list, stolen), NEW h \in ListHead, NEW t \in Seq(Elem),
         Injective(t), NEW W \in SUBSET Elem, ToSet(t) \subseteq ToSet(list[h]) \cup W,
         W \cap OnList = {},
         list' = [list EXCEPT ![h] = t], stolen' = stolen, saved' = saved,
         Chain(next', prev', h, next'[h], t),
         \A x \in (Elem \cup ListHead) \ (ToSet(list[h]) \cup W \cup {h}) :
            next'[x] = next[x] /\ (x \in Elem => prev'[x] = prev[x])
  PROVE  Linked' /\ Apart(list', stolen')
<1>1. \A g \in ListHead : /\ list[g] \in Seq(Elem) /\ stolen[g] \in Seq(Elem)
                          /\ ToSet(list[g]) \subseteq Elem /\ ToSet(stolen[g]) \subseteq Elem
                          /\ ToSet(list[g]) \subseteq OnList /\ ToSet(stolen[g]) \subseteq OnList
  BY Positions DEF TypeOK, OnList
<1>2. list'[h] = t /\ (\A g \in ListHead : g # h => list'[g] = list[g])
  BY DEF TypeOK
<1>3. h \notin Elem /\ \A g \in ListHead : g \notin Elem
  BY LinkedListAssumption
<1>4. \A g \in ListHead : g # h => next'[g] = next[g]
  BY <1>1, <1>3
<1>5. ASSUME NEW g \in ListHead PROVE Chain(next', prev', g, saved[g], stolen[g])
  <2>1. \A x \in ToSet(stolen[g]) : next'[x] = next[x] /\ prev'[x] = prev[x]
    BY <1>1, <1>3 DEF Apart
  <2> QED
    BY <1>1, <2>1, ChainFrame DEF Linked
<1>6. ASSUME NEW g \in ListHead, g # h PROVE Chain(next', prev', g, next'[g], list[g])
  <2>1. \A x \in ToSet(list[g]) : next'[x] = next[x] /\ prev'[x] = prev[x]
    BY <1>1, <1>3, <1>6 DEF Apart
  <2> QED
    BY <1>1, <1>4, <1>6, <2>1, ChainFrame DEF Linked
<1>7. Linked'
  BY <1>2, <1>5, <1>6 DEF Linked
<1>8. Apart(list', stolen)
  <2>1. \A g \in ListHead : Injective(list'[g]) /\ Injective(stolen[g])
    BY <1>2 DEF Apart
  <2>2. ASSUME NEW f \in ListHead, NEW g \in ListHead
        PROVE  /\ ToSet(list'[f]) \cap ToSet(stolen[g]) = {}
               /\ f # g => ToSet(list'[f]) \cap ToSet(list'[g]) = {}
               /\ f # g => ToSet(stolen[f]) \cap ToSet(stolen[g]) = {}
    BY <1>1, <1>2 DEF Apart
  <2> QED
    BY <2>1, <2>2 DEF Apart
<1> QED
  BY <1>7, <1>8

LEMMA InsertKeeps ==
  ASSUME TypeOK, Linked, Apart(list, stolen), NEW h \in ListHead,
         NEW k \in 1 .. Len(list[h]) + 1, NEW e \in Elem \ OnList,
         Inserted(next, prev, next', prev', h, list[h], k, e),
         list' = [list EXCEPT ![h] = InsertAt(@, k, e)], stolen' = stolen, saved' = saved
  PROVE  Linked' /\ Apart(list', stolen') /\ list' \in [ListHead -> Seq(Elem)]
<1> DEFINE s == list[h]
           t == InsertAt(s, k, e)
<1>0. s \in Seq(Elem) /\ ToSet(s) \subseteq OnList /\ Len(s) \in Nat
  BY Positions DEF TypeOK, OnList
<1>1. t \in Seq(Elem) /\ Injective(t) /\ ToSet(t) = ToSet(s) \cup {e}
      /\ Chain(next', prev', h, next'[h], t)
  <2>1. Chain(next, prev, h, next[h], s) /\ Injective(s) /\ e \in Elem \ ToSet(s)
    BY <1>0 DEF Linked, Apart
  <2> QED
    BY <1>0, <2>1, InsertChain
<1>2. list' = [list EXCEPT ![h] = t]
  OBVIOUS
<1>3. Pred(h, s, k) \in ToSet(s) \cup {h}
  <2>1. CASE k = 1
    BY <2>1 DEF Pred
  <2>2. CASE k > 1
    <3>1. k - 1 \in 1 .. Len(s) /\ k # 1
      BY <1>0, <2>2
    <3> HIDE DEF s
    <3>2. s[k - 1] \in ToSet(s)
      BY <1>0, <3>1, Positions
    <3> QED
      BY <3>1, <3>2 DEF Pred
  <2> QED
    BY <1>0, <2>1, <2>2
<1>4. At(s, k) \in ToSet(s) \cup {NULL}
  <2>1. CASE k <= Len(s)
    <3>1. k \in 1 .. Len(s)
      BY <1>0, <2>1
    <3> HIDE DEF s
    <3> QED
      BY <1>0, <2>1, <3>1, Positions DEF At
  <2>2. CASE ~(k <= Len(s))
    BY <2>2 DEF At
  <2> QED
    BY <2>1, <2>2
<1> HIDE DEF s, t
<1>5. ASSUME NEW x \in (Elem \cup ListHead) \ (ToSet(s) \cup {e} \cup {h})
      PROVE  next'[x] = next[x] /\ (x \in Elem => prev'[x] = prev[x])
  <2>1. x # e /\ x # Pred(h, s, k) /\ (x \in Elem => x # At(s, k))
    BY <1>3, <1>4, LinkedListAssumption
  <2> QED
    BY <2>1 DEF Inserted, s
<1>6. Linked' /\ Apart(list', stolen')
  <2>1. ToSet(t) \subseteq ToSet(s) \cup {e} /\ {e} \cap OnList = {} /\ {e} \in SUBSET Elem
    BY <1>1
  <2> QED
    BY <1>1, <1>2, <1>5, <2>1, OthersKeep DEF s
<1>7. list' \in [ListHead -> Seq(Elem)]
  BY <1>1, <1>2 DEF TypeOK
<1> QED
  BY <1>6, <1>7

LEMMA RemoveKeeps ==
  ASSUME TypeOK, Linked, Apart(list, stolen), NEW h \in ListHead, NEW k \in 1 .. Len(list[h]),
         Removed(next, prev, next', prev', h, list[h], k),
         list' = [list EXCEPT ![h] = RemoveAt(@, k)], stolen' = stolen, saved' = saved
  PROVE  Linked' /\ Apart(list', stolen') /\ list' \in [ListHead -> Seq(Elem)]
<1> DEFINE s == list[h]
           t == RemoveAt(s, k)
<1>0. s \in Seq(Elem) /\ ToSet(s) \subseteq OnList /\ Len(s) \in Nat
  BY Positions DEF TypeOK, OnList
<1>1. t \in Seq(Elem) /\ Injective(t) /\ ToSet(t) \subseteq ToSet(s)
      /\ Chain(next', prev', h, next'[h], t)
  <2>1. Chain(next, prev, h, next[h], s) /\ Injective(s)
    BY <1>0 DEF Linked, Apart
  <2> QED
    BY <1>0, <2>1, RemoveChain
<1>2. list' = [list EXCEPT ![h] = t]
  OBVIOUS
<1>3. Pred(h, s, k) \in ToSet(s) \cup {h}
  <2>1. CASE k = 1
    BY <2>1 DEF Pred
  <2>2. CASE k > 1
    <3>1. k - 1 \in 1 .. Len(s) /\ k # 1
      BY <1>0, <2>2
    <3> HIDE DEF s
    <3>2. s[k - 1] \in ToSet(s)
      BY <1>0, <3>1, Positions
    <3> QED
      BY <3>1, <3>2 DEF Pred
  <2> QED
    BY <1>0, <2>1, <2>2
<1>4. At(s, k + 1) \in ToSet(s) \cup {NULL}
  <2>1. CASE k + 1 <= Len(s)
    <3>1. k + 1 \in 1 .. Len(s)
      BY <1>0, <2>1
    <3> HIDE DEF s
    <3> QED
      BY <1>0, <2>1, <3>1, Positions DEF At
  <2>2. CASE ~(k + 1 <= Len(s))
    BY <2>2 DEF At
  <2> QED
    BY <2>1, <2>2
<1> HIDE DEF s, t
<1>5. ASSUME NEW x \in (Elem \cup ListHead) \ (ToSet(s) \cup {} \cup {h})
      PROVE  next'[x] = next[x] /\ (x \in Elem => prev'[x] = prev[x])
  <2>1. x # Pred(h, s, k) /\ (x \in Elem => x # At(s, k + 1))
    BY <1>3, <1>4, LinkedListAssumption
  <2> QED
    BY <2>1 DEF Removed, s
<1>6. Linked' /\ Apart(list', stolen')
  <2>1. ToSet(t) \subseteq ToSet(s) \cup {} /\ {} \cap OnList = {} /\ {} \in SUBSET Elem
    BY <1>1
  <2> QED
    BY <1>1, <1>2, <1>5, <2>1, OthersKeep DEF s
<1>7. list' \in [ListHead -> Seq(Elem)]
  BY <1>1, <1>2 DEF TypeOK
<1> QED
  BY <1>6, <1>7

\* The links of an element on no list are nobody's.
LEMMA OffListKeeps ==
  ASSUME TypeOK, Linked, Apart(list, stolen), NEW e \in Elem \ OnList,
         \A x \in (Elem \cup ListHead) \ {e} :
            next'[x] = next[x] /\ (x \in Elem => prev'[x] = prev[x]),
         list' = list, stolen' = stolen, saved' = saved
  PROVE  Linked' /\ Apart(list', stolen')
<1>1. \A g \in ListHead : /\ list[g] \in Seq(Elem) /\ stolen[g] \in Seq(Elem)
                          /\ ToSet(list[g]) \subseteq Elem \ {e}
                          /\ ToSet(stolen[g]) \subseteq Elem \ {e}
                          /\ g # e
  BY Positions, LinkedListAssumption DEF TypeOK, OnList
<1>2. ASSUME NEW g \in ListHead
      PROVE  Chain(next', prev', g, next'[g], list[g]) /\ Chain(next', prev', g, saved[g], stolen[g])
  <2>1. \A x \in ToSet(list[g]) \cup ToSet(stolen[g]) : next'[x] = next[x] /\ prev'[x] = prev[x]
    BY <1>1
  <2>2. next'[g] = next[g]
    BY <1>1
  <2>3. Chain(next', prev', g, next[g], list[g])
    BY <1>1, <2>1, ChainFrame DEF Linked
  <2>4. Chain(next', prev', g, saved[g], stolen[g])
    BY <1>1, <2>1, ChainFrame DEF Linked
  <2> QED
    BY <2>2, <2>3, <2>4
<1> QED
  BY <1>2 DEF Linked

\* A list moves between its head and the copy of its head, one of them is empty.
LEMMA SwapKeeps ==
  ASSUME TypeOK, Linked, Apart(list, stolen), NEW h \in ListHead, TypeOK',
         \/ /\ stolen[h] = << >> /\ list'[h] = << >> /\ stolen'[h] = list[h]
            /\ next'[h] = NULL /\ saved'[h] = next[h]
         \/ /\ list'[h] = stolen[h] /\ stolen'[h] = << >>
            /\ next'[h] = saved[h] /\ saved'[h] = NULL,
         \A g \in ListHead \ {h} : /\ list'[g] = list[g] /\ stolen'[g] = stolen[g]
                                   /\ next'[g] = next[g] /\ saved'[g] = saved[g],
         \A x \in Elem : next'[x] = next[x] /\ prev'[x] = prev[x]
  PROVE  Linked' /\ Apart(list', stolen')
<1>1. \A g \in ListHead : /\ list[g] \in Seq(Elem) /\ stolen[g] \in Seq(Elem)
                          /\ ToSet(list[g]) \subseteq Elem /\ ToSet(stolen[g]) \subseteq Elem
  BY Positions DEF TypeOK
<1>2. \A g \in ListHead : /\ Chain(next', prev', g, next[g], list[g])
                          /\ Chain(next', prev', g, saved[g], stolen[g])
  <2>1. ASSUME NEW g \in ListHead PROVE Chain(next', prev', g, next[g], list[g])
    BY <1>1, ChainFrame DEF Linked
  <2>2. ASSUME NEW g \in ListHead PROVE Chain(next', prev', g, saved[g], stolen[g])
    BY <1>1, ChainFrame DEF Linked
  <2> QED
    BY <2>1, <2>2
<1>3. Len(<< >>) = 0 /\ ToSet(<< >>) = {} /\ Injective(<< >>)
  BY DEF ToSet, Injective
<1>4. Chain(next', prev', h, NULL, << >>)
  BY <1>3 DEF Chain
<1>5. Linked'
  <2>1. ASSUME NEW g \in ListHead
        PROVE  Chain(next', prev', g, next'[g], list'[g]) /\ Chain(next', prev', g, saved'[g], stolen'[g])
    BY <1>2, <1>4
  <2> QED
    BY <2>1 DEF Linked
<1>6. Apart(list', stolen')
  <2>1. \A g \in ListHead : Injective(list'[g]) /\ Injective(stolen'[g])
    BY <1>3 DEF Apart
  <2>2. \A f, g \in ListHead : /\ ToSet(list'[f]) \cap ToSet(stolen'[g]) = {}
                               /\ f # g => ToSet(list'[f]) \cap ToSet(list'[g]) = {}
                               /\ f # g => ToSet(stolen'[f]) \cap ToSet(stolen'[g]) = {}
    BY <1>3 DEF Apart
  <2> QED
    BY <2>1, <2>2 DEF Apart
<1> QED
  BY <1>5, <1>6
-----------------------------------------------------------------------------
(***************************************************************************)
(* The inductive invariant.                                                *)
(***************************************************************************)

LEMMA InitIInv == Init => IInv
<1> SUFFICES ASSUME Init PROVE IInv
  OBVIOUS
<1>1. TypeOK /\ Idle
  BY DEF Init, TypeOK, Idle
<1>2. Linked
  BY EmptySeq DEF Init, Linked, Chain
<1>3. Apart(list, stolen)
  <2>1. ToSet(<< >>) = {} /\ Len(<< >>) = 0
    BY DEF ToSet
  <2> QED
    BY <2>1 DEF Init, Apart, Injective
<1> QED
  BY <1>1, <1>2, <1>3 DEF IInv, TailInv

LEMMA StepIInv == IInv /\ [Next]_vars => IInv'
<1> SUFFICES ASSUME IInv, [Next]_vars PROVE IInv'
  OBVIOUS
<1>0. TypeOK /\ Linked /\ Apart(list, stolen) /\ TailInv
  BY DEF IInv
<1>1. CASE InsertHead
  <2>1. PICK h \in ListHead, e \in Elem \ OnList :
           /\ Idle /\ LIST_INSERT_HEAD(h, e)
           /\ list' = [list EXCEPT ![h] = InsertAt(@, 1, e)]
           /\ UNCHANGED <<tail, saved, stolen>>
    BY <1>1 DEF InsertHead
  <2>2. Inserted(next, prev, next', prev', h, list[h], 1, e)
    BY <1>0, <2>1, HeadLinks
  <2>3. 1 \in 1 .. Len(list[h]) + 1
    BY <1>0, Positions DEF TypeOK
  <2>4. Linked' /\ Apart(list', stolen') /\ list' \in [ListHead -> Seq(Elem)]
    BY <1>0, <2>1, <2>2, <2>3, InsertKeeps
  <2>5. TypeOK'
    BY <1>0, <2>1, <2>4 DEF TypeOK, LIST_INSERT_HEAD, head_next, head_prev, SetPrev
  <2> QED
    BY <2>1, <2>4, <2>5 DEF IInv, TailInv, Idle
<1>2. CASE InsertAfter
  <2>1. PICK h \in ListHead, e \in Elem \ OnList : \E k \in 1 .. Len(list[h]) :
           /\ Idle /\ LIST_INSERT_AFTER(list[h][k], e)
           /\ list' = [list EXCEPT ![h] = InsertAt(@, k + 1, e)]
           /\ UNCHANGED <<tail, saved, stolen>>
    BY <1>2 DEF InsertAfter
  <2>2. PICK k \in 1 .. Len(list[h]) :
           /\ Idle /\ LIST_INSERT_AFTER(list[h][k], e)
           /\ list' = [list EXCEPT ![h] = InsertAt(@, k + 1, e)]
           /\ UNCHANGED <<tail, saved, stolen>>
    BY <2>1
  <2>3. Inserted(next, prev, next', prev', h, list[h], k + 1, e)
    BY <1>0, <2>2, AfterLinks
  <2>4. k + 1 \in 1 .. Len(list[h]) + 1
    BY <1>0, Positions DEF TypeOK
  <2>5. Linked' /\ Apart(list', stolen') /\ list' \in [ListHead -> Seq(Elem)]
    BY <1>0, <2>2, <2>3, <2>4, InsertKeeps
  <2>6. TypeOK'
    <3>1. list[h][k] \in Elem
      BY <1>0, Positions DEF TypeOK
    <3> QED
      BY <1>0, <2>2, <2>5, <3>1 DEF TypeOK, LIST_INSERT_AFTER, SetPrev
  <2> QED
    BY <2>2, <2>5, <2>6 DEF IInv, TailInv, Idle
<1>3. CASE InsertBefore
  <2>1. PICK h \in ListHead, e \in Elem \ OnList : \E k \in 1 .. Len(list[h]) :
           /\ Idle /\ LIST_INSERT_BEFORE(list[h][k], e)
           /\ list' = [list EXCEPT ![h] = InsertAt(@, k, e)]
           /\ UNCHANGED <<tail, saved, stolen>>
    BY <1>3 DEF InsertBefore
  <2>2. PICK k \in 1 .. Len(list[h]) :
           /\ Idle /\ LIST_INSERT_BEFORE(list[h][k], e)
           /\ list' = [list EXCEPT ![h] = InsertAt(@, k, e)]
           /\ UNCHANGED <<tail, saved, stolen>>
    BY <2>1
  <2>3. e \in Elem \ ToSet(list[h])
    BY DEF OnList
  <2>4. Inserted(next, prev, next', prev', h, list[h], k, e)
    BY <1>0, <2>2, <2>3, BeforeLinks
  <2>5. k \in 1 .. Len(list[h]) + 1
    BY <1>0, Positions DEF TypeOK
  <2>6. Linked' /\ Apart(list', stolen') /\ list' \in [ListHead -> Seq(Elem)]
    BY <1>0, <2>2, <2>4, <2>5, InsertKeeps
  <2>7. TypeOK'
    <3>1. list[h][k] \in Elem
      BY <1>0, Positions DEF TypeOK
    <3> QED
      BY <1>0, <2>2, <2>6, <3>1 DEF TypeOK, LIST_INSERT_BEFORE
  <2> QED
    BY <2>2, <2>6, <2>7 DEF IInv, TailInv, Idle
<1>4. CASE RemoveElem
  <2>1. PICK h \in ListHead : \E k \in 1 .. Len(list[h]) :
           /\ Idle /\ LIST_REMOVE(list[h][k])
           /\ list' = [list EXCEPT ![h] = RemoveAt(@, k)]
           /\ UNCHANGED <<tail, saved, stolen>>
    BY <1>4 DEF RemoveElem
  <2>2. PICK k \in 1 .. Len(list[h]) :
           /\ Idle /\ LIST_REMOVE(list[h][k])
           /\ list' = [list EXCEPT ![h] = RemoveAt(@, k)]
           /\ UNCHANGED <<tail, saved, stolen>>
    BY <2>1
  <2>3. Removed(next, prev, next', prev', h, list[h], k)
    BY <1>0, <2>2, RemoveLinks
  <2>4. Linked' /\ Apart(list', stolen') /\ list' \in [ListHead -> Seq(Elem)]
    BY <1>0, <2>2, <2>3, RemoveKeeps
  <2>5. list[h][k] \in Elem
    BY <1>0, Positions DEF TypeOK
  <2>6. TypeOK'
    BY <1>0, <2>2, <2>4, <2>5 DEF TypeOK, LIST_REMOVE, SetPrev
  <2> QED
    BY <2>2, <2>4, <2>6 DEF IInv, TailInv, Idle
<1>5. CASE InsertTailEmpty
  <2>1. PICK h \in ListHead, e \in Elem \ OnList :
           /\ Idle /\ next[h] = NULL /\ LIST_INSERT_HEAD(h, e)
           /\ list' = [list EXCEPT ![h] = InsertAt(@, Len(@) + 1, e)]
           /\ UNCHANGED <<tail, saved, stolen>>
    BY <1>5 DEF InsertTailEmpty
  <2>2. Inserted(next, prev, next', prev', h, list[h], 1, e)
    BY <1>0, <2>1, HeadLinks
  <2>3. Len(list[h]) = 0
    <3>1. list[h] = << >> \/ list[h][1] \in Elem
      BY <1>0, Positions DEF TypeOK
    <3> QED
      BY <1>0, <2>1, <3>1, Positions, LinkedListAssumption DEF TypeOK, Linked, Chain
  <2>4. 1 \in 1 .. Len(list[h]) + 1 /\ list' = [list EXCEPT ![h] = InsertAt(@, 1, e)]
    BY <2>1, <2>3
  <2>5. Linked' /\ Apart(list', stolen') /\ list' \in [ListHead -> Seq(Elem)]
    BY <1>0, <2>1, <2>2, <2>4, InsertKeeps
  <2>6. TypeOK'
    BY <1>0, <2>1, <2>5 DEF TypeOK, LIST_INSERT_HEAD, head_next, head_prev, SetPrev
  <2> QED
    BY <2>1, <2>5, <2>6 DEF IInv, TailInv, Idle

<1>6. CASE InsertTailBegin
  <2>1. PICK h \in ListHead, e \in Elem \ OnList :
           /\ Idle /\ next[h] # NULL
           /\ next' = [next EXCEPT ![e] = next[h]]
           /\ tail' = [head |-> h, elm |-> e]
           /\ UNCHANGED <<prev, saved, list, stolen>>
    BY <1>6 DEF InsertTailBegin
  <2>2. TypeOK'
    BY <1>0, <2>1 DEF TypeOK
  <2>3. Linked' /\ Apart(list', stolen') /\ OnList' = OnList
    BY <1>0, <2>1, OffListKeeps DEF OnList
  <2>4. ~(tail' = NULL) => TailInv'
    <3>1. /\ list[h] \in Seq(Elem) /\ Chain(next, prev, h, next[h], list[h])
      BY <1>0 DEF TypeOK, Linked
    <3>2. list[h] # << >> /\ next[h] = list[h][1] /\ Len(list[h]) \in Nat \ {0}
      BY <2>1, <3>1, Positions DEF Chain
    <3>3. next'[e] = At(list[h], 1) /\ 1 \in 1 .. Len(list[h]) + 1 /\ ~(1 > 1)
      BY <1>0, <2>1, <3>2 DEF TypeOK, At
    <3>4. tail'.elm = e /\ tail'.head = h /\ list' = list /\ e \notin OnList'
      BY <2>1, <2>3
    <3> QED
      BY <3>2, <3>3, <3>4 DEF TailInv
  <2> QED
    BY <2>2, <2>3, <2>4 DEF IInv, TailInv, Idle
<1>7. CASE InsertTailTurn
  <2> DEFINE h == tail.head
             e == tail.elm
             s == list[h]
  <2>1. /\ ~Idle /\ next[e] # NULL
        /\ prev' = [prev EXCEPT ![e] = prev[next[e]]]
        /\ next' = [next EXCEPT ![e] = next[next[e]]]
        /\ UNCHANGED <<tail, saved, list, stolen>>
    BY <1>7 DEF InsertTailTurn
  <2>2. h \in ListHead /\ e \in Elem \ OnList /\ s \in Seq(Elem) /\ Len(s) \in Nat
        /\ Chain(next, prev, h, next[h], s)
    <3>1. tail \in [head : ListHead, elm : Elem]
      BY <1>0, <2>1 DEF TypeOK, Idle
    <3>2. h \in ListHead /\ e \in Elem \ OnList
      BY <1>0, <2>1, <3>1 DEF TailInv
    <3> QED
      BY <1>0, <3>2, Positions DEF TypeOK, Linked
  <2>3. PICK k \in 1 .. Len(s) + 1 : next[e] = At(s, k)
    BY <1>0, <2>1 DEF TailInv
  <2> HIDE DEF h, e, s
  <2>4. k \in 1 .. Len(s) /\ next[e] = s[k] /\ s[k] \in Elem /\ s # << >>
        /\ k + 1 \in 1 .. Len(s) + 1 /\ (k + 1) - 1 = k
    <3>1. k \in 1 .. Len(s)
      BY <2>1, <2>2, <2>3 DEF At
    <3> QED
      BY <2>2, <2>3, <3>1, Positions DEF At
  <2>5. next[s[k]] = At(s, k + 1) /\ prev[s[k]] = Pred(h, s, k)
    <3>1. /\ next[s[k]] = IF k = Len(s) THEN NULL ELSE s[k + 1]
          /\ prev[s[k]] = IF k = 1 THEN h ELSE s[k - 1]
      BY <2>2, <2>4 DEF Chain
    <3> QED
      BY <2>2, <2>4, <3>1 DEF At, Pred
  <2>6. next'[e] = At(s, k + 1) /\ prev'[e] = Pred(h, s, (k + 1) - 1)
    BY <1>0, <2>1, <2>2, <2>4, <2>5 DEF TypeOK
  <2>7. TypeOK'
    BY <1>0, <2>1, <2>2, <2>4 DEF TypeOK
  <2>8. Linked' /\ Apart(list', stolen') /\ OnList' = OnList
    BY <1>0, <2>1, <2>2, OffListKeeps DEF OnList
  <2>9. TailInv'
    BY <2>1, <2>2, <2>4, <2>6, <2>8 DEF TailInv, h, e, s
  <2> QED
    BY <2>7, <2>8, <2>9 DEF IInv
<1>8. CASE InsertTailEnd
  <2> DEFINE h == tail.head
             e == tail.elm
             s == list[h]
             n == Len(s)
             last == next[prev[e]]
  <2>1. /\ ~Idle /\ next[e] = NULL
        /\ prev' = [prev EXCEPT ![e] = last]
        /\ next' = [next EXCEPT ![last] = e]
        /\ list' = [list EXCEPT ![h] = InsertAt(@, Len(@) + 1, e)]
        /\ tail' = NULL
        /\ UNCHANGED <<saved, stolen>>
    BY <1>8 DEF InsertTailEnd
  <2>2. h \in ListHead /\ e \in Elem \ OnList /\ s \in Seq(Elem) /\ n \in Nat \ {0}
        /\ Chain(next, prev, h, next[h], s)
    <3>1. tail \in [head : ListHead, elm : Elem]
      BY <1>0, <2>1 DEF TypeOK, Idle
    <3>2. h \in ListHead /\ e \in Elem \ OnList /\ s # << >>
      BY <1>0, <2>1, <3>1 DEF TailInv
    <3> QED
      BY <1>0, <3>2, Positions DEF TypeOK, Linked
  <2>3. PICK k \in 1 .. n + 1 : next[e] = At(s, k) /\ (k > 1 => prev[e] = Pred(h, s, k - 1))
    BY <1>0, <2>1 DEF TailInv
  <2> HIDE DEF h, e, s
  <2>4. k = n + 1 /\ k > 1 /\ k - 1 = n
    <3>1. \A j \in 1 .. n : s[j] # NULL
      BY <2>2, Positions, LinkedListAssumption
    <3> QED
      BY <2>1, <2>2, <2>3, <3>1 DEF At
  <2>5. last = s[n] /\ s[n] \in Elem /\ s[n] = Pred(h, s, n + 1)
    <3>1. n \in 1 .. Len(s) + 1 /\ n \in 1 .. Len(s) /\ prev[e] = Pred(h, s, n)
      BY <2>2, <2>3, <2>4
    <3>2. next[Pred(h, s, n)] = At(s, n)
      BY <2>2, <3>1, PredHolds
    <3>3. At(s, n) = s[n] /\ s[n] \in Elem
      BY <2>2, <3>1, Positions DEF At
    <3>4. s[n] = Pred(h, s, n + 1)
      BY <2>2 DEF Pred
    <3> QED
      BY <3>1, <3>2, <3>3, <3>4
  <2>6. At(s, n + 1) = NULL
    BY <2>2 DEF At
  <2> HIDE DEF last
  <2>7. Inserted(next, prev, next', prev', h, s, n + 1, e)
    <3>1. e # s[n]
      BY <2>2, Positions DEF OnList, s
    <3>2. \A x \in Elem \cup ListHead : next'[x] = IF x = s[n] THEN e ELSE next[x]
      BY <1>0, <2>1, <2>5 DEF TypeOK
    <3>3. \A x \in Elem : prev'[x] = IF x = e THEN s[n] ELSE prev[x]
      BY <1>0, <2>1, <2>2, <2>5 DEF TypeOK
    <3> QED
      BY <2>1, <2>5, <2>6, <3>1, <3>2, <3>3, LinkedListAssumption DEF Inserted
  <2>8. n + 1 \in 1 .. Len(s) + 1 /\ list' = [list EXCEPT ![h] = InsertAt(@, n + 1, e)]
    BY <2>1, <2>2 DEF s
  <2>9. Linked' /\ Apart(list', stolen') /\ list' \in [ListHead -> Seq(Elem)]
    BY <1>0, <2>1, <2>2, <2>7, <2>8, InsertKeeps DEF s
  <2>10. TypeOK'
    BY <1>0, <2>1, <2>2, <2>5, <2>9 DEF TypeOK
  <2> QED
    BY <2>1, <2>9, <2>10 DEF IInv, TailInv, Idle
<1>9. CASE Steal
  <2>1. PICK h \in ListHead :
           /\ Idle /\ stolen[h] = << >>
           /\ saved' = [saved EXCEPT ![h] = next[h]]
           /\ next' = [next EXCEPT ![h] = NULL]
           /\ list' = [list EXCEPT ![h] = << >>] /\ stolen' = [stolen EXCEPT ![h] = list[h]]
           /\ UNCHANGED <<prev, tail>>
    BY <1>9 DEF Steal
  <2>2. TypeOK'
    BY <1>0, <2>1, EmptySeq DEF TypeOK
  <2>3. Linked' /\ Apart(list', stolen')
    <3>1. ASSUME NEW g \in ListHead
          PROVE  /\ g # h => list'[g] = list[g] /\ stolen'[g] = stolen[g]
                              /\ next'[g] = next[g] /\ saved'[g] = saved[g]
                 /\ list'[h] = << >> /\ stolen'[h] = list[h]
                 /\ next'[h] = NULL /\ saved'[h] = next[h]
                 /\ \A x \in Elem : next'[x] = next[x] /\ prev'[x] = prev[x]
      BY <1>0, <2>1, LinkedListAssumption DEF TypeOK
    <3> QED
      BY <1>0, <2>1, <2>2, <3>1, SwapKeeps DEF TypeOK
  <2> QED
    BY <2>1, <2>2, <2>3 DEF IInv, TailInv, Idle
<1>10. CASE GiveBack
  <2>1. PICK h \in ListHead :
           /\ Idle /\ stolen[h] # << >>
           /\ next' = [next EXCEPT ![h] = saved[h]]
           /\ saved' = [saved EXCEPT ![h] = NULL]
           /\ list' = [list EXCEPT ![h] = stolen[h]] /\ stolen' = [stolen EXCEPT ![h] = << >>]
           /\ UNCHANGED <<prev, tail>>
    BY <1>10 DEF GiveBack
  <2>2. TypeOK'
    BY <1>0, <2>1, EmptySeq DEF TypeOK
  <2>3. Linked' /\ Apart(list', stolen')
    <3>1. ASSUME NEW g \in ListHead
          PROVE  /\ g # h => list'[g] = list[g] /\ stolen'[g] = stolen[g]
                              /\ next'[g] = next[g] /\ saved'[g] = saved[g]
                 /\ list'[h] = stolen[h] /\ stolen'[h] = << >>
                 /\ next'[h] = saved[h] /\ saved'[h] = NULL
                 /\ \A x \in Elem : next'[x] = next[x] /\ prev'[x] = prev[x]
      BY <1>0, <2>1, LinkedListAssumption DEF TypeOK
    <3> QED
      BY <1>0, <2>1, <2>2, <3>1, SwapKeeps DEF TypeOK
  <2> QED
    BY <2>1, <2>2, <2>3 DEF IInv, TailInv, Idle
<1>11. CASE UNCHANGED vars
  BY <1>11 DEF IInv, TypeOK, Linked, Apart, TailInv, Idle, OnList, vars
<1> QED
  BY <1>1, <1>2, <1>3, <1>4, <1>5, <1>6, <1>7, <1>8, <1>9, <1>10, <1>11 DEF Next

LEMMA Invariant == Spec => []IInv
<1>1. IInv /\ [Next]_vars => IInv'
  BY StepIInv
<1> QED
  BY InitIInv, <1>1, PTL DEF Spec

\* The link fields keep their types.
THEOREM LinkTypes == Spec => []TypeOK
BY Invariant, PTL DEF IInv

\* However the LIST macros are interleaved, with heads copied away and put back
\* as the self tests do, the pointers of a list are the order its user believes
\* in, and le_prev is where the pointer to the element is.
THEOREM ListsLinked == Spec => []Linked
BY Invariant, PTL DEF IInv
=============================================================================
