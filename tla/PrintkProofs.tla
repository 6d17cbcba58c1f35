---------------------------- MODULE PrintkProofs ----------------------------
(***************************************************************************)
(* What lp_Print prints is what the format means, for every buffer size,   *)
(* word size, format and argument.                                         *)
(*                                                                         *)
(* The two sides are recursive functions over data, so most of this is     *)
(* induction, by the least element of a set of naturals (MeasureInduction) *)
(* and by well-founded definitions (Descends): FlattenSeq, the numbers     *)
(* from either end, the pieces of a format.  Then come the directive as    *)
(* lp_Print's loops read it (InFlags to InConvert), the pieces as they are *)
(* put out (Begun), and the actions.                                       *)
(***************************************************************************)
EXTENDS PrintFormat, SequenceTheorems, WellFoundedInduction, TLAPS

LEMMA LeastNat ==
  ASSUME NEW T, T \subseteq Nat, T # {}
  PROVE  \E n \in T : \A m \in T : n <= m
<1> DEFINE R == OpToRel(<, Nat)
<1>1. IsWellFoundedOn(R, Nat)
  BY NatLessThanWellFounded
<1>2. PICK n \in T : \A y \in T : ~(<<y, n>> \in R)
  <2> HIDE DEF R
  <2> QED BY <1>1, WFMin
<1>3. \A m \in T : n <= m
  <2> SUFFICES ASSUME NEW m \in T, ~(n <= m) PROVE FALSE
    OBVIOUS
  <2>1. m \in Nat /\ n \in Nat /\ m < n
    OBVIOUS
  <2>2. <<m, n>> \in R
    BY <2>1 DEF OpToRel
  <2> QED BY <2>2, <1>2
<1> QED BY <1>3

\* Induction on a measure, over the set of the points where a claim holds.
LEMMA MeasureInduction ==
  ASSUME NEW D, NEW mu \in [D -> Nat], NEW Good,
         \A d \in D : (\A e \in D : mu[e] < mu[d] => e \in Good) => d \in Good
  PROVE  \A d \in D : d \in Good
<1> SUFFICES ASSUME NEW x \in D, x \notin Good PROVE FALSE
  OBVIOUS
<1> DEFINE E == D \ Good
           T == {mu[d] : d \in E}
<1>1. \A d \in D : mu[d] \in Nat
  OBVIOUS
<1>2. T \subseteq Nat /\ T # {}
  <2>0. \A d \in E : mu[d] \in Nat
    BY <1>1
  <2>1. T \subseteq Nat
    <3> HIDE DEF E
    <3> QED BY <2>0
  <2>2. mu[x] \in T
    BY Zenon
  <2> QED BY <2>1, <2>2, Zenon
<1>3. PICK t \in T : \A s \in T : t <= s
  <2> HIDE DEF T
  <2> QED BY <1>2, LeastNat
<1>4. PICK d \in E : mu[d] = t
  BY Zenon
<1>5. \A e \in D : mu[e] < mu[d] => e \in Good
  <2> SUFFICES ASSUME NEW e \in D, mu[e] < mu[d], e \notin Good PROVE FALSE
    OBVIOUS
  <2>1. mu[e] \in T
    BY Zenon
  <2>2. mu[d] \in Nat /\ mu[e] \in Nat
    BY <1>1
  <2> DEFINE a == mu[d]
             b == mu[e]
  <2>3. a \in Nat /\ b \in Nat /\ b < a /\ a <= b
    BY <2>1, <2>2, <1>3, <1>4
  <2> HIDE DEF a, b, T, E
  <2> QED BY <2>3
<1> QED BY <1>4, <1>5, Zenon

\* What a recursive definition of one value from one other leans on: if the
\* measure falls from d to pre[d], there is a function that obeys every step,
\* and every function that obeys them has its values in S.
Descends(D, S, mu, B, base, pre, step) ==
  /\ S # {} /\ mu \in [D -> Nat] /\ B \in SUBSET D /\ base \in [B -> S]
  /\ pre \in [D \ B -> D] /\ step \in [D \ B -> [S -> S]]
  /\ \A d \in D \ B : mu[pre[d]] < mu[d]

LEMMA Recursion ==
  ASSUME NEW D, NEW S, NEW mu, NEW B, NEW base, NEW pre, NEW step,
         Descends(D, S, mu, B, base, pre, step)
  PROVE  \E g \in [D -> S] : \A d \in D : g[d] = IF d \in B THEN base[d] ELSE step[d][g[pre[d]]]
<1> USE DEF Descends
<1> PICK s0 \in S : TRUE
  OBVIOUS
<1> DEFINE H(d, g) == IF d \in B THEN base[d] ELSE step[d][g[pre[d]]]
<1>0. ASSUME NEW d \in D, NEW f \in [D -> S]
      PROVE  /\ H(d, f) \in S
             /\ \A g \in [D -> S] : (\A e \in D : mu[e] < mu[d] => f[e] = g[e]) => H(d, f) = H(d, g)
  <2>1. H(d, f) \in S
    OBVIOUS
  <2>2. ASSUME NEW g \in [D -> S], \A e \in D : mu[e] < mu[d] => f[e] = g[e]
        PROVE  H(d, f) = H(d, g)
    <3>1. d \notin B => f[pre[d]] = g[pre[d]]
      BY <2>2
    <3> QED BY <3>1
  <2> QED BY <2>1, <2>2
<1> HIDE DEF H
<1> DEFINE Upto(n, g) == \A d \in D : mu[d] < n => g[d] = H(d, g)
           Bad == {n \in Nat : ~\E g \in [D -> S] : Upto(n, g)}
<1>1. Bad = {}
  <2> SUFFICES ASSUME Bad # {} PROVE FALSE
    OBVIOUS
  <2>1. PICK n \in Bad : \A m \in Bad : n <= m
    <3> HIDE DEF Bad
    <3>1. Bad \subseteq Nat
      BY DEF Bad
    <3> QED BY <3>1, LeastNat
  <2>2. n \in Nat /\ \A g \in [D -> S] : ~Upto(n, g)
    OBVIOUS
  <2>3. n # 0
    <3>1. [d \in D |-> s0] \in [D -> S]
      OBVIOUS
    <3>2. \A d \in D : mu[d] \in Nat
      OBVIOUS
    <3>3. n = 0 => Upto(n, [d \in D |-> s0])
      BY <3>2
    <3> QED BY <3>1, <3>3, <2>2
  <2>4. n - 1 \in Nat /\ n - 1 \notin Bad
    <3> HIDE DEF Bad
    <3> QED BY <2>1, <2>2, <2>3
  <2>5. PICK g \in [D -> S] : Upto(n - 1, g)
    BY <2>4
  <2> DEFINE h == [d \in D |-> IF mu[d] = n - 1 THEN H(d, g) ELSE g[d]]
  <2>6. h \in [D -> S]
    BY <1>0
  <2>7. Upto(n, h)
    <3> SUFFICES ASSUME NEW d \in D, mu[d] < n PROVE h[d] = H(d, h)
      OBVIOUS
    <3>1. \A e \in D : mu[e] < mu[d] => g[e] = h[e]
      BY <2>2
    <3>2. H(d, g) = H(d, h)
      <4> HIDE DEF h, Bad, Upto
      <4>1. g \in [D -> S]
        OBVIOUS
      <4>2. (\A e \in D : mu[e] < mu[d] => g[e] = h[e]) => H(d, g) = H(d, h)
        BY <4>1, <2>6, <1>0, Zenon
      <4> QED BY <3>1, <4>2
    <3>3. mu[d] = n - 1 \/ mu[d] < n - 1
      <4>1. mu[d] \in Nat /\ n \in Nat
        BY <2>2
      <4> DEFINE a == mu[d]
      <4>2. a \in Nat /\ a < n
        BY <4>1
      <4>3. a = n - 1 \/ a < n - 1
        <5> HIDE DEF a, h, Bad, Upto
        <5> QED BY <4>1, <4>2
      <4> QED BY <4>3
    <3>4. CASE mu[d] = n - 1
      BY <3>2, <3>4
    <3>5. CASE mu[d] < n - 1
      <4>1. h[d] = g[d]
        BY <3>5, <2>2
      <4> QED BY <4>1, <3>5, <2>5, <3>2
    <3> QED BY <3>3, <3>4, <3>5
  <2> QED BY <2>2, <2>6, <2>7
<1>2. \A n \in Nat : \E g \in [D -> S] : Upto(n, g)
  BY <1>1
<1> DEFINE G == [n \in Nat |-> CHOOSE g \in [D -> S] : Upto(n, g)]
<1>3. \A n \in Nat : G[n] \in [D -> S] /\ Upto(n, G[n])
  BY <1>2
<1>4. ASSUME NEW m \in Nat, NEW n \in Nat, m <= n
      PROVE  \A d \in D : mu[d] < m => G[m][d] = G[n][d]
  <2> DEFINE T == {mu[d] : d \in {x \in D : mu[x] < m /\ G[m][x] # G[n][x]}}
  <2> SUFFICES ASSUME NEW x \in D, mu[x] < m, G[m][x] # G[n][x] PROVE FALSE
    OBVIOUS
  <2>0. T # {}
    <3>1. mu[x] \in T
      <4>1. x \in {y \in D : mu[y] < m /\ G[m][y] # G[n][y]}
        BY Zenon
      <4> QED BY <4>1, Zenon
    <3> QED BY <3>1
  <2>1. PICK t \in T : \A s \in T : t <= s
    <3>1. \A e \in D : mu[e] \in Nat
      OBVIOUS
    <3>2. T \subseteq Nat
      BY <3>1, Zenon
    <3> HIDE DEF T
    <3> QED BY <3>2, <2>0, LeastNat
  <2>2. PICK d \in D : mu[d] = t /\ mu[d] < m /\ G[m][d] # G[n][d]
    OBVIOUS
  <2>3. \A e \in D : mu[e] < mu[d] => G[m][e] = G[n][e]
    <3> SUFFICES ASSUME NEW e \in D, mu[e] < mu[d], G[m][e] # G[n][e] PROVE FALSE
      OBVIOUS
    <3>0. mu[d] \in Nat /\ mu[e] \in Nat
      OBVIOUS
    <3>1. mu[e] < m
      BY <2>2, <3>0
    <3>2. mu[e] \in T
      BY <3>1
    <3> HIDE DEF T
    <3> QED BY <3>2, <2>1, <2>2, <3>0
  <2> HIDE DEF G
  <2>4. H(d, G[m]) = H(d, G[n])
    BY <2>3, <1>3, <1>0
  <2>5. mu[d] < n
    BY <2>2, <1>4
  <2> QED BY <2>4, <2>5, <2>2, <1>3
<1> DEFINE g == [d \in D |-> G[mu[d] + 1][d]]
<1>5. g \in [D -> S]
  <2> HIDE DEF G
  <2> QED BY <1>3
<1>6. ASSUME NEW d \in D PROVE g[d] = H(d, g)
  <2> HIDE DEF G
  <2>0. mu[d] \in Nat /\ mu[d] + 1 \in Nat /\ mu[d] < mu[d] + 1
    OBVIOUS
  <2>1. \A e \in D : mu[e] < mu[d] => G[mu[d] + 1][e] = g[e]
    <3> SUFFICES ASSUME NEW e \in D, mu[e] < mu[d] PROVE G[mu[d] + 1][e] = g[e]
      OBVIOUS
    <3>1. mu[e] \in Nat /\ mu[e] + 1 \in Nat /\ mu[e] + 1 <= mu[d] + 1 /\ mu[e] < mu[e] + 1
      OBVIOUS
    <3>2. G[mu[e] + 1][e] = G[mu[d] + 1][e]
      BY <3>1, <2>0, <1>4
    <3> QED BY <3>2
  <2>2. G[mu[d] + 1] \in [D -> S] /\ G[mu[d] + 1][d] = H(d, G[mu[d] + 1])
    <3> PICK n \in Nat : n = mu[d] + 1
      BY <2>0
    <3>1. G[n] \in [D -> S] /\ Upto(n, G[n])
      BY <1>3
    <3> QED BY <3>1, <2>0
  <2>3. H(d, G[mu[d] + 1]) = H(d, g)
    <3> HIDE DEF g
    <3> QED BY <2>1, <2>2, <1>5, <1>0
  <2> QED BY <2>2, <2>3
<1> QED
  <2> HIDE DEF g
  <2> WITNESS g \in [D -> S]
  <2> QED BY <1>6 DEF H

-----------------------------------------------------------------------------
(* Sequences put together *)
Flat(s) == CHOOSE flatten : flatten = [i \in 1 .. Len(s) |-> IF i = 1 THEN s[i] ELSE flatten[i - 1] \o s[i]]

LEMMA FlatFunction ==
  ASSUME NEW S, NEW s \in Seq(Seq(S))
  PROVE  /\ Flat(s) \in [1 .. Len(s) -> Seq(S)]
         /\ \A i \in 1 .. Len(s) : Flat(s)[i] = IF i = 1 THEN s[i] ELSE Flat(s)[i - 1] \o s[i]
<1> DEFINE D == 1 .. Len(s)
           B == {i \in D : i = 1}
           mu == [i \in D |-> i]
           pre == [i \in D \ B |-> i - 1]
           base == [i \in B |-> s[i]]
           step == [i \in D \ B |-> [t \in Seq(S) |-> t \o s[i]]]
<1>0. \A i \in D : s[i] \in Seq(S)
  BY ElementOfSeq
<1>1. /\ << >> \in Seq(S) /\ mu \in [D -> Nat] /\ B \in SUBSET D /\ base \in [B -> Seq(S)]
      /\ pre \in [D \ B -> D] /\ \A i \in D \ B : mu[pre[i]] < mu[i]
  BY <1>0
<1>2. step \in [D \ B -> [Seq(S) -> Seq(S)]]
  BY <1>0, ConcatProperties
<1>3. PICK g \in [D -> Seq(S)] : \A i \in D : g[i] = IF i \in B THEN base[i] ELSE step[i][g[pre[i]]]
  <2> DEFINE V == Seq(S)
  <2>1. Descends(D, V, mu, B, base, pre, step)
    <3>1. V # {} /\ base \in [B -> V] /\ step \in [D \ B -> [V -> V]]
      BY <1>1, <1>2
    <3> HIDE DEF D, B, mu, pre, base, step, V
    <3> QED BY <3>1, <1>1 DEF Descends
  <2>2. \E g \in [D -> V] : \A i \in D : g[i] = IF i \in B THEN base[i] ELSE step[i][g[pre[i]]]
    <3> HIDE DEF D, B, mu, pre, base, step, V
    <3> QED BY <2>1, Recursion
  <2> QED BY <2>2
<1>4. g = [i \in D |-> IF i = 1 THEN s[i] ELSE g[i - 1] \o s[i]]
  <2>1. ASSUME NEW i \in D PROVE g[i] = IF i = 1 THEN s[i] ELSE g[i - 1] \o s[i]
    <3>1. i # 1 => i - 1 \in D
      OBVIOUS
    <3> QED BY <3>1, <1>3
  <2> HIDE DEF D
  <2> QED BY <2>1
<1>5. Flat(s) = [i \in D |-> IF i = 1 THEN s[i] ELSE Flat(s)[i - 1] \o s[i]]
  BY <1>4, Zenon DEF Flat
<1>6. \A i \in D : Flat(s)[i] = IF i = 1 THEN s[i] ELSE Flat(s)[i - 1] \o s[i]
  BY <1>5
<1>7. \A i \in D : Flat(s)[i] \in Seq(S)
  <2> DEFINE Good == {i \in D : Flat(s)[i] \in Seq(S)}
  <2>1. ASSUME NEW i \in D, \A j \in D : mu[j] < mu[i] => j \in Good
        PROVE  i \in Good
    <3>1. i # 1 => i - 1 \in D /\ mu[i - 1] < mu[i]
      OBVIOUS
    <3>2. i # 1 => Flat(s)[i - 1] \in Seq(S)
      BY <3>1, <2>1
    <3>3. Flat(s)[i] \in Seq(S)
      <4> HIDE DEF D
      <4> QED BY <1>0, <1>6, <3>2, ConcatProperties
    <3> QED BY <3>3
  <2>2. \A i \in D : i \in Good
    <3> HIDE DEF D, Good, mu
    <3> QED BY <1>1, <2>1, MeasureInduction
  <2> QED BY <2>2
<1>8. Flat(s) \in [D -> Seq(S)]
  <2> HIDE DEF D
  <2> QED BY <1>5, <1>7
<1> QED BY <1>6, <1>8

LEMMA FlattenIs ==
  ASSUME NEW S, NEW s \in Seq(Seq(S))
  PROVE  /\ FlattenSeq(s) = IF s = << >> THEN << >> ELSE Flat(s)[Len(s)]
         /\ FlattenSeq(s) \in Seq(S)
<1>1. FlattenSeq(s) = IF Len(s) = 0 THEN s ELSE Flat(s)[Len(s)]
  BY Zenon DEF FlattenSeq, Flat
<1>2. Len(s) = 0 <=> s = << >>
  BY EmptySeq
<1>3. << >> \in Seq(S)
  OBVIOUS
<1>4. s # << >> => Len(s) \in 1 .. Len(s)
  BY EmptySeq
<1>5. s # << >> => Flat(s)[Len(s)] \in Seq(S)
  BY <1>4, FlatFunction
<1> QED BY <1>1, <1>2, <1>3, <1>5

LEMMA SeqOfOne ==
  ASSUME NEW S, NEW x \in S
  PROVE  <<x>> \in Seq(S) /\ Len(<<x>>) = 1 /\ <<x>>[1] = x
  OBVIOUS

LEMMA OneMore ==
  ASSUME NEW S, NEW s \in Seq(S), NEW x \in S
  PROVE  /\ s \o <<x>> \in Seq(S) /\ Len(s \o <<x>>) = Len(s) + 1
         /\ \A i \in 1 .. Len(s) : (s \o <<x>>)[i] = s[i]
         /\ (s \o <<x>>)[Len(s) + 1] = x
<1>1. <<x>> \in Seq(S) /\ Len(<<x>>) = 1 /\ <<x>>[1] = x
  BY SeqOfOne
<1>2. Len(s) \in Nat
  OBVIOUS
<1>3. /\ s \o <<x>> \in Seq(S) /\ Len(s \o <<x>>) = Len(s) + 1
      /\ \A i \in 1 .. Len(s) + 1 : (s \o <<x>>)[i] = IF i <= Len(s) THEN s[i] ELSE <<x>>[i - Len(s)]
  BY <1>1, ConcatProperties
<1> QED BY <1>1, <1>2, <1>3

LEMMA FlattenAppend ==
  ASSUME NEW S, NEW s \in Seq(Seq(S)), NEW x \in Seq(S)
  PROVE  FlattenSeq(s \o <<x>>) = FlattenSeq(s) \o x
<1> DEFINE t == s \o <<x>>
           n == Len(s)
           V == Seq(S)
<1>1. /\ t \in Seq(V) /\ Len(t) = n + 1 /\ n \in Nat /\ s \in Seq(V)
      /\ \A i \in 1 .. n : t[i] = s[i]
      /\ t[n + 1] = x
  BY OneMore
<1>2. /\ Flat(s) \in [1 .. n -> V]
      /\ \A i \in 1 .. n : Flat(s)[i] = IF i = 1 THEN s[i] ELSE Flat(s)[i - 1] \o s[i]
  BY FlatFunction
<1>3. /\ Flat(t) \in [1 .. n + 1 -> V]
      /\ \A i \in 1 .. n + 1 : Flat(t)[i] = IF i = 1 THEN t[i] ELSE Flat(t)[i - 1] \o t[i]
  <2> HIDE DEF t, n
  <2> QED BY <1>1, FlatFunction
<1> HIDE DEF t, n, V
<1>4. \A i \in 1 .. n : Flat(t)[i] = Flat(s)[i]
  <2> DEFINE D == 1 .. n
             Good == {i \in D : Flat(t)[i] = Flat(s)[i]}
             mu == [i \in D |-> i]
  <2>1. ASSUME NEW i \in D, \A j \in D : mu[j] < mu[i] => j \in Good
        PROVE  i \in Good
    <3>1. i # 1 => i - 1 \in D /\ mu[i - 1] < mu[i]
      BY <1>1
    <3>2. i # 1 => Flat(t)[i - 1] = Flat(s)[i - 1]
      BY <3>1, <2>1
    <3>3. i \in 1 .. n + 1
      BY <1>1
    <3>4. Flat(t)[i] = Flat(s)[i]
      BY <3>2, <3>3, <1>1, <1>2, <1>3
    <3> QED BY <3>4
  <2>2. mu \in [D -> Nat]
    OBVIOUS
  <2>3. \A i \in D : i \in Good
    <3> HIDE DEF D, Good, mu
    <3> QED BY <2>1, <2>2, MeasureInduction
  <2> QED BY <2>3
<1>5. FlattenSeq(t) = Flat(t)[n + 1]
  <2>1. t # << >>
    BY <1>1
  <2> QED BY <1>1, <2>1, FlattenIs DEF V
<1>6. FlattenSeq(s) = IF s = << >> THEN << >> ELSE Flat(s)[n]
  BY FlattenIs DEF n
<1>7. CASE s = << >>
  <2>1. n = 0
    BY <1>7 DEF n
  <2>2. Flat(t)[1] = x
    BY <2>1, <1>1, <1>3
  <2>3. << >> \o x = x
    BY ConcatEmptySeq
  <2> QED BY <2>1, <2>2, <2>3, <1>5, <1>6, <1>7 DEF t
<1>8. CASE s # << >>
  <2>1. n \in 1 .. n /\ n + 1 # 1 /\ (n + 1) - 1 = n /\ n + 1 \in 1 .. n + 1
    BY <1>8, EmptySeq DEF n
  <2>2. Flat(t)[n + 1] = Flat(t)[n] \o x
    BY <2>1, <1>1, <1>3
  <2>3. Flat(t)[n] = Flat(s)[n]
    BY <2>1, <1>4
  <2> QED BY <2>2, <2>3, <1>5, <1>6, <1>8 DEF t
<1> QED BY <1>7, <1>8

LEMMA FlattenNone == FlattenSeq(<< >>) = << >>
  BY DEF FlattenSeq
LEMMA FlattenOne ==
  ASSUME NEW S, NEW x \in Seq(S)
  PROVE  FlattenSeq(<<x>>) = x
<1>1. << >> \in Seq(Seq(S)) /\ << >> \in Seq(S)
  OBVIOUS
<1>2. <<x>> \in Seq(Seq(S))
  BY SeqOfOne
<1>3. << >> \o <<x>> = <<x>>
  BY <1>2, ConcatEmptySeq
<1>4. FlattenSeq(<< >> \o <<x>>) = FlattenSeq(<< >>) \o x
  BY <1>1, FlattenAppend
<1>5. << >> \o x = x
  BY ConcatEmptySeq
<1> QED BY <1>3, <1>4, <1>5, FlattenNone

\* What is flattened up to i begins what is flattened up to a later k.
LEMMA FlatPrefix ==
  ASSUME NEW S, NEW s \in Seq(Seq(S)), NEW i \in 1 .. Len(s)
  PROVE  \A k \in i .. Len(s) : \E u \in Seq(S) : Flat(s)[k] = Flat(s)[i] \o u
<1> DEFINE V == Seq(S)
           D == i .. Len(s)
           Good == {k \in D : \E u \in V : Flat(s)[k] = Flat(s)[i] \o u}
           mu == [k \in D |-> k]
<1>1. /\ Flat(s) \in [1 .. Len(s) -> V]
      /\ \A k \in 1 .. Len(s) : Flat(s)[k] = IF k = 1 THEN s[k] ELSE Flat(s)[k - 1] \o s[k]
  BY FlatFunction
<1>2. Len(s) \in Nat /\ \A k \in 1 .. Len(s) : s[k] \in V
  BY ElementOfSeq
<1>3. mu \in [D -> Nat]
  BY <1>2
<1>4. ASSUME NEW k \in D, \A j \in D : mu[j] < mu[k] => j \in Good
      PROVE  k \in Good
  <2>0. k \in 1 .. Len(s)
    BY <1>2
  <2>1. CASE k = i
    <3>1. << >> \in V /\ Flat(s)[i] \o << >> = Flat(s)[i]
      BY <1>1, ConcatEmptySeq
    <3> QED BY <2>1, <3>1
  <2>2. CASE k # i
    <3>1. k - 1 \in D /\ mu[k - 1] < mu[k] /\ k # 1
      BY <2>2, <1>2
    <3>2. PICK u \in V : Flat(s)[k - 1] = Flat(s)[i] \o u
      BY <3>1, <1>4
    <3>3. Flat(s)[k] = (Flat(s)[i] \o u) \o s[k]
      BY <3>1, <3>2, <2>0, <1>1
    <3>4. (Flat(s)[i] \o u) \o s[k] = Flat(s)[i] \o (u \o s[k])
      <4>1. Flat(s)[i] \in V /\ s[k] \in V
        BY <1>1, <1>2, <2>0
      <4> DEFINE a == Flat(s)[i]
                 b == s[k]
      <4>2. (a \o u) \o b = a \o (u \o b)
        <5> HIDE DEF a, b, D, Good, mu
        <5>1. a \in Seq(S) /\ b \in Seq(S) /\ u \in Seq(S)
          BY <4>1 DEF a, b
        <5> QED BY <5>1, ConcatAssociative
      <4> QED BY <4>2
    <3>5. u \o s[k] \in V
      BY <2>0, <1>2, ConcatProperties
    <3> QED BY <3>3, <3>4, <3>5
  <2> QED BY <2>1, <2>2
<1>5. \A k \in D : k \in Good
  <2> HIDE DEF D, Good, mu
  <2> QED BY <1>3, <1>4, MeasureInduction
<1> QED BY <1>5

-----------------------------------------------------------------------------
(* Numbers and their digits *)
LEMMA DivMod ==
  ASSUME NEW n \in Nat, NEW b \in Nat \ {0}
  PROVE  n = (n \div b) * b + (n % b) /\ n % b \in 0 .. b - 1 /\ n \div b \in Nat
BY SMTT(30)

LEMMA DivModUnique ==
  ASSUME NEW b \in Nat \ {0}, NEW q \in Nat, NEW r \in 0 .. b - 1
  PROVE  (q * b + r) % b = r /\ (q * b + r) \div b = q
<1> DEFINE n == q * b + r
<1>1. n \in Nat
  BY Z3
<1>2. n = b * (n \div b) + (n % b) /\ n % b \in 0 .. b - 1 /\ n \div b \in Int
  BY <1>1, SMTT(30)
<1> QED
  BY <1>1, <1>2, SMTT(30)

LEMMA Times ==
  ASSUME NEW b \in Nat \ {0}, NEW j \in Nat, NEW k \in Nat
  PROVE  j * b \in Nat /\ (j + 1) * b = j * b + b /\ (j < k => j * b + b <= k * b)
         /\ (j <= k => j * b <= k * b)
<1>1. j * b \in Nat /\ k * b \in Nat /\ (j + 1) * b = j * b + b
  BY Z3
<1>2. ASSUME j < k PROVE (j + 1) * b <= k * b
  <2>1. k = (j + 1) + (k - (j + 1)) /\ k - (j + 1) \in Nat
    BY <1>2
  <2>2. k * b = (j + 1) * b + (k - (j + 1)) * b /\ (k - (j + 1)) * b \in Nat
    BY <2>1, Z3
  <2> QED
    BY <1>1, <2>2
<1>3. ASSUME j <= k PROVE j * b <= k * b
  BY <1>1, <1>2, <1>3
<1> QED BY <1>1, <1>2, <1>3

\* Dividing twice.
LEMMA DivDiv ==
  ASSUME NEW n \in Nat, NEW b \in Nat \ {0}, NEW p \in Nat \ {0}
  PROVE  p * b \in Nat \ {0} /\ n \div (p * b) = (n \div b) \div p
<1> DEFINE m == n \div b
           r == n % b
           q == m \div p
           s == m % p
           e == s * b + r
           pb == p * b
<1>1. n = m * b + r /\ r \in 0 .. b - 1 /\ m \in Nat
  BY DivMod
<1>2. m = q * p + s /\ s \in 0 .. p - 1 /\ q \in Nat
  <2> HIDE DEF m
  <2> QED BY <1>1, DivMod
<1>3. pb \in Nat \ {0}
  <2>1. pb \in Nat /\ (0 < p => 0 * b + b <= pb)
    <3> HIDE DEF pb
    <3>1. 0 \in Nat /\ p \in Nat /\ pb = p * b
      BY DEF pb
    <3> QED BY <3>1, Times
  <2> HIDE DEF pb
  <2>2. 0 * b = 0
    BY Z3
  <2> QED BY <2>1, <2>2
<1> HIDE DEF m, r, q, s
<1>4. e \in 0 .. pb - 1
  <2>1. s \in Nat /\ s < p /\ s * b \in Nat
    BY <1>2, Times
  <2>2. s * b + b <= pb
    BY <2>1, Times
  <2> DEFINE t == s * b
  <2>3. t \in Nat /\ t + b <= pb /\ e = t + r /\ pb \in Nat
    BY <1>3, <2>1, <2>2
  <2> HIDE DEF pb, e, t
  <2> QED BY <1>1, <2>3
<1>5. n = q * pb + e
  <2>1. (q * p + s) * b = q * (p * b) + s * b
    BY <1>2, Z3
  <2>2. n = (q * (p * b) + s * b) + r
    BY <1>1, <1>2, <2>1
  <2>3. q * (p * b) \in Nat /\ s * b \in Nat
    BY <1>2, <1>3, Z3
  <2> QED BY <1>1, <2>2, <2>3
<1>6. (q * pb + e) \div pb = q
  <2> HIDE DEF pb, e
  <2> QED BY <1>2, <1>3, <1>4, DivModUnique
<1> QED BY <1>3, <1>5, <1>6 DEF q, m

LEMMA PowerIs ==
  ASSUME NEW b \in Nat, b >= 2
  PROVE  /\ Power(b)[0] = 1
         /\ \A k \in Nat : Power(b)[k] \in Nat \ {0} /\ Power(b)[k + 1] = Power(b)[k] * b
<1> DEFINE D == Nat
           S == Nat \ {0}
           B == {0}
           mu == [k \in Nat |-> k]
           pre == [k \in D \ B |-> k - 1]
           base == [k \in B |-> 1]
           step == [k \in D \ B |-> [v \in S |-> b * v]]
<1>0. \A v \in S : b * v \in S /\ b * v = v * b
  <2> SUFFICES ASSUME NEW v \in S PROVE b * v \in S /\ b * v = v * b
    OBVIOUS
  <2>1. b * v = v * b /\ b \in Nat \ {0} /\ v \in Nat /\ 0 * b = 0
    BY Z3
  <2>2. v * b \in Nat /\ (0 < v => 0 * b + b <= v * b)
    BY <2>1, Times
  <2> QED BY <2>1, <2>2
<1>1. step \in [D \ B -> [S -> S]]
  BY <1>0
<1>2. Descends(D, S, mu, B, base, pre, step)
  <2>1. S # {}
    <3>1. 1 \in S
      OBVIOUS
    <3> QED BY <3>1
  <2>2. mu \in [D -> Nat] /\ B \in SUBSET D
    OBVIOUS
  <2>3. base \in [B -> S]
    OBVIOUS
  <2>4. pre \in [D \ B -> D]
    OBVIOUS
  <2>5. \A k \in D \ B : mu[pre[k]] < mu[k]
    OBVIOUS
  <2> HIDE DEF D, S, mu, B, base, pre, step
  <2> QED BY <1>1, <2>1, <2>2, <2>3, <2>4, <2>5 DEF Descends
<1>3. PICK g \in [D -> S] : \A k \in D : g[k] = IF k \in B THEN base[k] ELSE step[k][g[pre[k]]]
  <2> HIDE DEF D, S, mu, B, base, pre, step
  <2> QED BY <1>2, Recursion
<1>4. g = [k \in Nat |-> IF k = 0 THEN 1 ELSE b * g[k - 1]]
  <2>1. ASSUME NEW k \in Nat PROVE g[k] = IF k = 0 THEN 1 ELSE b * g[k - 1]
    <3>1. k # 0 => k - 1 \in Nat
      OBVIOUS
    <3> QED BY <3>1, <1>3
  <2> QED BY <2>1
<1> DEFINE f == Power(b)
<1>5. f = [k \in Nat |-> IF k = 0 THEN 1 ELSE b * f[k - 1]]
  BY <1>4, Zenon DEF Power
<1> HIDE DEF f
<1>6. f[0] = 1 /\ \A k \in Nat : f[k + 1] = b * f[k]
  <2>1. f[0] = 1
    BY <1>5
  <2>2. ASSUME NEW k \in Nat PROVE f[k + 1] = b * f[k]
    <3>1. k + 1 \in Nat /\ k + 1 # 0 /\ (k + 1) - 1 = k
      OBVIOUS
    <3> QED BY <3>1, <1>5
  <2> QED BY <2>1, <2>2
<1>7. \A k \in Nat : f[k] \in S
  <2> DEFINE Good == {k \in Nat : f[k] \in S}
  <2>1. ASSUME NEW k \in D, \A j \in D : mu[j] < mu[k] => j \in Good
        PROVE  k \in Good
    <3>1. CASE k = 0
      BY <3>1, <1>6
    <3>2. CASE k # 0
      <4>1. k - 1 \in Nat /\ mu[k - 1] < mu[k] /\ (k - 1) + 1 = k
        BY <3>2
      <4>2. f[k - 1] \in S
        BY <4>1, <2>1
      <4>3. f[k] = b * f[k - 1]
        BY <4>1, <1>6
      <4>4. f[k] \in S
        <5> HIDE DEF S
        <5> QED BY <4>2, <4>3, <1>0
      <4> QED BY <4>4
    <3> QED BY <3>1, <3>2
  <2>2. \A k \in D : k \in Good
    <3>1. mu \in [D -> Nat]
      OBVIOUS
    <3> HIDE DEF D, Good, mu
    <3> QED BY <3>1, <2>1, MeasureInduction
  <2> QED BY <2>2
<1> QED
  <2>1. ASSUME NEW k \in Nat PROVE f[k] \in Nat \ {0} /\ f[k + 1] = f[k] * b
    <3>1. f[k] \in S /\ f[k + 1] = b * f[k]
      BY <1>6, <1>7
    <3>2. b * f[k] = f[k] * b
      <4> HIDE DEF S
      <4> QED BY <3>1, <1>0
    <3> QED BY <3>1, <3>2
  <2> QED BY <2>1, <1>6 DEF f

LEMMA DivLess ==
  ASSUME NEW n \in Nat, NEW b \in Nat, b >= 2
  PROVE  /\ n \div b \in Nat /\ n % b \in 0 .. b - 1
         /\ n \div b # 0 => n \div b < n /\ b <= n
         /\ n \div b = 0 <=> n < b
<1> DEFINE q == n \div b
           r == n % b
           t == q * b
<1>0. b \in Nat \ {0}
  OBVIOUS
<1>1. n = t + r /\ r \in 0 .. b - 1 /\ q \in Nat
  BY <1>0, DivMod
<1>2. t \in Nat /\ (1 <= q => 1 * b <= t)
  <2> HIDE DEF q
  <2>1. 1 \in Nat
    OBVIOUS
  <2> QED BY <1>1, <2>1, Times
<1>3. 1 * b = b /\ (q = 0 => t = 0)
  BY <1>1, Z3
<1>4. q # 0 => q < t
  <2> HIDE DEF q
  <2>1. q * 2 <= q * b
    BY <1>1, Z3
  <2>2. q * 2 = q + q
    BY <1>1, Z3
  <2> HIDE DEF t
  <2> QED BY <1>1, <1>2, <2>1, <2>2 DEF t
<1> HIDE DEF q, r, t
<1>5. q \in Nat /\ r \in 0 .. b - 1 /\ (q # 0 => q < n /\ b <= n) /\ (q = 0 <=> n < b)
  BY <1>1, <1>2, <1>3, <1>4
<1> QED BY <1>5 DEF q, r

LEMMA RevDigitsStep ==
  ASSUME NEW b \in Nat, b >= 2, NEW C, NEW digits \in Seq(C), Len(digits) >= b, NEW n \in Nat
  PROVE  /\ RevDigits(n, b, digits) \in Seq(C) /\ digits[(n % b) + 1] \in C
         /\ RevDigits(n, b, digits) = IF n \div b = 0 THEN <<digits[(n % b) + 1]>>
                                      ELSE <<digits[(n % b) + 1]>> \o RevDigits(n \div b, b, digits)
<1> DEFINE D == Nat
           S == Seq(C)
           dig(m) == digits[(m % b) + 1]
           quo(m) == m \div b
           B == {m \in D : quo(m) = 0}
           mu == [m \in D |-> m]
           pre == [m \in D \ B |-> quo(m)]
           base == [m \in B |-> <<dig(m)>>]
           step == [m \in D \ B |-> [t \in S |-> <<dig(m)>> \o t]]
<1>1. \A m \in D : /\ quo(m) \in D /\ (quo(m) # 0 => quo(m) < m) /\ dig(m) \in C
  <2> SUFFICES ASSUME NEW m \in Nat PROVE quo(m) \in D /\ (quo(m) # 0 => quo(m) < m) /\ dig(m) \in C
    OBVIOUS
  <2>1. m \div b \in Nat /\ m % b \in 0 .. b - 1 /\ (m \div b # 0 => m \div b < m)
    BY DivLess
  <2>2. (m % b) + 1 \in 1 .. Len(digits)
    <3> DEFINE r == m % b
    <3>1. r \in 0 .. b - 1 /\ Len(digits) \in Nat
      BY <2>1
    <3>2. r + 1 \in 1 .. Len(digits)
      <4> HIDE DEF r
      <4> QED BY <3>1
    <3> QED BY <3>2
  <2>3. dig(m) \in C
    BY <2>2, ElementOfSeq
  <2> QED BY <2>1, <2>3
<1> HIDE DEF dig, quo
<1>2. \A m \in D : <<dig(m)>> \in S
  BY <1>1, SeqOfOne
<1>3. \A m \in D : \A t \in S : <<dig(m)>> \o t \in S
  BY <1>2, ConcatProperties
<1>4. Descends(D, S, mu, B, base, pre, step)
  <2>1. S # {} /\ base \in [B -> S]
    BY <1>2
  <2>2. mu \in [D -> Nat] /\ B \in SUBSET D
    OBVIOUS
  <2>3. step \in [D \ B -> [S -> S]]
    BY <1>3
  <2>4. pre \in [D \ B -> D] /\ \A m \in D \ B : mu[pre[m]] < mu[m]
    BY <1>1
  <2> HIDE DEF D, S, mu, B, base, pre, step
  <2> QED BY <2>1, <2>2, <2>3, <2>4 DEF Descends
<1>5. PICK g \in [D -> S] : \A m \in D : g[m] = IF m \in B THEN base[m] ELSE step[m][g[pre[m]]]
  <2> HIDE DEF D, S, mu, B, base, pre, step
  <2> QED BY <1>4, Recursion
<1>6. g = [m \in Nat |-> <<dig(m)>> \o (IF quo(m) = 0 THEN << >> ELSE g[quo(m)])]
  <2>1. ASSUME NEW m \in Nat PROVE g[m] = <<dig(m)>> \o (IF quo(m) = 0 THEN << >> ELSE g[quo(m)])
    <3>1. CASE quo(m) = 0
      <4>1. g[m] = <<dig(m)>>
        BY <1>5, <3>1
      <4>2. <<dig(m)>> \o << >> = <<dig(m)>>
        BY <1>2, ConcatEmptySeq
      <4> QED BY <3>1, <4>1, <4>2
    <3>2. CASE quo(m) # 0
      <4>1. quo(m) \in D /\ g[quo(m)] \in S
        BY <1>1
      <4> QED BY <1>5, <3>2, <4>1
    <3> QED BY <3>1, <3>2
  <2> QED BY <2>1
<1> DEFINE f == CHOOSE rest : rest = [m \in Nat |-> <<digits[(m % b) + 1]>>
                                       \o (IF m \div b = 0 THEN << >> ELSE rest[m \div b])]
<1>7. f = [m \in Nat |-> <<dig(m)>> \o (IF quo(m) = 0 THEN << >> ELSE f[quo(m)])]
  BY <1>6, Zenon DEF dig, quo
<1>8. \A m \in Nat : RevDigits(m, b, digits) = f[m]
  BY Zenon DEF RevDigits
<1> HIDE DEF f
<1>9. \A m \in Nat : f[m] = <<dig(m)>> \o (IF quo(m) = 0 THEN << >> ELSE f[quo(m)])
  BY <1>7
<1>10. \A m \in D : f[m] \in S
  <2> DEFINE Good == {m \in D : f[m] \in S}
  <2>1. ASSUME NEW m \in D, \A j \in D : mu[j] < mu[m] => j \in Good
        PROVE  m \in Good
    <3>1. quo(m) # 0 => f[quo(m)] \in S
      BY <1>1, <2>1
    <3>2. << >> \in S
      OBVIOUS
    <3>3. f[m] \in S
      BY <1>3, <1>9, <3>1, <3>2
    <3> QED BY <3>3
  <2>2. mu \in [D -> Nat]
    OBVIOUS
  <2>3. \A m \in D : m \in Good
    <3> HIDE DEF D, Good, mu
    <3> QED BY <2>1, <2>2, MeasureInduction
  <2> QED BY <2>3
<1>11. CASE quo(n) = 0
  <2>1. <<dig(n)>> \o << >> = <<dig(n)>>
    BY <1>2, ConcatEmptySeq
  <2> QED BY <1>11, <2>1, <1>1, <1>8, <1>9, <1>10 DEF dig, quo
<1>12. CASE quo(n) # 0
  <2>1. quo(n) \in Nat
    BY <1>1
  <2>2. f[n] = <<dig(n)>> \o f[quo(n)]
    BY <1>9, <1>12
  <2> QED BY <1>12, <2>1, <2>2, <1>1, <1>8, <1>10 DEF dig, quo
<1> QED BY <1>11, <1>12

\* What RevDigits's digits are: how many, and which.
Reversed(n, b, digits, R) ==
  /\ Len(R) \in 1 .. n + 1 /\ n < Power(b)[Len(R)]
  /\ Len(R) = 1 \/ Power(b)[Len(R) - 1] <= n
  /\ \A i \in 1 .. Len(R) : R[i] = digits[((n \div Power(b)[i - 1]) % b) + 1]

LEMMA RevDigitsAre ==
  ASSUME NEW b \in Nat, b >= 2, NEW C, NEW digits \in Seq(C), Len(digits) >= b
  PROVE  \A n \in Nat : Reversed(n, b, digits, RevDigits(n, b, digits))
<1> DEFINE D == Nat
           R(n) == RevDigits(n, b, digits)
           P == Power(b)
           Good == {n \in D : Reversed(n, b, digits, R(n))}
           mu == [n \in D |-> n]
<1>p. /\ P[0] = 1
      /\ \A k \in Nat : P[k] \in Nat \ {0} /\ P[k + 1] = P[k] * b
  BY PowerIs
<1>r. \A n \in Nat : /\ R(n) \in Seq(C) /\ digits[(n % b) + 1] \in C
                     /\ R(n) = IF n \div b = 0 THEN <<digits[(n % b) + 1]>>
                               ELSE <<digits[(n % b) + 1]>> \o R(n \div b)
  BY RevDigitsStep
<1> HIDE DEF R, P
<1>b. b \in Nat \ {0}
  OBVIOUS
<1>d. \A x \in Nat, p \in Nat \ {0} : (x \div (p * b)) = ((x \div b) \div p)
  BY <1>b, DivDiv
<1>0. P[1] = b
  <2>1. P[0 + 1] = P[0] * b
    BY <1>p
  <2>2. 1 * b = b /\ 0 + 1 = 1
    BY Z3
  <2>3. P[0] * b = 1 * b
    BY <1>p, Zenon
  <2> QED BY <2>1, <2>2, <2>3, Zenon
<1>1. ASSUME NEW n \in D, \A j \in D : mu[j] < mu[n] => j \in Good
      PROVE  n \in Good
  <2> DEFINE d == digits[(n % b) + 1]
             m == n \div b
  <2>1. m \in Nat /\ n % b \in 0 .. b - 1 /\ (m # 0 => m < n /\ b <= n) /\ (m = 0 <=> n < b)
    BY DivLess
  <2>2. n \div P[0] = n
    BY <1>p
  <2>3. CASE m = 0
    <3>1. R(n) = <<d>> /\ d \in C
      BY <1>r, <2>3
    <3>2. Len(R(n)) = 1 /\ R(n)[1] = d
      BY <3>1
    <3>3. n < P[1] /\ 1 \in 1 .. n + 1
      BY <1>0, <2>1, <2>3
    <3>4. \A i \in 1 .. Len(R(n)) : R(n)[i] = digits[((n \div P[i - 1]) % b) + 1]
      <4> SUFFICES ASSUME NEW i \in 1 .. Len(R(n)) PROVE R(n)[i] = digits[((n \div P[i - 1]) % b) + 1]
        OBVIOUS
      <4>1. i = 1 /\ i - 1 = 0
        BY <3>2
      <4> HIDE DEF m
      <4> QED BY <4>1, <3>2, <2>2
    <3>5. Reversed(n, b, digits, R(n))
      BY <3>2, <3>3, <3>4 DEF Reversed, P
    <3> QED BY <3>5
  <2>4. CASE m # 0
    <3> DEFINE l == Len(R(m))
    <3>1. Reversed(m, b, digits, R(m))
      BY <2>1, <2>4, <1>1
    <3>2. /\ l \in 1 .. m + 1 /\ m < P[l]
          /\ l = 1 \/ P[l - 1] <= m
          /\ \A i \in 1 .. l : R(m)[i] = digits[((m \div P[i - 1]) % b) + 1]
      BY <3>1 DEF Reversed, P
    <3>3. R(n) = <<d>> \o R(m) /\ R(m) \in Seq(C) /\ d \in C /\ R(n) \in Seq(C)
      BY <1>r, <2>1, <2>4
    <3>4. /\ Len(R(n)) = l + 1 /\ R(n)[1] = d
          /\ \A i \in 1 .. l : R(n)[i + 1] = R(m)[i]
      <4>1. <<d>> \in Seq(C) /\ Len(<<d>>) = 1 /\ <<d>>[1] = d
        BY <3>3, SeqOfOne
      <4> HIDE DEF d, m
      <4>2. /\ Len(<<d>> \o R(m)) = 1 + l
            /\ \A i \in 1 .. 1 + l : (<<d>> \o R(m))[i] = IF i <= 1 THEN <<d>>[i] ELSE R(m)[i - 1]
        BY <4>1, <3>3, ConcatProperties
      <4>3. l \in Nat
        BY <3>2, <2>1
      <4> HIDE DEF l
      <4>4. \A i \in 1 .. l : i + 1 \in 1 .. 1 + l /\ ~(i + 1 <= 1) /\ (i + 1) - 1 = i
        BY <4>3
      <4> QED BY <4>1, <4>2, <4>3, <4>4, <3>3
    <3>5. l + 1 \in 1 .. n + 1 /\ l \in Nat /\ l - 1 \in Nat
      <4> HIDE DEF m, l
      <4> QED BY <3>2, <2>1, <2>4
    <3>6. n < P[l + 1]
      <4> DEFINE pl == P[l]
                 r == n % b
                 mb == m * b
                 plb == pl * b
      <4>1. pl \in Nat /\ P[l + 1] = plb
        BY <1>p, <3>5
      <4>2. n = mb + r /\ r \in 0 .. b - 1
        BY <1>b, DivMod
      <4> HIDE DEF pl, m
      <4>3. mb + b <= plb /\ mb \in Nat /\ plb \in Nat
        BY <1>b, <4>1, <2>1, <3>2, Times DEF pl
      <4> HIDE DEF r, mb, plb
      <4>4. n < plb
        BY <4>2, <4>3
      <4> QED BY <4>1, <4>4
    <3>7. P[l] <= n
      <4>1. CASE l = 1
        BY <4>1, <1>0, <2>1, <2>4
      <4>2. CASE l # 1
        <5> DEFINE pl == P[l - 1]
                   mb == m * b
                   plb == pl * b
                   r == n % b
        <5>1. pl \in Nat /\ P[l] = plb /\ pl <= m
          <6>1. (l - 1) + 1 = l
            BY <3>5
          <6>2. P[(l - 1) + 1] = P[l - 1] * b /\ P[l - 1] \in Nat
            BY <1>p, <3>5
          <6> QED BY <6>1, <6>2, <3>2, <4>2
        <5>2. n = mb + r /\ r \in 0 .. b - 1
          BY <1>b, DivMod
        <5> HIDE DEF pl, m
        <5>3. plb <= mb /\ mb \in Nat /\ plb \in Nat
          BY <1>b, <5>1, <2>1, Times
        <5> HIDE DEF r, mb, plb
        <5>4. plb <= n
          BY <5>2, <5>3
        <5> QED BY <5>1, <5>4
      <4> QED BY <4>1, <4>2
    <3>8. ASSUME NEW i \in 1 .. l + 1 PROVE R(n)[i] = digits[((n \div P[i - 1]) % b) + 1]
      <4>1. CASE i = 1
        <5>1. i - 1 = 0
          BY <4>1
        <5> HIDE DEF m
        <5> QED BY <4>1, <5>1, <3>4, <2>2
      <4>2. CASE i # 1
        <5> DEFINE k == i - 1
        <5>1. k \in 1 .. l /\ k - 1 \in Nat /\ k + 1 = i /\ (k - 1) + 1 = k
          BY <4>2, <3>5
        <5>2. R(n)[i] = digits[((m \div P[k - 1]) % b) + 1]
          <6> HIDE DEF k, m, l
          <6>1. R(n)[k + 1] = R(m)[k]
            BY <5>1, <3>4
          <6>2. R(m)[k] = digits[((m \div P[k - 1]) % b) + 1]
            BY <5>1, <3>2
          <6> QED BY <6>1, <6>2, <5>1
        <5>3. P[k] = P[k - 1] * b /\ P[k - 1] \in Nat \ {0}
          <6> HIDE DEF k
          <6>1. P[(k - 1) + 1] = P[k - 1] * b /\ P[k - 1] \in Nat \ {0}
            BY <1>p, <5>1
          <6> QED BY <6>1, <5>1
        <5>4. n \div P[k] = m \div P[k - 1]
          <6>1. PICK p \in Nat \ {0} : p = P[k - 1]
            BY <5>3
          <6>2. n \in Nat
            OBVIOUS
          <6>3. n \div (p * b) = (n \div b) \div p
            <7> HIDE DEF D, Good, mu, k, l, d, m
            <7> QED BY <1>d, <6>2
          <6> QED BY <6>1, <6>3, <5>3
        <5> QED BY <5>2, <5>4
      <4> QED BY <4>1, <4>2
    <3>9. Reversed(n, b, digits, R(n))
      <4>1. l + 1 - 1 = l
        BY <3>5
      <4> HIDE DEF l, m
      <4> QED BY <4>1, <3>4, <3>5, <3>6, <3>7, <3>8 DEF Reversed, P
    <3> QED BY <3>9
  <2> QED BY <2>3, <2>4
<1>2. \A n \in D : n \in Good
  <2>1. mu \in [D -> Nat]
    OBVIOUS
  <2> HIDE DEF D, Good, mu
  <2> QED BY <2>1, <1>1, MeasureInduction
<1> QED BY <1>2 DEF R

LEMMA PowerMonotone ==
  ASSUME NEW b \in Nat, b >= 2, NEW j \in Nat
  PROVE  \A k \in Nat : j <= k => Power(b)[j] <= Power(b)[k]
<1> DEFINE D == Nat
           P == Power(b)
           Good == {k \in D : j <= k => P[j] <= P[k]}
           mu == [k \in D |-> k]
<1>p. \A k \in Nat : P[k] \in Nat \ {0} /\ P[k + 1] = P[k] * b
  BY PowerIs
<1>b. b \in Nat \ {0}
  OBVIOUS
<1> HIDE DEF P
<1>1. ASSUME NEW k \in D, \A i \in D : mu[i] < mu[k] => i \in Good
      PROVE  k \in Good
  <2>1. CASE k <= j
    <3>1. P[j] \in Nat /\ (j <= k => j = k)
      BY <1>p, <2>1
    <3> QED BY <3>1
  <2>2. CASE ~(k <= j)
    <3>1. k - 1 \in D /\ mu[k - 1] < mu[k] /\ (k - 1) + 1 = k /\ j <= k - 1
      BY <2>2
    <3>2. P[j] <= P[k - 1]
      BY <3>1, <1>1
    <3>3. P[k] = P[k - 1] * b /\ P[k - 1] \in Nat \ {0}
      <4>1. P[(k - 1) + 1] = P[k - 1] * b /\ P[k - 1] \in Nat \ {0}
        BY <3>1, <1>p
      <4> QED BY <4>1, <3>1
    <3>4. P[k - 1] <= P[k]
      <4> DEFINE x == P[k - 1]
                 y == P[k]
      <4>1. x \in Nat /\ x >= 1 /\ y = x * b
        BY <3>3
      <4> HIDE DEF x, y
      <4>2. x * b >= x
        BY <4>1, Z3
      <4>3. x <= y
        BY <4>1, <4>2
      <4> QED BY <4>3 DEF x, y
    <3>5. P[j] \in Nat /\ P[k] \in Nat /\ P[k - 1] \in Nat
      BY <1>p, <3>1
    <3>6. P[j] <= P[k]
      BY <3>2, <3>4, <3>5
    <3> QED BY <3>6
  <2> QED BY <2>1, <2>2
<1>2. \A k \in D : k \in Good
  <2>1. mu \in [D -> Nat]
    OBVIOUS
  <2> HIDE DEF D, Good, mu
  <2> QED BY <2>1, <1>1, MeasureInduction
<1> QED BY <1>2 DEF P

LEMMA ReverseIs ==
  ASSUME NEW S, NEW s \in Seq(S)
  PROVE  /\ Reverse(s) \in Seq(S) /\ Len(Reverse(s)) = Len(s)
         /\ \A i \in 1 .. Len(s) : Reverse(s)[i] = s[(Len(s) - i) + 1]
<1> DEFINE n == Len(s)
           t == [i \in 1 .. n |-> s[(n - i) + 1]]
<1>1. n \in Nat /\ \A i \in 1 .. n : s[i] \in S
  BY ElementOfSeq
<1>2. \A i \in 1 .. n : (n - i) + 1 \in 1 .. n
  BY <1>1
<1>3. \A i \in 1 .. n : s[(n - i) + 1] \in S
  <2> HIDE DEF n
  <2> QED BY <1>1, <1>2
<1>4. t \in [1 .. n -> S]
  <2> HIDE DEF n
  <2> QED BY <1>3
<1>5. t \in Seq(S) /\ Len(t) = n
  <2> HIDE DEF t, n
  <2>1. t \in UNION {[1 .. m -> S] : m \in Nat}
    BY <1>1, <1>4
  <2>2. t \in Seq(S)
    BY <2>1, SeqDef
  <2>3. DOMAIN t = 1 .. n /\ DOMAIN t = 1 .. Len(t) /\ Len(t) \in Nat
    BY <1>4, <2>2, LenProperties
  <2> QED BY <1>1, <2>2, <2>3
<1>6. Reverse(s) = t
  BY DEF Reverse
<1> QED BY <1>5, <1>6

\* RevDigits leaves the positional numeral, last digit first.
LEMMA NumeralIs ==
  ASSUME NEW b \in Nat, b >= 2, NEW C, NEW digits \in Seq(C), Len(digits) >= b, NEW n \in Nat
  PROVE  LET R == RevDigits(n, b, digits) IN
         /\ Numeral(n, b, digits) = Reverse(R) /\ R \in Seq(C)
         /\ Numeral(n, b, digits) \in Seq(C) /\ Len(Numeral(n, b, digits)) = Len(R)
         /\ Len(R) \in Nat \ {0} /\ n < Power(b)[Len(R)]
<1> DEFINE R == RevDigits(n, b, digits)
           P == Power(b)
           L == Len(R)
           Fits(k) == n < P[k] /\ (k = 1 \/ P[k - 1] <= n)
           len == CHOOSE k \in 1 .. n + 1 : Fits(k)
<1>1. /\ L \in 1 .. n + 1 /\ n < P[L]
      /\ L = 1 \/ P[L - 1] <= n
      /\ \A i \in 1 .. L : R[i] = digits[((n \div P[i - 1]) % b) + 1]
  BY RevDigitsAre DEF Reversed
<1>2. R \in Seq(C)
  BY RevDigitsStep
<1>3. Reverse(R) \in Seq(C) /\ Len(Reverse(R)) = L /\ \A i \in 1 .. L : Reverse(R)[i] = R[(L - i) + 1]
  BY <1>2, ReverseIs
<1>4. \A k \in Nat : P[k] \in Nat /\ \A j \in Nat : j <= k => P[j] <= P[k]
  BY PowerIs, PowerMonotone
<1> HIDE DEF P, R, L
<1>5. \A k \in 1 .. n + 1 : Fits(k) => k = L
  <2> SUFFICES ASSUME NEW k \in 1 .. n + 1, Fits(k), k # L PROVE FALSE
    OBVIOUS
  <2>1. CASE k < L
    <3>1. L # 1 /\ L - 1 \in Nat /\ k \in Nat /\ k <= L - 1
      BY <2>1, <1>1
    <3>2. P[k] <= P[L - 1] /\ P[L - 1] <= n /\ n < P[k] /\ P[k] \in Nat /\ P[L - 1] \in Nat
      BY <3>1, <1>1, <1>4
    <3> QED BY <3>2
  <2>2. CASE L < k
    <3>1. k # 1 /\ k - 1 \in Nat /\ L \in Nat /\ L <= k - 1
      BY <2>2, <1>1
    <3>2. P[L] <= P[k - 1] /\ P[k - 1] <= n /\ n < P[L] /\ P[L] \in Nat /\ P[k - 1] \in Nat
      BY <3>1, <1>1, <1>4
    <3> QED BY <3>2
  <2> QED BY <2>1, <2>2, <1>1
<1>6. len = L
  <2>1. Fits(L)
    BY <1>1
  <2> HIDE DEF Fits
  <2> QED BY <2>1, <1>1, <1>5
<1>7. Numeral(n, b, digits) = [j \in 1 .. len |-> digits[((n \div P[len - j]) % b) + 1]]
  BY Zenon DEF Numeral, P
<1> HIDE DEF len
<1>8. ASSUME NEW j \in 1 .. L PROVE digits[((n \div P[L - j]) % b) + 1] = Reverse(R)[j]
  <2> DEFINE i == (L - j) + 1
  <2>1. i \in 1 .. L /\ i - 1 = L - j
    BY <1>1
  <2>2. Reverse(R)[j] = R[i]
    BY <1>3
  <2>3. R[i] = digits[((n \div P[i - 1]) % b) + 1]
    <3> HIDE DEF i
    <3> QED BY <2>1, <1>1
  <2> HIDE DEF i
  <2> QED BY <2>1, <2>2, <2>3
<1>9. Reverse(R) = [j \in 1 .. L |-> Reverse(R)[j]]
  <2>1. DOMAIN Reverse(R) = 1 .. L /\ Reverse(R) \in [1 .. L -> C]
    BY <1>3, LenProperties
  <2> QED BY <2>1
<1>10. Numeral(n, b, digits) = Reverse(R)
  BY <1>6, <1>7, <1>8, <1>9
<1>11. L \in Nat \ {0}
  BY <1>1
<1> QED BY <1>1, <1>2, <1>3, <1>10, <1>11 DEF R, L, P

LEMMA ReverseConcat ==
  ASSUME NEW S, NEW s \in Seq(S), NEW t \in Seq(S)
  PROVE  Reverse(s \o t) = Reverse(t) \o Reverse(s)
<1> DEFINE n == Len(s)
           m == Len(t)
           u == s \o t
           a == Reverse(s)
           b == Reverse(t)
           l == Reverse(u)
           r == b \o a
<1>1. n \in Nat /\ m \in Nat
  OBVIOUS
<1>2. /\ u \in Seq(S) /\ Len(u) = n + m
      /\ \A i \in 1 .. n + m : u[i] = IF i <= n THEN s[i] ELSE t[i - n]
  BY ConcatProperties
<1> HIDE DEF u
<1>3. /\ a \in Seq(S) /\ Len(a) = n
      /\ \A i \in 1 .. n : a[i] = s[(n - i) + 1]
  BY ReverseIs
<1>4. /\ b \in Seq(S) /\ Len(b) = m
      /\ \A i \in 1 .. m : b[i] = t[(m - i) + 1]
  BY ReverseIs
<1> HIDE DEF a, b
<1>5. /\ l \in Seq(S) /\ Len(l) = n + m
      /\ \A i \in 1 .. n + m : l[i] = u[((n + m) - i) + 1]
  <2>1. /\ l \in Seq(S) /\ Len(l) = Len(u)
        /\ \A i \in 1 .. Len(u) : l[i] = u[(Len(u) - i) + 1]
    BY <1>2, ReverseIs
  <2> HIDE DEF l, n, m
  <2> QED BY <1>2, <2>1
<1>6. /\ r \in Seq(S) /\ Len(r) = m + n
      /\ \A i \in 1 .. m + n : r[i] = IF i <= m THEN b[i] ELSE a[i - m]
  <2>1. /\ r \in Seq(S) /\ Len(r) = Len(b) + Len(a)
        /\ \A i \in 1 .. Len(b) + Len(a) : r[i] = IF i <= Len(b) THEN b[i] ELSE a[i - Len(b)]
    <3>1. a \in Seq(S) /\ b \in Seq(S)
      BY <1>3, <1>4
    <3> HIDE DEF n, m, l
    <3> QED BY <3>1, ConcatProperties
  <2> HIDE DEF r, n, m
  <2> QED BY <1>3, <1>4, <2>1
<1> HIDE DEF l, r, n, m
<1>7. ASSUME NEW i \in 1 .. n + m PROVE l[i] = r[i]
  <2>1. CASE i <= m
    <3>1. i \in 1 .. m /\ i \in 1 .. m + n /\ ((n + m) - i) + 1 \in 1 .. n + m
          /\ ~(((n + m) - i) + 1 <= n) /\ (((n + m) - i) + 1) - n = (m - i) + 1
      BY <1>1, <2>1
    <3>2. l[i] = t[(m - i) + 1]
      BY <3>1, <1>2, <1>5
    <3>3. r[i] = t[(m - i) + 1]
      BY <3>1, <2>1, <1>4, <1>6
    <3> QED BY <3>2, <3>3
  <2>2. CASE ~(i <= m)
    <3>1. i - m \in 1 .. n /\ i \in 1 .. m + n /\ ((n + m) - i) + 1 \in 1 .. n + m
          /\ ((n + m) - i) + 1 <= n /\ (n - (i - m)) + 1 = ((n + m) - i) + 1
      BY <1>1, <2>2
    <3>2. l[i] = s[((n + m) - i) + 1]
      BY <3>1, <1>2, <1>5
    <3>3. r[i] = s[(n - (i - m)) + 1]
      BY <3>1, <2>2, <1>3, <1>6
    <3> QED BY <3>1, <3>2, <3>3
  <2> QED BY <2>1, <2>2
<1>8. Len(l) = Len(r)
  BY <1>1, <1>5, <1>6
<1>9. l = r
  BY <1>5, <1>6, <1>7, <1>8, SeqEqual
<1> QED BY <1>9 DEF l, r, u, a, b

LEMMA CharsAre ==
  ASSUME NEW n \in Int, NEW S, NEW x \in S
  PROVE  /\ Chars(n, x) \in Seq(S) /\ Len(Chars(n, x)) = IF n > 0 THEN n ELSE 0
         /\ \A i \in 1 .. n : Chars(n, x)[i] = x
         /\ n <= 0 => Chars(n, x) = << >>
         /\ Reverse(Chars(n, x)) = Chars(n, x)
<1> DEFINE m == IF n > 0 THEN n ELSE 0
           t == [i \in 1 .. m |-> x]
<1>1. m \in Nat /\ 1 .. m = 1 .. n
  OBVIOUS
<1>2. Chars(n, x) = t
  BY <1>1 DEF Chars
<1>3. t \in [1 .. m -> S]
  OBVIOUS
<1>4. t \in Seq(S) /\ Len(t) = m
  <2> HIDE DEF t, m
  <2>1. t \in UNION {[1 .. k -> S] : k \in Nat}
    BY <1>1, <1>3
  <2>2. t \in Seq(S)
    BY <2>1, SeqDef
  <2>3. DOMAIN t = 1 .. m /\ DOMAIN t = 1 .. Len(t) /\ Len(t) \in Nat
    BY <1>3, <2>2, LenProperties
  <2> QED BY <1>1, <2>2, <2>3
<1>5. \A i \in 1 .. n : t[i] = x
  OBVIOUS
<1>6. n <= 0 => t = << >>
  <2>1. n <= 0 => Len(t) = 0
    BY <1>4
  <2> HIDE DEF t
  <2> QED BY <1>4, <2>1, EmptySeq
<1>7. Reverse(t) = t
  <2> HIDE DEF t, m
  <2>1. /\ Reverse(t) \in Seq(S) /\ Len(Reverse(t)) = m
        /\ \A i \in 1 .. m : Reverse(t)[i] = t[(m - i) + 1]
    BY <1>4, ReverseIs
  <2>2. \A i \in 1 .. m : (m - i) + 1 \in 1 .. m
    BY <1>1
  <2>3. \A i \in 1 .. m : Reverse(t)[i] = t[i]
    BY <1>1, <1>5, <2>1, <2>2
  <2> QED BY <1>4, <2>1, <2>3, SeqEqual
<1> HIDE DEF t
<1> QED BY <1>2, <1>4, <1>5, <1>6, <1>7

LEMMA ReverseOne ==
  ASSUME NEW S, NEW x \in S
  PROVE  Reverse(<<x>>) = <<x>> /\ Reverse(<< >>) = << >>
<1>0. <<x>> \in Seq(S) /\ Len(<<x>>) = 1
  BY SeqOfOne
<1>1. /\ Reverse(<<x>>) \in Seq(S) /\ Len(Reverse(<<x>>)) = 1
      /\ \A i \in 1 .. 1 : Reverse(<<x>>)[i] = <<x>>[(1 - i) + 1]
  <2> DEFINE y == <<x>>
  <2> HIDE DEF y
  <2>1. /\ Reverse(y) \in Seq(S) /\ Len(Reverse(y)) = Len(y)
        /\ \A i \in 1 .. Len(y) : Reverse(y)[i] = y[(Len(y) - i) + 1]
    BY <1>0, ReverseIs DEF y
  <2> QED BY <2>1, <1>0 DEF y
<1>2. Reverse(<<x>>) = <<x>>
  <2>1. \A i \in 1 .. 1 : (1 - i) + 1 = i
    OBVIOUS
  <2>2. Reverse(<<x>>)[1] = <<x>>[1]
    BY <1>1, <2>1
  <2>3. \A i \in 1 .. 1 : Reverse(<<x>>)[i] = <<x>>[i]
    BY <2>2
  <2> QED BY <1>1, <2>3, SeqOfOne, SeqEqual
<1>3. << >> \in Seq(S) /\ Len(<< >>) = 0
  OBVIOUS
<1>4. Reverse(<< >>) \in Seq(S) /\ Len(Reverse(<< >>)) = 0
  BY <1>3, ReverseIs
<1>5. Reverse(<< >>) = << >>
  BY <1>4, EmptySeq
<1> QED BY <1>2, <1>5

-----------------------------------------------------------------------------
(* The helpers print what a directive's field is *)
LEMMA CharsOfCode ==
  /\ "-" \in Char /\ " " \in Char /\ "\n" \in Char /\ NUL \in Char /\ "FATAL" \in Char
  BY CharAssumption, Zenon

LEMMA DigitsOfCode ==
  /\ Upper \in Seq(Char) /\ Len(Upper) = 16 /\ Lower \in Seq(Char) /\ Len(Lower) = 16
  /\ Digits \in Seq(Char) /\ Len(Digits) = 10
  /\ \A i \in 1 .. 10 : Lower[i] = Digits[i] /\ Upper[i] = Digits[i]
<1> DEFINE S == {"0", "1", "2", "3", "4", "5", "6", "7", "8", "9", "A", "B", "C", "D", "E", "F",
                 "a", "b", "c", "d", "e", "f"}
           U == <<"A", "B", "C", "D", "E", "F">>
           L == <<"a", "b", "c", "d", "e", "f">>
<1>1. Digits \in Seq(S) /\ Len(Digits) = 10
  BY DEF Digits
<1>2. U \in Seq(S) /\ Len(U) = 6
  OBVIOUS
<1>3. L \in Seq(S) /\ Len(L) = 6
  OBVIOUS
<1> HIDE DEF S, U, L
<1>4. /\ Upper \in Seq(S) /\ Len(Upper) = 10 + 6
      /\ \A i \in 1 .. 10 + 6 : Upper[i] = IF i <= 10 THEN Digits[i] ELSE U[i - 10]
  <2>1. Upper = Digits \o U
    BY DEF Upper, U
  <2> DEFINE V == Digits \o U
  <2>2. /\ V \in Seq(S) /\ Len(V) = Len(Digits) + Len(U)
        /\ \A i \in 1 .. Len(Digits) + Len(U) : V[i] = IF i <= Len(Digits) THEN Digits[i] ELSE U[i - Len(Digits)]
    BY <1>1, <1>2, ConcatProperties
  <2> HIDE DEF V
  <2>3. Upper = V
    BY <2>1 DEF V
  <2> QED BY <1>1, <1>2, <2>2, <2>3
<1>5. /\ Lower \in Seq(S) /\ Len(Lower) = 10 + 6
      /\ \A i \in 1 .. 10 + 6 : Lower[i] = IF i <= 10 THEN Digits[i] ELSE L[i - 10]
  <2>1. Lower = Digits \o L
    BY DEF Lower, L
  <2> DEFINE V == Digits \o L
  <2>2. /\ V \in Seq(S) /\ Len(V) = Len(Digits) + Len(L)
        /\ \A i \in 1 .. Len(Digits) + Len(L) : V[i] = IF i <= Len(Digits) THEN Digits[i] ELSE L[i - Len(Digits)]
    BY <1>1, <1>3, ConcatProperties
  <2> HIDE DEF V
  <2>3. Lower = V
    BY <2>1 DEF V
  <2> QED BY <1>1, <1>3, <2>2, <2>3
<1>6. Upper \in Seq(Char) /\ Lower \in Seq(Char)
  <2>1. Upper \in Seq(Range(Upper)) /\ Lower \in Seq(Range(Lower))
    BY <1>4, <1>5, SeqOfRange
  <2>2. Range(Upper) \subseteq Char /\ Range(Lower) \subseteq Char
    BY CharAssumption, Zenon
  <2> QED BY <2>1, <2>2, SeqMonotonic
<1>7. \A i \in 1 .. 10 : Lower[i] = Digits[i] /\ Upper[i] = Digits[i]
  BY <1>4, <1>5
<1>8. Digits \in Seq(Char)
  <2>1. \A i \in 1 .. 10 : Digits[i] \in Char
    <3>1. \A i \in 1 .. 10 : i \in 1 .. Len(Upper)
      BY <1>4
    <3>2. \A i \in 1 .. 10 : Upper[i] \in Char
      BY <3>1, <1>6, ElementOfSeq
    <3> QED BY <3>2, <1>7
  <2>2. Digits \in [1 .. 10 -> Char]
    <3>1. DOMAIN Digits = 1 .. 10 /\ Digits \in [1 .. 10 -> S]
      BY <1>1, LenProperties
    <3> QED BY <2>1, <3>1
  <2>3. 10 \in Nat
    OBVIOUS
  <2>4. Digits \in UNION {[1 .. n -> Char] : n \in Nat}
    BY <2>2, <2>3
  <2> QED BY <2>4, SeqDef
<1> QED BY <1>1, <1>4, <1>5, <1>6, <1>7, <1>8

LEMMA ZeroChar == "0" \in Char
<1>1. Digits[1] \in Char
  BY DigitsOfCode, ElementOfSeq
<1>2. Digits[1] = "0"
  BY DEF Digits
<1> QED BY <1>1, <1>2

LEMMA Sign ==
  ASSUME NEW neg \in BOOLEAN
  PROVE  LET sgn == IF neg THEN <<"-">> ELSE << >> IN
         sgn \in Seq(Char) /\ Reverse(sgn) = sgn /\ Len(sgn) \in Nat
<1>1. <<"-">> \in Seq(Char) /\ Reverse(<<"-">>) = <<"-">> /\ Reverse(<< >>) = << >>
  <2>1. "-" \in Char
    BY CharsOfCode
  <2> QED BY <2>1, SeqOfOne, ReverseOne
<1>2. << >> \in Seq(Char)
  OBVIOUS
<1> DEFINE sgn == IF neg THEN <<"-">> ELSE << >>
<1>3. sgn \in Seq(Char) /\ Reverse(sgn) = sgn
  BY <1>1, <1>2, Zenon
<1>4. Len(sgn) \in Nat
  <2> HIDE DEF sgn
  <2> QED BY <1>3, LenProperties
<1> QED BY <1>3, <1>4

LEMMA Joined ==
  ASSUME NEW S, NEW s \in Seq(S), NEW t \in Seq(S)
  PROVE  s \o t \in Seq(S) /\ Len(s \o t) = Len(s) + Len(t) /\ Len(s) \in Nat /\ Len(t) \in Nat
BY ConcatProperties

LEMMA Associate ==
  \A x, y, z \in Seq(Char) : (x \o y) \o z = x \o (y \o z)
BY ConcatAssociative

LEMMA Pad ==
  ASSUME NEW w \in Int, NEW n \in Nat, NEW x \in Char
  PROVE  LET p == Chars(LONGER(w, n) - n, x) IN
         /\ p = Chars(w - n, x) /\ p \in Seq(Char) /\ Reverse(p) = p
         /\ w <= n => p = << >>
         /\ Len(p) = IF w > n THEN w - n ELSE 0
<1> DEFINE k == LONGER(w, n) - n
           m == w - n
<1>1. k = (IF w > n THEN w - n ELSE 0) /\ k \in Int /\ m \in Int
  BY DEF LONGER
<1>2. 1 .. k = 1 .. m
  BY <1>1
<1>3. Chars(k, x) = Chars(m, x)
  <2> HIDE DEF k, m
  <2> QED BY <1>2 DEF Chars
<1>4. /\ Chars(k, x) \in Seq(Char) /\ Len(Chars(k, x)) = IF k > 0 THEN k ELSE 0
      /\ k <= 0 => Chars(k, x) = << >>
      /\ Reverse(Chars(k, x)) = Chars(k, x)
  <2> HIDE DEF k
  <2> QED BY <1>1, CharsAre
<1>5. w <= n => k <= 0
  BY <1>1
<1>6. (IF k > 0 THEN k ELSE 0) = IF w > n THEN w - n ELSE 0
  BY <1>1
<1> HIDE DEF k, m
<1> QED BY <1>3, <1>4, <1>5, <1>6 DEF k, m

LEMMA PrintStringIs ==
  ASSUME NEW d, d.width \in Nat, d.left \in BOOLEAN, NEW s \in Seq(Char)
  PROVE  PrintString(s, d.width, d.left) = Field(d, s)
<1>1. Len(s) \in Nat /\ d.width \in Int
  OBVIOUS
<1>2. Chars(LONGER(d.width, Len(s)) - Len(s), " ") = Chars(d.width - Len(s), " ")
  BY <1>1, CharsOfCode, Pad
<1> QED BY <1>2 DEF PrintString, Field

LEMMA PrintCharIs ==
  ASSUME NEW d, d.width \in Nat, d.left \in BOOLEAN, NEW x \in Char
  PROVE  PrintChar(x, d.width, d.left) = Field(d, <<x>>)
<1>1. Len(<<x>>) = 1 /\ 1 \in Nat /\ d.width \in Int
  OBVIOUS
<1>2. Chars(LONGER(d.width, 1) - 1, " ") = Chars(d.width - 1, " ")
  BY <1>1, CharsOfCode, Pad
<1> QED BY <1>1, <1>2 DEF PrintChar, Field

\* A directive, and what it and the sign make of padc and the number's front.
DirOk(d)    == d.width \in Nat /\ d.left \in BOOLEAN /\ d.zeros \in BOOLEAN
PadChar(d)  == IF d.zeros THEN "0" ELSE " "
Minus(neg)  == IF neg THEN <<"-">> ELSE << >>

LEMMA PrintNumIs ==
  ASSUME NEW d, DirOk(d), NEW neg \in BOOLEAN, NEW b \in Nat, b >= 2,
         NEW digits \in Seq(Char), Len(digits) >= b, NEW u \in Nat
  PROVE  PrintNum(u, b, neg, d.width, d.left, PadChar(d), digits) = NumField(d, Minus(neg), Numeral(u, b, digits))
<1>d. d.width \in Nat /\ d.left \in BOOLEAN /\ d.zeros \in BOOLEAN
  BY DEF DirOk
<1> USE <1>d
<1> SUFFICES PrintNum(u, b, neg, d.width, d.left, IF d.zeros THEN "0" ELSE " ", digits)
               = NumField(d, IF neg THEN <<"-">> ELSE << >>, Numeral(u, b, digits))
  BY Zenon DEF PadChar, Minus
<1> DEFINE w == d.width
           padc == IF d.zeros THEN "0" ELSE " "
           num == RevDigits(u, b, digits)
           N == Numeral(u, b, digits)
           sgn == IF neg THEN <<"-">> ELSE << >>
           actual == num \o sgn
           fill == LONGER(w, Len(actual)) - Len(actual)
           pad == Chars(fill, IF d.left THEN " " ELSE padc)
           body == sgn \o N
           zeros == Chars(w - Len(body), "0")
           blanks == Chars(w - Len(body), " ")
<1>1. N = Reverse(num) /\ num \in Seq(Char) /\ N \in Seq(Char) /\ Len(N) = Len(num) /\ Len(num) \in Nat
  BY NumeralIs
<1>2. sgn \in Seq(Char) /\ Reverse(sgn) = sgn /\ Len(sgn) \in Nat
  BY Sign
<1>c. " " \in Char /\ "0" \in Char
  BY CharsOfCode, ZeroChar, Zenon
<1>g. \A x, y, z \in Seq(Char) : (x \o y) \o z = x \o (y \o z)
  BY Associate, Zenon
<1>a. PrintNum(u, b, neg, w, d.left, padc, digits)
        = CASE d.left -> Reverse(actual) \o pad
            [] ~d.left /\ neg /\ padc = "0" -> Reverse(num \o pad \o <<"-">>)
            [] OTHER -> Reverse(actual \o pad)
  BY Zenon DEF PrintNum
<1>f. NumField(d, sgn, N) = Field(d, sgn \o (IF d.zeros /\ ~d.left THEN zeros ELSE << >>) \o N)
  BY Zenon DEF NumField
<1> HIDE DEF num, N, sgn
<1>3. /\ actual \in Seq(Char) /\ body \in Seq(Char) /\ Reverse(actual) = body
      /\ Len(actual) = Len(num) + Len(sgn) /\ Len(body) = Len(sgn) + Len(N)
  <2>1. actual \in Seq(Char) /\ Len(actual) = Len(num) + Len(sgn)
    BY <1>1, <1>2, Joined, Zenon
  <2>2. body \in Seq(Char) /\ Len(body) = Len(sgn) + Len(N)
    BY <1>1, <1>2, Joined, Zenon
  <2>3. Reverse(actual) = Reverse(sgn) \o Reverse(num)
    BY <1>1, <1>2, ReverseConcat
  <2> QED BY <2>1, <2>2, <2>3, <1>1, <1>2
<1>4. Len(actual) = Len(body) /\ Len(body) \in Nat
  BY <1>1, <1>2, <1>3
<1> HIDE DEF actual, body
<1>5. /\ Chars(fill, " ") = blanks /\ blanks \in Seq(Char) /\ Reverse(blanks) = blanks
      /\ Chars(fill, "0") = zeros /\ zeros \in Seq(Char) /\ Reverse(zeros) = zeros
      /\ w <= Len(body) => blanks = << >>
      /\ Len(zeros) = IF w > Len(body) THEN w - Len(body) ELSE 0
  <2> DEFINE n == Len(body)
  <2>1. w \in Int /\ n \in Nat /\ Len(actual) = n
    BY <1>4
  <2> HIDE DEF w, n
  <2>2. LET p == Chars(LONGER(w, n) - n, " ") IN
        /\ p = Chars(w - n, " ") /\ p \in Seq(Char) /\ Reverse(p) = p
        /\ w <= n => p = << >>
    BY <2>1, <1>c, Pad
  <2>3. LET p == Chars(LONGER(w, n) - n, "0") IN
        /\ p = Chars(w - n, "0") /\ p \in Seq(Char) /\ Reverse(p) = p
        /\ Len(p) = IF w > n THEN w - n ELSE 0
    BY <2>1, <1>c, Pad
  <2> QED BY <2>1, <2>2, <2>3 DEF n
<1> HIDE DEF zeros, blanks
<1>e. "0" # " "
  OBVIOUS
<1>6. CASE d.left
  <2>1. pad = blanks
    BY <1>5, <1>6
  <2>2. PrintNum(u, b, neg, w, d.left, padc, digits) = body \o blanks
    BY <1>a, <1>3, <1>6, <2>1
  <2>3. sgn \o << >> \o N = body
    BY <1>2, ConcatEmptySeq DEF body
  <2>4. NumField(d, sgn, N) = body \o blanks
    BY <1>6, <1>f, <2>3 DEF Field, blanks
  <2> QED BY <2>2, <2>4 DEF sgn, N
<1>7. CASE ~d.left /\ ~d.zeros
  <2>1. pad = blanks
    BY <1>5, <1>7
  <2>2. PrintNum(u, b, neg, w, d.left, padc, digits) = Reverse(actual \o blanks)
    BY <1>a, <1>7, <1>e, <2>1
  <2>3. Reverse(actual \o blanks) = blanks \o body
    BY <1>3, <1>5, ReverseConcat
  <2>4. sgn \o << >> \o N = body
    BY <1>2, ConcatEmptySeq DEF body
  <2>5. NumField(d, sgn, N) = blanks \o body
    BY <1>7, <1>f, <2>4 DEF Field, blanks
  <2> QED BY <2>2, <2>3, <2>5 DEF sgn, N
<1>8. CASE ~d.left /\ d.zeros
  <2> DEFINE z == sgn \o zeros \o N
  <2>1. z \in Seq(Char) /\ Len(z) = Len(body) + Len(zeros) /\ z = sgn \o (zeros \o N)
    <3>1. sgn \o zeros \in Seq(Char) /\ Len(sgn \o zeros) = Len(sgn) + Len(zeros)
      BY <1>2, <1>5, Joined, Zenon
    <3>2. z \in Seq(Char) /\ Len(z) = Len(sgn \o zeros) + Len(N)
      BY <1>1, <3>1, Joined, Zenon
    <3>3. z = sgn \o (zeros \o N)
      <4>1. sgn \in Seq(Char) /\ zeros \in Seq(Char) /\ N \in Seq(Char)
        BY <1>1, <1>2, <1>5, Zenon
      <4>2. (sgn \o zeros) \o N = sgn \o (zeros \o N)
        <5> HIDE DEF fill, pad, padc, z, w
        <5> QED BY <4>1, <1>g, Zenon
      <4> QED BY <4>2, Zenon
    <3>4. Len(zeros) \in Nat
      BY <1>5, LenProperties, Zenon
    <3> HIDE DEF z, fill, pad, padc
    <3> QED BY <3>1, <3>2, <3>3, <3>4, <1>1, <1>2, <1>3
  <2>2. w - Len(z) <= 0 /\ w - Len(z) \in Int
    <3> DEFINE lb == Len(body)
               lz == Len(zeros)
               l == Len(z)
    <3>1. lb \in Nat /\ w \in Nat /\ lz = (IF w > lb THEN w - lb ELSE 0) /\ l = lb + lz
      BY <1>4, <1>5, <2>1, Zenon
    <3> HIDE DEF z, fill, pad, padc, w, lb, lz, l
    <3>2. w - l <= 0 /\ w - l \in Int
      BY <3>1
    <3> QED BY <3>2 DEF l
  <2>3. NumField(d, sgn, N) = z
    <3> DEFINE k == w - Len(z)
    <3>1. Field(d, z) = Chars(k, " ") \o z
      BY <1>8 DEF Field
    <3> HIDE DEF z
    <3>2. Chars(k, " ") = << >>
      <4> HIDE DEF k
      <4> QED BY <1>c, <2>2, CharsAre DEF k
    <3>3. << >> \o z = z
      BY <2>1, ConcatEmptySeq
    <3> QED BY <3>1, <3>2, <3>3, <1>8, <1>f DEF z
  <2>4. pad = zeros
    BY <1>5, <1>8
  <2>5. CASE neg
    <3>0. sgn = <<"-">>
      BY <2>5 DEF sgn
    <3>1. PrintNum(u, b, neg, w, d.left, padc, digits) = Reverse(num \o zeros \o <<"-">>)
      BY <1>a, <1>8, <2>4, <2>5
    <3>2. num \o zeros \in Seq(Char) /\ Reverse(num \o zeros) = zeros \o N
      BY <1>1, <1>5, ConcatProperties, ReverseConcat
    <3>3. Reverse((num \o zeros) \o sgn) = sgn \o (zeros \o N)
      <4> DEFINE nz == num \o zeros
      <4>1. nz \in Seq(Char) /\ Reverse(nz) = zeros \o N
        BY <3>2
      <4>2. Reverse(nz \o sgn) = Reverse(sgn) \o Reverse(nz)
        <5> HIDE DEF nz
        <5> QED BY <4>1, <1>2, ReverseConcat
      <4> QED BY <4>1, <4>2, <1>2
    <3> QED BY <3>0, <3>1, <3>3, <2>1, <2>3 DEF sgn, N
  <2>6. CASE ~neg
    <3>0. sgn = << >>
      BY <2>6 DEF sgn
    <3>1. PrintNum(u, b, neg, w, d.left, padc, digits) = Reverse(actual \o zeros)
      BY <1>a, <1>8, <2>4, <2>6
    <3>2. Reverse(actual \o zeros) = zeros \o body
      BY <1>3, <1>5, ReverseConcat
    <3>3. body = N /\ << >> \o (zeros \o N) = zeros \o N
      <4>1. zeros \o N \in Seq(Char)
        BY <1>1, <1>5, ConcatProperties
      <4> QED BY <4>1, <3>0, <1>1, ConcatEmptySeq DEF body
    <3> QED BY <3>0, <3>1, <3>2, <3>3, <2>1, <2>3 DEF sgn, N
  <2> QED BY <2>5, <2>6
<1> QED BY <1>6, <1>7, <1>8

LEMMA WrapAround ==
  ASSUME NEW n \in IntValue
  PROVE  /\ Unsigned(n) = (IF n < 0 THEN Wrap + n ELSE n) /\ Unsigned(n) \in Nat /\ n \in Int
         /\ n < 0 => Unsigned(-n) = -n /\ -n \in Nat
<1> DEFINE b == Wrap
           h == Wrap \div 2
<1>1. b \in Nat /\ h \in Nat /\ b = h * 2
  <2>1. Wrap \in Nat /\ Wrap % 2 = 0
    BY PrintkAssumption
  <2>2. Wrap = (Wrap \div 2) * 2 + (Wrap % 2) /\ Wrap \div 2 \in Nat
    BY <2>1, DivMod
  <2> QED BY <2>1, <2>2
<1>2. n \in Int /\ -h <= n /\ n < h
  BY <1>1 DEF IntValue
<1> HIDE DEF b, h
<1>3. b \in Nat \ {0}
  BY <1>1, <1>2
<1>4. \A r \in 0 .. b - 1 : r % b = r
  <2> TAKE r \in 0 .. b - 1
  <2>1. (0 * b + r) % b = r
    BY <1>3, DivModUnique
  <2>2. 0 * b + r = r
    BY <1>3
  <2> QED BY <2>1, <2>2
<1>5. ASSUME n < 0 PROVE n % b = b + n
  <2>1. n % b \in 0 .. b - 1 /\ n = b * (n \div b) + (n % b) /\ n \div b \in Int
    BY <1>2, <1>3, SMTT(30)
  <2> DEFINE q == n \div b
             r == n % b
             t == b * q
  <2>2. q \in Int /\ r \in 0 .. b - 1 /\ n = t + r
    BY <2>1
  <2> HIDE DEF q, r
  <2>t. t \in Int
    BY <2>2, <1>3, SMTT(30)
  <2>3. q < 0
    <3> SUFFICES ASSUME q >= 0 PROVE FALSE
      BY <2>2
    <3>1. t >= 0
      BY <1>3, <2>2, SMTT(30)
    <3> HIDE DEF t
    <3> QED BY <3>1, <2>2, <2>t, <1>5, <1>2
  <2>4. q >= -1
    <3> SUFFICES ASSUME q <= -2 PROVE FALSE
      BY <2>2
    <3>1. t <= -(2 * b)
      BY <1>3, <2>2, SMTT(30)
    <3> HIDE DEF t
    <3> QED BY <3>1, <2>2, <2>t, <1>1, <1>2
  <2>5. q = -1
    BY <2>2, <2>3, <2>4
  <2>6. n = -b + r
    BY <2>2, <2>5, <1>3, SMTT(30)
  <2>7. r = b + n
    BY <2>6, <2>2, <1>2, <1>3
  <2> QED BY <2>7 DEF r
<1>6. n >= 0 => n % b = n
  BY <1>1, <1>2, <1>4
<1>7. n < 0 => (-n) % b = -n
  BY <1>1, <1>2, <1>4
<1> QED BY <1>1, <1>2, <1>5, <1>6, <1>7 DEF Unsigned, b

LEMMA DecimalDigits ==
  \A n \in Nat : Numeral(n, 10, Lower) = Numeral(n, 10, Digits)
<1> DEFINE D == Nat
           mu == [n \in Nat |-> n]
           Good == {n \in D : RevDigits(n, 10, Lower) = RevDigits(n, 10, Digits)}
<1>1. /\ Lower \in Seq(Char) /\ Len(Lower) >= 10 /\ Digits \in Seq(Char) /\ Len(Digits) >= 10
      /\ \A i \in 1 .. 10 : Lower[i] = Digits[i]
  <2> HIDE DEF Lower, Digits
  <2>1. Len(Lower) = 16 /\ Len(Digits) = 10 /\ \A i \in 1 .. 10 : Lower[i] = Digits[i]
    BY DigitsOfCode
  <2>2. Lower \in Seq(Char) /\ Digits \in Seq(Char)
    BY DigitsOfCode
  <2> QED BY <2>1, <2>2
<1>s. \A n \in Nat : \A digits \in Seq(Char) : Len(digits) >= 10 =>
        RevDigits(n, 10, digits) = IF n \div 10 = 0 THEN <<digits[(n % 10) + 1]>>
                                   ELSE <<digits[(n % 10) + 1]>> \o RevDigits(n \div 10, 10, digits)
  <2> TAKE n \in Nat
  <2> TAKE digits \in Seq(Char)
  <2>1. 10 \in Nat /\ 10 >= 2
    OBVIOUS
  <2> HIDE DEF D, mu, Good
  <2> QED BY <2>1, RevDigitsStep
<1>2. ASSUME NEW n \in D, \A e \in D : mu[e] < mu[n] => e \in Good
      PROVE  n \in Good
  <2>1. /\ n \div 10 \in Nat /\ n % 10 \in 0 .. 9 /\ n \div 10 # 0 => n \div 10 < n
    <3>1. n \in Nat /\ 10 \in Nat /\ 10 >= 2
      OBVIOUS
    <3> HIDE DEF mu, Good
    <3> QED BY <3>1, DivLess
  <2>2. n \div 10 # 0 => RevDigits(n \div 10, 10, Lower) = RevDigits(n \div 10, 10, Digits)
    BY <2>1, <1>2
  <2>3. Lower[(n % 10) + 1] = Digits[(n % 10) + 1]
    <3> DEFINE r == n % 10
    <3>1. r + 1 \in 1 .. 10
      BY <2>1
    <3> HIDE DEF r
    <3>2. Lower[r + 1] = Digits[r + 1]
      BY <3>1, <1>1
    <3> QED BY <3>2 DEF r
  <2> DEFINE First(digits) == <<digits[(n % 10) + 1]>>
             Step(digits) == RevDigits(n, 10, digits)
                               = IF n \div 10 = 0 THEN First(digits)
                                 ELSE First(digits) \o RevDigits(n \div 10, 10, digits)
  <2>4. Step(Lower)
    BY <1>1, <1>s
  <2>5. Step(Digits)
    BY <1>1, <1>s
  <2>6. RevDigits(n, 10, Lower) = RevDigits(n, 10, Digits)
    BY <2>2, <2>3, <2>4, <2>5, Zenon
  <2> QED BY <2>6
<1>3. mu \in [D -> Nat]
  OBVIOUS
<1>4. \A n \in D : n \in Good
  <2> HIDE DEF D, mu, Good
  <2> QED BY <1>2, <1>3, MeasureInduction
<1> SUFFICES ASSUME NEW n \in Nat PROVE Numeral(n, 10, Lower) = Numeral(n, 10, Digits)
  OBVIOUS
<1>5. RevDigits(n, 10, Lower) = RevDigits(n, 10, Digits)
  BY <1>4
<1>6. Numeral(n, 10, Lower) = Reverse(RevDigits(n, 10, Lower))
  BY <1>1, NumeralIs
<1>7. Numeral(n, 10, Digits) = Reverse(RevDigits(n, 10, Digits))
  BY <1>1, NumeralIs
<1> QED BY <1>5, <1>6, <1>7, Zenon

LEMMA FieldType ==
  ASSUME NEW d, d.width \in Nat, d.left \in BOOLEAN, d.zeros \in BOOLEAN,
         NEW s \in Seq(Char), NEW sgn \in Seq(Char)
  PROVE  Field(d, s) \in Seq(Char) /\ NumField(d, sgn, s) \in Seq(Char)
<1> DEFINE w == d.width
           Zeros(n) == Chars(w - n, "0")
           Blanks(n) == Chars(w - n, " ")
<1>1. \A n \in Nat : Zeros(n) \in Seq(Char) /\ Blanks(n) \in Seq(Char)
  <2> TAKE n \in Nat
  <2>1. w - n \in Int
    OBVIOUS
  <2>2. Zeros(n) \in Seq(Char)
    BY <2>1, ZeroChar, CharsAre
  <2>3. Blanks(n) \in Seq(Char)
    BY <2>1, CharsOfCode, CharsAre
  <2> QED BY <2>2, <2>3
<1>2. \A t \in Seq(Char) : Field(d, t) \in Seq(Char)
  <2> TAKE t \in Seq(Char)
  <2>1. Blanks(Len(t)) \in Seq(Char)
    BY <1>1, LenProperties
  <2>2. Field(d, t) = IF d.left THEN t \o Blanks(Len(t)) ELSE Blanks(Len(t)) \o t
    BY DEF Field
  <2> HIDE DEF Blanks
  <2>3. t \o Blanks(Len(t)) \in Seq(Char) /\ Blanks(Len(t)) \o t \in Seq(Char)
    BY <2>1, Joined, Zenon
  <2> QED BY <2>2, <2>3
<1>3. sgn \o s \in Seq(Char)
  BY Joined
<1>4. Zeros(Len(sgn \o s)) \in Seq(Char)
  BY <1>1, <1>3, LenProperties
<1> DEFINE z == IF d.zeros /\ ~d.left THEN Zeros(Len(sgn \o s)) ELSE << >>
<1>5. NumField(d, sgn, s) = Field(d, sgn \o z \o s)
  BY Zenon DEF NumField
<1>6. z \in Seq(Char)
  BY <1>4
<1> HIDE DEF Zeros, Blanks, z
<1>7. sgn \o z \in Seq(Char)
  BY <1>6, Joined
<1>8. sgn \o z \o s \in Seq(Char)
  BY <1>7, Joined
<1> QED BY <1>2, <1>5, <1>8

LEMMA CString ==
  ASSUME NEW S, NEW T, S \subseteq T, NEW s \in Seq(S)
  PROVE  s \in Seq(T) /\ Len(s) \in Nat /\ \A i \in 1 .. Len(s) : s[i] \in S
<1>1. \A i \in 1 .. Len(s) : s[i] \in S
  BY ElementOfSeq
<1>2. Len(s) \in Nat /\ s = [i \in 1 .. Len(s) |-> s[i]]
  OBVIOUS
<1>3. \A i \in 1 .. Len(s) : s[i] \in T
  BY <1>1
<1> QED BY <1>1, <1>2, <1>3, IsASeq

LEMMA NumberIs ==
  ASSUME NEW d, DirOk(d), dir.width = d.width, dir.ladjust = d.left, dir.padc = PadChar(d),
         NEW neg \in BOOLEAN, 
         NEW b \in Nat, b >= 2, NEW digits \in Seq(Char), Len(digits) >= b, NEW m \in Nat
  PROVE  Number(m, b, neg, digits) = NumField(d, Minus(neg), Numeral(m, b, digits))
         /\ NumField(d, Minus(neg), Numeral(m, b, digits)) \in Seq(Char)
<1> DEFINE N == Numeral(m, b, digits)
<1>1. Number(m, b, neg, digits) = PrintNum(m, b, neg, d.width, d.left, PadChar(d), digits)
  BY Zenon DEF Number
<1>2. PrintNum(m, b, neg, d.width, d.left, PadChar(d), digits) = NumField(d, Minus(neg), N)
  BY PrintNumIs
<1>3. N \in Seq(Char)
  BY NumeralIs
<1>4. Minus(neg) \in Seq(Char)
  BY Sign DEF Minus
<1>5. NumField(d, Minus(neg), N) \in Seq(Char)
  <2> HIDE DEF N
  <2> QED BY <1>3, <1>4, FieldType DEF DirOk
<1> QED BY <1>1, <1>2, <1>5, Zenon

\* Whatever the argument and the directive, what PrintNum, PrintString and
\* PrintChar leave in the buffer is the directive's field: PrintNum's reversed
\* digits, its sign and its fill end up as sign, zeros and digits in positional
\* notation, on the side the flags say.
THEOREM SpecifierText ==
  ASSUME NEW d, DirOk(d), dir.width = d.width, dir.ladjust = d.left, dir.padc = PadChar(d),
         NEW a \in Argument, NEW s \in Specifiers
  PROVE  Converted(s, a) = Text(d, s, a) /\ Text(d, s, a) \in Seq(Char)
<1> DEFINE n == a.int
           u == IF n < 0 THEN Wrap + n ELSE n
<1>1. /\ n \in IntValue /\ a.chr \in Char /\ a.str \in Seq(Char)
      /\ <<a.chr>> \in Seq(Char)
  <2>1. n \in IntValue /\ a.chr \in Char /\ a.str \in Seq(Char \ {NUL})
    BY DEF Argument
  <2>2. a.str \in Seq(Char)
    <3>1. Char \ {NUL} \subseteq Char
      OBVIOUS
    <3> QED BY <2>1, <3>1, CString
  <2> QED BY <2>1, <2>2, SeqOfOne
<1>2. Unsigned(n) = u /\ u \in Nat /\ (n < 0 => Unsigned(-n) = -n /\ -n \in Nat) /\ n \in Int
  BY <1>1, WrapAround
<1>3. /\ Lower \in Seq(Char) /\ Len(Lower) = 16 /\ Upper \in Seq(Char) /\ Len(Upper) = 16
  BY DigitsOfCode
<1>n. n \in Int => (n < 0) \in BOOLEAN
  OBVIOUS
<1>t. a.int = n /\ (IF a.int < 0 THEN Wrap + a.int ELSE a.int) = u
  OBVIOUS
<1> HIDE DEF n, u
<1>4. ASSUME NEW b \in Nat, b >= 2, b <= 16, NEW digits \in Seq(Char), Len(digits) = 16,
             NEW m \in Nat, NEW neg \in BOOLEAN
      PROVE  /\ Number(m, b, neg, digits) = NumField(d, Minus(neg), Numeral(m, b, digits))
             /\ NumField(d, Minus(neg), Numeral(m, b, digits)) \in Seq(Char)
  <2>1. Len(digits) >= b
    BY <1>4
  <2> QED BY <1>4, <2>1, NumberIs
<1>5. Minus(FALSE) = << >> /\ Minus(TRUE) = <<"-">>
  BY Zenon DEF Minus
<1> DEFINE Both(x, y) == x = y /\ y \in Seq(Char)
           Plain(b, digits) == Both(Number(Unsigned(n), b, FALSE, digits), NumField(d, << >>, Numeral(u, b, digits)))
<1>6. \A b \in Nat, digits \in Seq(Char) : b >= 2 /\ b <= 16 /\ Len(digits) = 16 => Plain(b, digits)
  <2> TAKE b \in Nat, digits \in Seq(Char)
  <2>1. SUFFICES ASSUME b >= 2, b <= 16, Len(digits) = 16
                 PROVE  Both(Number(u, b, FALSE, digits), NumField(d, Minus(FALSE), Numeral(u, b, digits)))
    BY <1>2, <1>5, Zenon
  <2>2. FALSE \in BOOLEAN
    OBVIOUS
  <2> QED BY <1>2, <1>4, <2>1, <2>2
<1>e. \A x, y : Both(x, y) /\ Converted(s, a) = x /\ Text(d, s, a) = y
        => Converted(s, a) = Text(d, s, a) /\ Text(d, s, a) \in Seq(Char)
  BY Zenon
<1>i. n < 0 => Both(Number(Unsigned(-n), 10, TRUE, Lower), NumField(d, <<"-">>, Numeral(-n, 10, Digits)))
  <2> SUFFICES ASSUME n < 0
               PROVE  Both(Number(-n, 10, TRUE, Lower), NumField(d, Minus(TRUE), Numeral(-n, 10, Lower)))
    <3>1. n < 0 => Numeral(-n, 10, Lower) = Numeral(-n, 10, Digits)
      BY <1>2, DecimalDigits
    <3> QED BY <3>1, <1>2, <1>5, Zenon
  <2>1. TRUE \in BOOLEAN /\ 10 \in Nat /\ 10 >= 2 /\ 10 <= 16
    OBVIOUS
  <2> QED BY <1>2, <1>3, <1>4, <2>1
<1> HIDE DEF Both, Plain
<1>7. CASE s = "c"
  <2>1. Converted(s, a) = PrintChar(a.chr, d.width, d.left)
    BY <1>7 DEF Converted
  <2>2. Text(d, s, a) = Field(d, <<a.chr>>)
    BY <1>7 DEF Text
  <2> QED BY <2>1, <2>2, <1>1, PrintCharIs, FieldType DEF DirOk
<1>8. CASE s = "s"
  <2>1. Converted(s, a) = PrintString(a.str, d.width, d.left)
    BY <1>8 DEF Converted
  <2>2. Text(d, s, a) = Field(d, a.str)
    BY <1>8 DEF Text
  <2> QED BY <2>1, <2>2, <1>1, PrintStringIs, FieldType DEF DirOk
<1>9. CASE s \in {"d", "D"} /\ n < 0
  <2>1. Converted(s, a) = Number(Unsigned(-n), 10, TRUE, Lower)
    BY <1>9, <1>t DEF Converted
  <2>2. Text(d, s, a) = NumField(d, <<"-">>, Numeral(-n, 10, Digits))
    BY <1>9, <1>t DEF Text
  <2> QED BY <2>1, <2>2, <1>9, <1>i, <1>e, Zenon
<1>10. CASE s \in {"d", "D"} /\ ~(n < 0)
  <2>0. Converted(s, a) = Number(Unsigned(IF n < 0 THEN -n ELSE n), 10, n < 0, Lower)
    BY <1>10, <1>t DEF Converted
  <2>1. Converted(s, a) = Number(Unsigned(n), 10, FALSE, Lower)
    <3>1. (n < 0) = FALSE
      BY <1>10, <1>2
    <3> QED BY <3>1, <2>0, Zenon
  <2>2. Text(d, s, a) = NumField(d, << >>, Numeral(u, 10, Lower))
    BY <1>10, <1>t DEF Text, Base
  <2>3. Plain(10, Lower)
    BY <1>3, <1>6
  <2> QED BY <2>1, <2>2, <2>3, <1>e, Zenon DEF Plain
<1>11. CASE s = "b"
  <2>1. Converted(s, a) = Number(Unsigned(n), 2, FALSE, Lower)
    BY <1>11, <1>t DEF Converted
  <2>2. Text(d, s, a) = NumField(d, << >>, Numeral(u, 2, Lower))
    BY <1>11, <1>t DEF Text, Base
  <2>3. Plain(2, Lower)
    BY <1>3, <1>6
  <2> QED BY <2>1, <2>2, <2>3, <1>e, Zenon DEF Plain
<1>12. CASE s \in {"o", "O"}
  <2>1. Converted(s, a) = Number(Unsigned(n), 8, FALSE, Lower)
    BY <1>12, <1>t DEF Converted
  <2>2. Text(d, s, a) = NumField(d, << >>, Numeral(u, 8, Lower))
    BY <1>12, <1>t DEF Text, Base
  <2>3. Plain(8, Lower)
    BY <1>3, <1>6
  <2> QED BY <2>1, <2>2, <2>3, <1>e, Zenon DEF Plain
<1>13. CASE s \in {"u", "U"}
  <2>1. Converted(s, a) = Number(Unsigned(n), 10, FALSE, Lower)
    BY <1>13, <1>t DEF Converted
  <2>2. Text(d, s, a) = NumField(d, << >>, Numeral(u, 10, Lower))
    BY <1>13, <1>t DEF Text, Base
  <2>3. Plain(10, Lower)
    BY <1>3, <1>6
  <2> QED BY <2>1, <2>2, <2>3, <1>e, Zenon DEF Plain
<1>14. CASE s = "x"
  <2>1. Converted(s, a) = Number(Unsigned(n), 16, FALSE, Lower)
    BY <1>14, <1>t DEF Converted
  <2>2. Text(d, s, a) = NumField(d, << >>, Numeral(u, 16, Lower))
    BY <1>14, <1>t DEF Text, Base
  <2>3. Plain(16, Lower)
    BY <1>3, <1>6
  <2> QED BY <2>1, <2>2, <2>3, <1>e, Zenon DEF Plain
<1>15. CASE s = "X"
  <2>1. Converted(s, a) = Number(Unsigned(n), 16, FALSE, Upper)
    BY <1>15, <1>t DEF Converted
  <2>2. Text(d, s, a) = NumField(d, << >>, Numeral(u, 16, Upper))
    BY <1>15, <1>t DEF Text, Base
  <2>3. Plain(16, Upper)
    BY <1>3, <1>6
  <2> QED BY <2>1, <2>2, <2>3, <1>e, Zenon DEF Plain
<1> QED BY <1>7, <1>8, <1>9, <1>10, <1>11, <1>12, <1>13, <1>14, <1>15 DEF Specifiers

LEMMA CharsTwice ==
  ASSUME NEW S, NEW x \in S
  PROVE  Chars(1, x) = <<x>> /\ Chars(2, x) = <<x, x>> /\ <<x, x>> \in Seq(S)
<1>0. \A n \in Int : n > 0 => /\ Chars(n, x) \in Seq(S) /\ Len(Chars(n, x)) = n
                               /\ \A i \in 1 .. n : Chars(n, x)[i] = x
  BY CharsAre
<1>1. Chars(1, x) \in Seq(S) /\ Len(Chars(1, x)) = 1 /\ Chars(1, x)[1] = x
  <2>1. PICK n \in Int : n = 1
    OBVIOUS
  <2>0. n > 0
    BY <2>1
  <2>2. Chars(n, x) \in Seq(S) /\ Len(Chars(n, x)) = n
    BY <1>0, <2>0, Zenon
  <2>3. \A i \in 1 .. n : Chars(n, x)[i] = x
    BY <1>0, <2>1
  <2>4. Chars(n, x)[1] = x /\ Chars(n, x)[n] = x
    BY <2>1, <2>3
  <2> QED BY <2>1, <2>2, <2>4, Zenon
<1>2. Chars(2, x) \in Seq(S) /\ Len(Chars(2, x)) = 2 /\ Chars(2, x)[1] = x /\ Chars(2, x)[2] = x
  <2>1. PICK n \in Int : n = 2
    OBVIOUS
  <2>0. n > 0
    BY <2>1
  <2>2. Chars(n, x) \in Seq(S) /\ Len(Chars(n, x)) = n
    BY <1>0, <2>0, Zenon
  <2>3. \A i \in 1 .. n : Chars(n, x)[i] = x
    BY <1>0, <2>1
  <2>4. Chars(n, x)[1] = x /\ Chars(n, x)[n] = x
    BY <2>1, <2>3
  <2> QED BY <2>1, <2>2, <2>4, Zenon
<1>3. <<x>> \in Seq(S) /\ <<x, x>> \in Seq(S) /\ Len(<<x, x>>) = 2 /\ <<x, x>>[1] = x /\ <<x, x>>[2] = x
  OBVIOUS
<1>4. \A s, t \in Seq(S) : Len(s) = Len(t) /\ (\A i \in 1 .. Len(s) : s[i] = t[i]) => s = t
  BY SeqEqual
<1>5. Chars(1, x) = <<x>>
  <2> DEFINE s == Chars(1, x)
             t == <<x>>
  <2>1. s \in Seq(S) /\ t \in Seq(S) /\ Len(s) = 1 /\ Len(t) = 1 /\ s[1] = x /\ t[1] = x
    BY <1>1, <1>3
  <2> HIDE DEF s, t
  <2>2. \A i \in 1 .. Len(s) : s[i] = t[i]
    BY <2>1
  <2> QED BY <2>1, <2>2, <1>4 DEF s, t
<1>6. Chars(2, x) = <<x, x>>
  <2> DEFINE s == Chars(2, x)
             t == <<x, x>>
  <2>1. s \in Seq(S) /\ t \in Seq(S) /\ Len(s) = 2 /\ Len(t) = 2 /\ s[1] = x /\ t[1] = x /\ s[2] = x /\ t[2] = x
    BY <1>2, <1>3
  <2> HIDE DEF s, t
  <2>2. \A i \in 1 .. Len(s) : i = 1 \/ i = 2
    BY <2>1
  <2>3. \A i \in 1 .. Len(s) : s[i] = t[i]
    BY <2>1, <2>2
  <2> QED BY <2>1, <2>3, <1>4 DEF s, t
<1> QED BY <1>3, <1>5, <1>6

\* printf's output function shows a piece as Shown says.
LEMMA ShownIs ==
  ASSUME NEW s \in Seq(Char)
  PROVE  myoutput(s) = Shown(s) /\ Shown(s) \in Seq(Char)
<1> DEFINE D == DOMAIN s
           One(x) == IF x = "\n" THEN <<"\n", "\n">> ELSE <<x>>
           Two(x) == Chars(IF x = "\n" THEN 2 ELSE 1, x)
           f == [j \in D |-> One(s[j])]
           g == [j \in D |-> Two(s[j])]
<1>1. ASSUME NEW x \in Char PROVE One(x) = Two(x) /\ One(x) \in Seq(Char)
  <2>1. CASE x = "\n"
    <3>1. Chars(2, x) = <<x, x>> /\ <<x, x>> \in Seq(Char)
      BY CharsTwice
    <3> QED BY <2>1, <3>1, Zenon
  <2>2. CASE x # "\n"
    <3>1. Chars(1, x) = <<x>> /\ <<x>> \in Seq(Char)
      BY CharsTwice, SeqOfOne
    <3> QED BY <2>2, <3>1, Zenon
  <2> QED BY <2>1, <2>2
<1> HIDE DEF One, Two
<1>2. D = 1 .. Len(s) /\ Len(s) \in Nat /\ \A j \in D : s[j] \in Char
  BY ElementOfSeq
<1>3. f = g /\ \A j \in D : f[j] \in Seq(Char)
  BY <1>1, <1>2
<1>4. f \in Seq(Seq(Char))
  <2> HIDE DEF D
  <2>1. f = [j \in 1 .. Len(s) |-> One(s[j])]
    BY <1>2
  <2>2. \A j \in 1 .. Len(s) : One(s[j]) \in Seq(Char)
    BY <1>1, <1>2
  <2> HIDE DEF f
  <2> QED BY <2>1, <2>2, <1>2, IsASeq
<1>5. FlattenSeq(f) \in Seq(Char)
  <2> HIDE DEF f
  <2> QED BY <1>4, FlattenIs
<1>6. myoutput(s) = (IF s = <<NUL>> THEN << >> ELSE FlattenSeq(f)) /\ Shown(s) = IF s = <<NUL>> THEN << >> ELSE FlattenSeq(g)
  BY Zenon DEF myoutput, Shown, One, Two
<1>7. << >> \in Seq(Char)
  OBVIOUS
<1> QED BY <1>3, <1>5, <1>6, <1>7, Zenon

LEMMA NulShown == myoutput(<<NUL>>) = << >>
  BY Zenon DEF myoutput

LEMMA FatalShown == myoutput(theFatalMsg) = theFatalMsg /\ theFatalMsg \in Seq(Char)
<1> DEFINE s == theFatalMsg
<1>1. s \in Seq(Char) /\ Len(s) = 1 /\ s[1] = "FATAL"
  BY CharsOfCode, SeqOfOne DEF theFatalMsg
<1>2. s # <<NUL>>
  BY DEF theFatalMsg, NUL
<1> DEFINE f == [j \in DOMAIN s |-> IF s[j] = "\n" THEN <<"\n", "\n">> ELSE <<s[j]>>]
<1>3. myoutput(s) = FlattenSeq(f)
  BY <1>2, Zenon DEF myoutput
<1>4. f = <<s>>
  <2>1. DOMAIN s = 1 .. 1 /\ s = <<s[1]>> /\ s[1] # "\n"
    BY <1>1 DEF theFatalMsg
  <2>2. f = [j \in 1 .. 1 |-> s]
    BY <2>1
  <2>3. Chars(1, s) = <<s>>
    BY <1>1, CharsTwice
  <2> QED BY <2>2, <2>3 DEF Chars
<1> QED
  <2> HIDE DEF f, s
  <2>1. FlattenSeq(<<s>>) = s
    BY <1>1, FlattenOne
  <2> QED BY <2>1, <1>3, <1>4, <1>1 DEF s

-----------------------------------------------------------------------------
(* Directives *)
RunIs(f, k, S, e) ==
  e \in k .. Len(f) /\ (\A j \in k + 1 .. e : f[j] \in S) /\ (e < Len(f) => f[e + 1] \notin S)

LEMMA RunEndIs ==
  ASSUME NEW f, Len(f) \in Nat, NEW k \in 0 .. Len(f), NEW S
  PROVE  RunIs(f, k, S, RunEnd(f, k, S)) /\ \A e : RunIs(f, k, S, e) => e = RunEnd(f, k, S)
<1> DEFINE n == Len(f)
           T == {e \in k .. n : e < n => f[e + 1] \notin S}
<1>1. \E e \in k .. n : RunIs(f, k, S, e)
  <2>1. T \subseteq Nat /\ n \in T
    OBVIOUS
  <2>2. PICK e \in T : \A m \in T : e <= m
    <3> HIDE DEF T
    <3> QED BY <2>1, LeastNat
  <2>3. \A j \in k + 1 .. e : f[j] \in S
    <3> SUFFICES ASSUME NEW j \in k + 1 .. e, f[j] \notin S PROVE FALSE
      OBVIOUS
    <3>1. e \in k .. n /\ j - 1 \in k .. n /\ j - 1 < e /\ (j - 1) + 1 = j
      OBVIOUS
    <3>2. j - 1 \in T
      BY <3>1
    <3>3. e <= j - 1
      BY <3>2, <2>2
    <3> HIDE DEF T
    <3> QED BY <3>1, <3>3
  <2>4. e \in k .. n /\ (e < n => f[e + 1] \notin S)
    OBVIOUS
  <2> QED BY <2>3, <2>4 DEF RunIs
<1>2. ASSUME NEW d, RunIs(f, k, S, d), NEW e, RunIs(f, k, S, e), d < e PROVE FALSE
  <2>1. d \in k .. n /\ e \in k .. n
    BY <1>2 DEF RunIs
  <2>2. d < n /\ d + 1 \in k + 1 .. e
    BY <2>1, <1>2
  <2>3. f[d + 1] \in S /\ f[d + 1] \notin S
    BY <2>2, <1>2 DEF RunIs
  <2> QED BY <2>3
<1>3. RunIs(f, k, S, RunEnd(f, k, S))
  BY <1>1 DEF RunIs, RunEnd
<1>4. ASSUME NEW e, RunIs(f, k, S, e) PROVE e = RunEnd(f, k, S)
  <2> DEFINE d == RunEnd(f, k, S)
  <2>1. d \in k .. n /\ e \in k .. n
    BY <1>3, <1>4 DEF RunIs
  <2>2. ~(d < e) /\ ~(e < d)
    BY <1>2, <1>3, <1>4
  <2> HIDE DEF d
  <2> QED BY <2>1, <2>2 DEF d
<1> QED BY <1>3, <1>4

Flag == {"-", "0"}
FlagsEnd(f, k) == RunEnd(f, k, Flag)
WidthEnd(f, k) == RunEnd(f, FlagsEnd(f, k), Range(Digits))
HasPrec(f, k)  == WidthEnd(f, k) < Len(f) /\ f[WidthEnd(f, k) + 1] = "."
PrecEnd(f, k)  == IF HasPrec(f, k) THEN RunEnd(f, WidthEnd(f, k) + 1, Range(Digits)) ELSE WidthEnd(f, k)
IsLong(f, k)   == PrecEnd(f, k) < Len(f) /\ f[PrecEnd(f, k) + 1] = "l"
WidthOf(f, k)  == IF WidthEnd(f, k) = FlagsEnd(f, k) THEN 0
                  ELSE CHOOSE n \in 1 .. Power(10)[WidthEnd(f, k) - FlagsEnd(f, k)] :
                         Numeral(n, 10, Digits) = SubSeq(f, FlagsEnd(f, k) + 1, WidthEnd(f, k))

LEMMA DirectiveIs ==
  ASSUME NEW f, NEW k
  PROVE  LET d == Directive(f, k) IN
         /\ d.left = (\E j \in k + 1 .. FlagsEnd(f, k) : f[j] = "-")
         /\ d.zeros = (\E j \in k + 1 .. FlagsEnd(f, k) : f[j] = "0")
         /\ d.width = WidthOf(f, k)
         /\ d.at = IF IsLong(f, k) THEN PrecEnd(f, k) + 2 ELSE PrecEnd(f, k) + 1
BY Zenon DEF Directive, IsLong, PrecEnd, WidthOf, HasPrec, WidthEnd, FlagsEnd, Flag

LEMMA DirectiveParts ==
  ASSUME NEW f, Len(f) \in Nat, NEW k \in 1 .. Len(f)
  PROVE  /\ RunIs(f, k, Flag, FlagsEnd(f, k)) /\ FlagsEnd(f, k) \in k .. Len(f)
         /\ RunIs(f, FlagsEnd(f, k), Range(Digits), WidthEnd(f, k))
         /\ WidthEnd(f, k) \in FlagsEnd(f, k) .. Len(f)
         /\ HasPrec(f, k) => RunIs(f, WidthEnd(f, k) + 1, Range(Digits), PrecEnd(f, k))
         /\ PrecEnd(f, k) \in WidthEnd(f, k) .. Len(f)
         /\ Directive(f, k).at \in k + 1 .. Len(f) + 1
<1> DEFINE n == Len(f)
           a == FlagsEnd(f, k)
           b == WidthEnd(f, k)
           p == PrecEnd(f, k)
<1>r. \A S : \A i \in 0 .. n : RunIs(f, i, S, RunEnd(f, i, S))
  BY RunEndIs
<1>1. RunIs(f, k, Flag, a) /\ a \in k .. n
  <2>1. RunIs(f, k, Flag, a)
    BY <1>r DEF FlagsEnd
  <2> QED BY <2>1 DEF RunIs
<1>2. RunIs(f, a, Range(Digits), b) /\ b \in a .. n
  <2>1. a \in 0 .. n
    BY <1>1
  <2>2. RunIs(f, a, Range(Digits), b)
    BY <2>1, <1>r DEF WidthEnd
  <2> QED BY <2>2 DEF RunIs
<1>3. ASSUME HasPrec(f, k) PROVE RunIs(f, b + 1, Range(Digits), p) /\ p \in b + 1 .. n
  <2>1. b < n
    BY <1>3 DEF HasPrec
  <2>2. b + 1 \in 0 .. n
    <3> HIDE DEF b, a
    <3> QED BY <2>1, <1>1, <1>2
  <2>3. RunIs(f, b + 1, Range(Digits), p)
    BY <2>2, <1>3, <1>r DEF PrecEnd
  <2> QED BY <2>3 DEF RunIs
<1>4. ~HasPrec(f, k) => p = b
  BY DEF PrecEnd
<1>5. Directive(f, k).at = IF p < n /\ f[p + 1] = "l" THEN p + 2 ELSE p + 1
  BY DirectiveIs, Zenon DEF IsLong
<1> HIDE DEF a, b, p
<1>6. p \in b .. n
  BY <1>1, <1>2, <1>3, <1>4
<1>7. Directive(f, k).at \in k + 1 .. n + 1
  BY <1>1, <1>2, <1>5, <1>6
<1> QED BY <1>1, <1>2, <1>3, <1>6, <1>7 DEF a, b, p

-----------------------------------------------------------------------------
(* What a format means, one piece at a time *)
Stops(f, k) == k > Len(f) \/ (f[k] = "%" /\ Directive(f, k).at > Len(f))
Takes(f, k) == f[k] = "%" /\ f[Directive(f, k).at] \in Specifiers
After(f, k) == IF f[k] # "%" THEN k + 1 ELSE Directive(f, k).at + 1
Piece(f, k, args, a) ==
  IF f[k] # "%" THEN <<f[k]>>
  ELSE IF f[Directive(f, k).at] \in Specifiers THEN Text(Directive(f, k), f[Directive(f, k).at], args[a + 1])
  ELSE <<f[Directive(f, k).at]>>

LEMMA AfterIs ==
  ASSUME NEW S, NEW f \in Seq(S), NEW k \in 1 .. Len(f) + 1, ~Stops(f, k)
  PROVE  k \in 1 .. Len(f) /\ After(f, k) \in k + 1 .. Len(f) + 1
<1>1. k \in 1 .. Len(f) /\ Len(f) \in Nat
  BY DEF Stops
<1>2. CASE f[k] # "%"
  BY <1>1, <1>2 DEF After
<1>3. CASE f[k] = "%"
  <2> DEFINE at == Directive(f, k).at
  <2>1. at \in k + 1 .. Len(f) + 1
    BY <1>1, DirectiveParts
  <2>2. ~(at > Len(f)) /\ After(f, k) = at + 1
    BY <1>3 DEF Stops, After
  <2> HIDE DEF at
  <2> QED BY <2>1, <2>2, <1>1
<1> QED BY <1>2, <1>3

LEMMA AskedIs ==
  ASSUME NEW S, NEW f \in Seq(S)
  PROVE  \A k \in 1 .. Len(f) + 1 :
           /\ Asked(f)[k] \in Nat
           /\ Asked(f)[k] = IF Stops(f, k) THEN 0
                            ELSE Asked(f)[After(f, k)] + (IF Takes(f, k) THEN 1 ELSE 0)
<1> DEFINE n == Len(f)
           D == 1 .. n + 1
           B == {k \in D : Stops(f, k)}
           mu == [k \in D |-> n + 1 - k]
           pre == [k \in D \ B |-> After(f, k)]
           base == [k \in B |-> 0]
           more(k) == IF Takes(f, k) THEN 1 ELSE 0
           step == [k \in D \ B |-> [x \in Nat |-> x + more(k)]]
           Body(k, from) ==
             IF k > Len(f) THEN 0
             ELSE IF f[k] # "%" THEN from[k + 1]
             ELSE LET d == Directive(f, k)
                  IN  IF d.at > Len(f) THEN 0
                      ELSE from[d.at + 1] + (IF f[d.at] \in Specifiers THEN 1 ELSE 0)
<1>0. n \in Nat
  OBVIOUS
<1>1. \A k \in D \ B : k \in 1 .. n /\ After(f, k) \in k + 1 .. n + 1
  BY AfterIs
<1>2. \A k \in D : more(k) \in Nat
  OBVIOUS
<1> HIDE DEF more
<1>3. PICK g \in [D -> Nat] : \A k \in D : g[k] = IF k \in B THEN base[k] ELSE step[k][g[pre[k]]]
  <2>1. mu \in [D -> Nat] /\ base \in [B -> Nat] /\ B \in SUBSET D
    BY <1>0
  <2>2. pre \in [D \ B -> D] /\ \A k \in D \ B : mu[pre[k]] < mu[k]
    <3> HIDE DEF B
    <3> QED BY <1>0, <1>1
  <2>3. step \in [D \ B -> [Nat -> Nat]]
    <3> HIDE DEF B, n
    <3> QED BY <1>2
  <2>4. Descends(D, Nat, mu, B, base, pre, step)
    <3> HIDE DEF D, B, mu, pre, base, step
    <3> QED BY <2>1, <2>2, <2>3 DEF Descends
  <2> HIDE DEF D, B, mu, pre, base, step
  <2> QED BY <2>4, Recursion
<1>4. ASSUME NEW h, NEW k \in D
      PROVE  /\ Stops(f, k) => Body(k, h) = 0
             /\ ~Stops(f, k) /\ f[k] # "%" => Body(k, h) = h[After(f, k)]
             /\ ~Stops(f, k) /\ f[k] = "%" => Body(k, h) = h[After(f, k)] + more(k)
  <2>1. Stops(f, k) => Body(k, h) = 0
    BY Zenon DEF Stops
  <2>2. ~Stops(f, k) /\ f[k] # "%" => Body(k, h) = h[After(f, k)]
    BY Zenon DEF Stops, After
  <2>3. ~Stops(f, k) /\ f[k] = "%" => Body(k, h) = h[After(f, k)] + more(k)
    <3> SUFFICES ASSUME ~Stops(f, k), f[k] = "%" PROVE Body(k, h) = h[After(f, k)] + more(k)
      OBVIOUS
    <3>1. ~(k > Len(f)) /\ ~(Directive(f, k).at > Len(f)) /\ After(f, k) = Directive(f, k).at + 1
      BY Zenon DEF Stops, After
    <3>2. more(k) = IF f[Directive(f, k).at] \in Specifiers THEN 1 ELSE 0
      BY Zenon DEF more, Takes
    <3>3. Body(k, h) = h[Directive(f, k).at + 1] + (IF f[Directive(f, k).at] \in Specifiers THEN 1 ELSE 0)
      BY <3>1, Zenon
    <3> QED BY <3>1, <3>2, <3>3, Zenon
  <2> QED BY <2>1, <2>2, <2>3, Zenon
<1>5. g = [k \in D |-> Body(k, g)]
  <2>1. ASSUME NEW k \in D PROVE g[k] = Body(k, g)
    <3>1. Stops(f, k) => g[k] = 0
      BY <1>3
    <3>2. ~Stops(f, k) => g[k] = g[After(f, k)] + more(k) /\ After(f, k) \in D
      <4> SUFFICES ASSUME ~Stops(f, k) PROVE g[k] = g[After(f, k)] + more(k) /\ After(f, k) \in D
        OBVIOUS
      <4>1. k \in D \ B /\ After(f, k) \in D
        BY <1>0, <1>1
      <4>2. g[k] = step[k][g[After(f, k)]]
        BY <4>1, <1>3
      <4> QED BY <4>1, <4>2
    <3>3. ~Stops(f, k) /\ f[k] # "%" => more(k) = 0
      BY DEF more, Takes
    <3> HIDE DEF Body, B, step, base, pre, mu, n
    <3>4. ~Stops(f, k) => g[After(f, k)] \in Nat
      BY <3>2
    <3>5. ~Stops(f, k) /\ f[k] # "%" => g[k] = g[After(f, k)]
      <4> HIDE DEF D
      <4> QED BY <3>2, <3>3, <3>4
    <3> QED BY <1>4, <3>1, <3>2, <3>5, Zenon
  <2> HIDE DEF Body, D
  <2> QED BY <2>1
<1>6. Asked(f) = [k \in D |-> Body(k, Asked(f))]
  BY <1>5, Zenon DEF Asked
<1>7. \A k \in D : Asked(f)[k] = Body(k, Asked(f))
  <2> HIDE DEF Body, D
  <2> QED BY <1>6, Zenon
<1> HIDE DEF Body
<1>8. \A k \in D : Asked(f)[k] \in Nat
  <2> DEFINE Good == {k \in D : Asked(f)[k] \in Nat}
  <2>1. ASSUME NEW k \in D, \A j \in D : mu[j] < mu[k] => j \in Good
        PROVE  k \in Good
    <3>1. ~Stops(f, k) => After(f, k) \in D /\ mu[After(f, k)] < mu[k]
      <4> HIDE DEF Good
      <4> QED BY <1>0, <1>1
    <3>2. ~Stops(f, k) => Asked(f)[After(f, k)] \in Nat
      BY <3>1, <2>1
    <3> HIDE DEF mu, B, pre, base, step, D
    <3>3. Asked(f)[k] \in Nat
      BY <1>2, <1>4, <1>7, <3>2
    <3> QED BY <3>3
  <2>2. \A k \in D : k \in Good
    <3>1. mu \in [D -> Nat]
      BY <1>0
    <3> HIDE DEF D, Good, mu
    <3> QED BY <3>1, <2>1, MeasureInduction
  <2> QED BY <2>2
<1> SUFFICES ASSUME NEW k \in D
             PROVE  Asked(f)[k] = IF Stops(f, k) THEN 0 ELSE Asked(f)[After(f, k)] + more(k)
  BY <1>8, Zenon DEF more
<1>9. ~Stops(f, k) /\ f[k] # "%" => more(k) = 0
  BY DEF more, Takes
<1>10. ~Stops(f, k) => Asked(f)[After(f, k)] \in Nat
  BY <1>0, <1>1, <1>8
<1> HIDE DEF mu, B, pre, base, step, D, n
<1>11. ~Stops(f, k) /\ f[k] # "%" => Asked(f)[After(f, k)] = Asked(f)[After(f, k)] + more(k)
  BY <1>9, <1>10
<1> QED BY <1>4, <1>7, <1>11, Zenon

LEMMA PiecesAre ==
  ASSUME NEW f \in Seq(Char), NEW args
  PROVE  \A k \in 1 .. Len(f) + 1, a \in Nat :
           PiecesFrom(f, args)[k][a] =
             IF Stops(f, k) THEN << >>
             ELSE <<Piece(f, k, args, a)>> \o PiecesFrom(f, args)[After(f, k)][IF Takes(f, k) THEN a + 1 ELSE a]
<1> DEFINE n == Len(f)
           D == 1 .. n + 1
           V == {Piece(f, k, args, a) : k \in D, a \in Nat}
           S == [Nat -> Seq(V)]
           B == {k \in D : Stops(f, k)}
           mu == [k \in D |-> n + 1 - k]
           pre == [k \in D \ B |-> After(f, k)]
           base == [k \in B |-> [a \in Nat |-> << >>]]
           next(k, a) == IF Takes(f, k) THEN a + 1 ELSE a
           one(k, a) == <<Piece(f, k, args, a)>>
           step == [k \in D \ B |-> [h \in S |-> [a \in Nat |-> one(k, a) \o h[next(k, a)]]]]
           Body(k, a, from) ==
             IF k > Len(f) THEN << >>
             ELSE IF f[k] # "%" THEN <<<<f[k]>>>> \o from[k + 1][a]
             ELSE LET d == Directive(f, k)
                  IN  IF d.at > Len(f) THEN << >>
                      ELSE IF f[d.at] \in Specifiers
                      THEN <<Text(d, f[d.at], args[a + 1])>> \o from[d.at + 1][a + 1]
                      ELSE <<<<f[d.at]>>>> \o from[d.at + 1][a]
<1>0. n \in Nat
  OBVIOUS
<1>1. \A k \in D \ B : k \in 1 .. n /\ After(f, k) \in k + 1 .. n + 1
  BY AfterIs
<1>v. \A k \in D, a \in Nat : Piece(f, k, args, a) \in V
  <2> HIDE DEF D
  <2> QED OBVIOUS
<1>2. ASSUME NEW k \in D, NEW a \in Nat PROVE next(k, a) \in Nat /\ one(k, a) \in Seq(V)
  <2>1. next(k, a) \in Nat
    OBVIOUS
  <2> HIDE DEF V, D
  <2>2. Piece(f, k, args, a) \in V
    BY <1>v
  <2>3. one(k, a) \in Seq(V)
    BY <2>2, SeqOfOne
  <2> QED BY <2>1, <2>3
<1> HIDE DEF next, one, V
<1>3. PICK g \in [D -> S] : \A k \in D : g[k] = IF k \in B THEN base[k] ELSE step[k][g[pre[k]]]
  <2>1. mu \in [D -> Nat] /\ B \in SUBSET D
    BY <1>0
  <2>2. pre \in [D \ B -> D] /\ \A k \in D \ B : mu[pre[k]] < mu[k]
    <3> HIDE DEF B, S
    <3> QED BY <1>0, <1>1
  <2>e. << >> \in Seq(V)
    OBVIOUS
  <2>5. base \in [B -> S] /\ S # {}
    <3>1. [a \in Nat |-> << >>] \in S
      BY <2>e
    <3> HIDE DEF B, S, D
    <3> QED BY <3>1
  <2>3. step \in [D \ B -> [S -> S]]
    <3>1. ASSUME NEW k \in D \ B, NEW h \in S PROVE [a \in Nat |-> one(k, a) \o h[next(k, a)]] \in S
      <4>1. ASSUME NEW a \in Nat PROVE one(k, a) \o h[next(k, a)] \in Seq(V)
        <5>1. h[next(k, a)] \in Seq(V)
          BY <1>2
        <5>2. one(k, a) \in Seq(V)
          BY <1>2
        <5> QED BY <5>1, <5>2, Joined, Zenon
      <4> HIDE DEF D, B
      <4> QED BY <4>1
    <3> HIDE DEF B, D, S
    <3> QED BY <3>1
  <2>4. Descends(D, S, mu, B, base, pre, step)
    <3> HIDE DEF D, B, mu, pre, base, step, S
    <3> QED BY <2>1, <2>2, <2>3, <2>5 DEF Descends
  <2> HIDE DEF D, B, mu, pre, base, step, S
  <2> QED BY <2>4, Recursion
<1>4. ASSUME NEW h, NEW k \in D, NEW a \in Nat
      PROVE  Body(k, a, h) = IF Stops(f, k) THEN << >> ELSE one(k, a) \o h[After(f, k)][next(k, a)]
  <2>1. Stops(f, k) => Body(k, a, h) = << >>
    BY Zenon DEF Stops
  <2>2. ~Stops(f, k) /\ f[k] # "%" => Body(k, a, h) = one(k, a) \o h[After(f, k)][next(k, a)]
    BY Zenon DEF Stops, After, one, next, Piece, Takes
  <2>3. ~Stops(f, k) /\ f[k] = "%" => Body(k, a, h) = one(k, a) \o h[After(f, k)][next(k, a)]
    <3> DEFINE d == Directive(f, k)
    <3> SUFFICES ASSUME ~Stops(f, k), f[k] = "%" PROVE Body(k, a, h) = one(k, a) \o h[After(f, k)][next(k, a)]
      OBVIOUS
    <3>1. ~(k > Len(f)) /\ ~(d.at > Len(f)) /\ After(f, k) = d.at + 1
      BY Zenon DEF Stops, After
    <3>3. Body(k, a, h) = IF f[d.at] \in Specifiers
                          THEN <<Text(d, f[d.at], args[a + 1])>> \o h[d.at + 1][a + 1]
                          ELSE <<<<f[d.at]>>>> \o h[d.at + 1][a]
      BY <3>1, Zenon
    <3>4. one(k, a) = IF f[d.at] \in Specifiers THEN <<Text(d, f[d.at], args[a + 1])>> ELSE <<<<f[d.at]>>>>
      BY Zenon DEF one, Piece
    <3>5. next(k, a) = IF f[d.at] \in Specifiers THEN a + 1 ELSE a
      BY Zenon DEF next, Takes
    <3> HIDE DEF d, Body
    <3> QED BY <3>1, <3>3, <3>4, <3>5, Zenon
  <2> QED BY <2>1, <2>2, <2>3, Zenon
<1>5. g = [k \in D |-> [a \in Nat |-> Body(k, a, g)]]
  <2>1. ASSUME NEW k \in D PROVE g[k] = [a \in Nat |-> Body(k, a, g)]
    <3>1. CASE Stops(f, k)
      <4>1. g[k] = [a \in Nat |-> << >>]
        BY <3>1, <1>3
      <4>2. \A a \in Nat : Body(k, a, g) = << >>
        BY <3>1, <1>4, Zenon
      <4> HIDE DEF Body
      <4> QED BY <4>1, <4>2
    <3>2. CASE ~Stops(f, k)
      <4>1. k \in D \ B /\ After(f, k) \in D
        BY <3>2, <1>0, <1>1
      <4>2. g[k] = step[k][g[After(f, k)]] /\ g[After(f, k)] \in S
        <5> HIDE DEF step, S, D, B
        <5>1. pre[k] = After(f, k)
          BY <4>1
        <5> HIDE DEF pre, base
        <5> QED BY <4>1, <5>1, <1>3
      <4>3. g[k] = [a \in Nat |-> one(k, a) \o g[After(f, k)][next(k, a)]]
        <5> DEFINE h == g[After(f, k)]
        <5>1. h \in S /\ g[k] = step[k][h]
          BY <4>2
        <5> HIDE DEF h, S, D, B
        <5>2. step[k][h] = [a \in Nat |-> one(k, a) \o h[next(k, a)]]
          BY <4>1, <5>1
        <5> QED BY <5>1, <5>2, Zenon DEF h
      <4>4. \A a \in Nat : Body(k, a, g) = one(k, a) \o g[After(f, k)][next(k, a)]
        BY <3>2, <1>4, Zenon
      <4> HIDE DEF Body
      <4> QED BY <4>3, <4>4
    <3> QED BY <3>1, <3>2
  <2> HIDE DEF Body, D
  <2> QED BY <2>1
<1>6. PiecesFrom(f, args) = [k \in D |-> [a \in Nat |-> Body(k, a, PiecesFrom(f, args))]]
  BY <1>5, Zenon DEF PiecesFrom
<1>7. \A k \in D, a \in Nat : PiecesFrom(f, args)[k][a] = Body(k, a, PiecesFrom(f, args))
  <2> HIDE DEF Body, D
  <2> DEFINE P == PiecesFrom(f, args)
  <2>1. P = [k \in D |-> [a \in Nat |-> Body(k, a, P)]]
    BY <1>6
  <2> HIDE DEF P
  <2> QED BY <2>1 DEF P
<1> HIDE DEF Body
<1> QED BY <1>4, <1>7, Zenon DEF one, next

-----------------------------------------------------------------------------
(* The width of a directive *)
LEMMA Decimal ==
  /\ \A d \in 0 .. 9 : Digits[d + 1] \in Char
  /\ \A d, e \in 0 .. 9 : Digits[d + 1] = Digits[e + 1] => d = e
  /\ \A x : IsDigit(x) => Ctod(x) \in 0 .. 9 /\ Digits[Ctod(x) + 1] = x /\ (x # "0" => Ctod(x) # 0)
  /\ \A x : IsDigit(x) <=> x \in Range(Digits)
<1>1. Digits \in Seq(Char) /\ Len(Digits) = 10
  BY DigitsOfCode
<1>2. \A d \in 0 .. 9 : Digits[d + 1] \in Char
  <2> TAKE d \in 0 .. 9
  <2>1. d + 1 \in 1 .. 10
    OBVIOUS
  <2> HIDE DEF Digits
  <2> QED BY <2>1, <1>1, ElementOfSeq
<1>3. \A d, e \in 0 .. 9 : Digits[d + 1] = Digits[e + 1] => d = e
  BY SMTT(60) DEF Digits
<1>4. \A x : IsDigit(x) <=> \E i \in 1 .. 10 : Digits[i] = x
  BY <1>1 DEF IsDigit, Contains
<1>5. \A x : IsDigit(x) => Ctod(x) \in 0 .. 9 /\ Digits[Ctod(x) + 1] = x
  <2> SUFFICES ASSUME NEW x, IsDigit(x) PROVE Ctod(x) \in 0 .. 9 /\ Digits[Ctod(x) + 1] = x
    OBVIOUS
  <2>1. PICK i \in 1 .. 10 : Digits[i] = x
    BY <1>4
  <2>2. i - 1 \in 0 .. 9 /\ (i - 1) + 1 = i
    OBVIOUS
  <2>3. \E d \in 0 .. 9 : Digits[d + 1] = x
    BY <2>1, <2>2
  <2> HIDE DEF Digits
  <2> QED BY <2>3 DEF Ctod
<1>6. Digits[1] = "0" /\ Digits[0 + 1] = "0"
  BY DEF Digits
<1>7. \A x : IsDigit(x) <=> x \in Range(Digits)
  <2>1. DOMAIN Digits = 1 .. 10
    BY <1>1
  <2>2. \A x : x \in Range(Digits) <=> \E i \in 1 .. 10 : Digits[i] = x
    BY <2>1, Zenon DEF Range
  <2> QED BY <2>2, <1>4, Zenon
<1>8. \A x : IsDigit(x) => (x # "0" => Ctod(x) # 0)
  BY <1>5, <1>6
<1> QED BY <1>2, <1>3, <1>5, <1>7, <1>8

LEMMA RevDecimal ==
  \A n \in Nat :
    /\ RevDigits(n, 10, Digits) \in Seq(Char) /\ n \div 10 \in Nat /\ n % 10 \in 0 .. 9
    /\ n = (n \div 10) * 10 + (n % 10) /\ (n \div 10 # 0 => n \div 10 < n)
    /\ RevDigits(n, 10, Digits) = IF n \div 10 = 0 THEN <<Digits[(n % 10) + 1]>>
                                  ELSE <<Digits[(n % 10) + 1]>> \o RevDigits(n \div 10, 10, Digits)
<1>1. Digits \in Seq(Char) /\ Len(Digits) >= 10 /\ 10 \in Nat /\ 10 >= 2 /\ 10 \in Nat \ {0}
  BY DigitsOfCode
<1> HIDE DEF Digits
<1> TAKE n \in Nat
<1>2. /\ RevDigits(n, 10, Digits) \in Seq(Char)
      /\ RevDigits(n, 10, Digits) = IF n \div 10 = 0 THEN <<Digits[(n % 10) + 1]>>
                                    ELSE <<Digits[(n % 10) + 1]>> \o RevDigits(n \div 10, 10, Digits)
  BY <1>1, RevDigitsStep
<1>3. n = (n \div 10) * 10 + (n % 10) /\ n % 10 \in 0 .. 9 /\ n \div 10 \in Nat /\ (n \div 10 # 0 => n \div 10 < n)
  OBVIOUS
<1> QED BY <1>2, <1>3

LEMMA DecimalStep ==
  ASSUME NEW n \in Nat, NEW d \in 0 .. 9
  PROVE  /\ n # 0 => Numeral(10 * n + d, 10, Digits) = Numeral(n, 10, Digits) \o <<Digits[d + 1]>>
         /\ Numeral(d, 10, Digits) = <<Digits[d + 1]>> /\ Numeral(n, 10, Digits) \in Seq(Char)
<1> DEFINE R(x) == RevDigits(x, 10, Digits)
           m == 10 * n + d
           x == Digits[d + 1]
<1>1. \A y \in Nat : Numeral(y, 10, Digits) = Reverse(R(y)) /\ Numeral(y, 10, Digits) \in Seq(Char) /\ R(y) \in Seq(Char)
  <2>1. Digits \in Seq(Char) /\ Len(Digits) >= 10 /\ 10 \in Nat /\ 10 >= 2
    BY DigitsOfCode
  <2> TAKE y \in Nat
  <2> HIDE DEF Digits
  <2> QED BY <2>1, NumeralIs
<1>2. x \in Char
  BY Decimal
<1>3. <<x>> \in Seq(Char) /\ Reverse(<<x>>) = <<x>>
  BY <1>2, ReverseOne, SeqOfOne
<1>4. d \div 10 = 0 /\ d % 10 = d /\ d \in Nat
  OBVIOUS
<1>5. R(d) = <<x>>
  BY <1>4, RevDecimal
<1>6. m \in Nat /\ m \div 10 = n /\ m % 10 = d
  OBVIOUS
<1> HIDE DEF m, x
<1>7. n # 0 => R(m) = <<x>> \o R(n)
  <2>1. R(m) = IF m \div 10 = 0 THEN <<Digits[(m % 10) + 1]>> ELSE <<Digits[(m % 10) + 1]>> \o R(m \div 10)
    BY <1>6, RevDecimal
  <2> HIDE DEF R
  <2> QED BY <2>1, <1>6, Zenon DEF x
<1> HIDE DEF R
<1>8. n # 0 => Reverse(R(m)) = Reverse(R(n)) \o <<x>>
  BY <1>1, <1>3, <1>7, ReverseConcat
<1>9. n # 0 => Numeral(m, 10, Digits) = Numeral(n, 10, Digits) \o <<x>>
  BY <1>1, <1>6, <1>8
<1>10. Numeral(d, 10, Digits) = <<x>>
  BY <1>1, <1>3, <1>4, <1>5
<1> QED BY <1>1, <1>9, <1>10 DEF m, x

LEMMA DecimalInjective ==
  \A n \in Nat : \A m \in Nat : Numeral(n, 10, Digits) = Numeral(m, 10, Digits) => n = m
<1> DEFINE D == Nat
           mu == [n \in Nat |-> n]
           R(n) == RevDigits(n, 10, Digits)
           x(n) == Digits[(n % 10) + 1]
           q(n) == n \div 10
           Good == {n \in D : \A m \in D : R(n) = R(m) => n = m}
<1>1. \A n \in Nat : R(n) \in Seq(Char) /\ q(n) \in Nat /\ x(n) \in Char
                     /\ R(n) = IF q(n) = 0 THEN <<x(n)>> ELSE <<x(n)>> \o R(q(n))
  BY RevDecimal, Decimal
<1>2. \A n \in Nat : q(n) # 0 => q(n) < n
  OBVIOUS
<1>3. \A n, m \in Nat : q(n) = q(m) /\ x(n) = x(m) => n = m
  <2> TAKE n, m \in Nat
  <2> SUFFICES ASSUME q(n) = q(m), x(n) = x(m) PROVE n = m
    OBVIOUS
  <2>1. n % 10 \in 0 .. 9 /\ m % 10 \in 0 .. 9
    OBVIOUS
  <2>2. n % 10 = m % 10
    BY <2>1, Decimal
  <2> QED BY <2>2
<1> HIDE DEF R, x, q
<1>4. \A n \in Nat : /\ R(n) # << >> /\ Head(R(n)) = x(n)
                     /\ Tail(R(n)) = IF q(n) = 0 THEN << >> ELSE R(q(n))
  <2> TAKE n \in Nat
  <2>1. CASE q(n) = 0
    <3> DEFINE y == x(n)
    <3>1. y \in Char /\ R(n) = <<y>>
      BY <1>1, <2>1
    <3> HIDE DEF y
    <3>2. <<y>> # << >> /\ Head(<<y>>) = y /\ Tail(<<y>>) = << >>
      OBVIOUS
    <3> QED BY <3>1, <3>2, <2>1, Zenon DEF y
  <2>2. CASE q(n) # 0
    <3> DEFINE y == x(n)
               s == R(q(n))
    <3>1. y \in Char /\ s \in Seq(Char) /\ R(n) = <<y>> \o s
      BY <1>1, <2>2
    <3> HIDE DEF y, s
    <3>2. <<y>> \o s # << >> /\ Head(<<y>> \o s) = y /\ Tail(<<y>> \o s) = s
      BY <3>1
    <3> QED BY <3>1, <3>2, <2>2 DEF y, s
  <2> QED BY <2>1, <2>2
<1>5. \A n \in Nat : R(n) # << >>
  BY <1>4
<1>6. ASSUME NEW n \in D, \A e \in D : mu[e] < mu[n] => e \in Good
      PROVE  n \in Good
  <2> SUFFICES ASSUME NEW m \in D, R(n) = R(m) PROVE n = m
    OBVIOUS
  <2>1. x(n) = x(m) /\ (IF q(n) = 0 THEN << >> ELSE R(q(n))) = IF q(m) = 0 THEN << >> ELSE R(q(m))
    BY <1>4
  <2>2. q(n) = 0 <=> q(m) = 0
    BY <2>1, <1>1, <1>5
  <2>3. q(n) # 0 => R(q(n)) = R(q(m)) /\ mu[q(n)] < mu[n]
    BY <2>1, <2>2, <1>1, <1>2
  <2>4. q(n) # 0 => q(n) = q(m)
    BY <2>3, <1>1, <1>6
  <2> HIDE DEF mu, Good
  <2> QED BY <2>1, <2>2, <2>4, <1>3
<1>7. \A n \in D : n \in Good
  <2>1. mu \in [D -> Nat]
    OBVIOUS
  <2> HIDE DEF D, mu, Good
  <2> QED BY <2>1, <1>6, MeasureInduction
<1> SUFFICES ASSUME NEW n \in Nat, NEW m \in Nat, Numeral(n, 10, Digits) = Numeral(m, 10, Digits) PROVE R(n) = R(m)
  BY <1>7
<1>8. \A y \in Nat : Numeral(y, 10, Digits) = Reverse(R(y))
  <2>1. Digits \in Seq(Char) /\ Len(Digits) >= 10 /\ 10 \in Nat /\ 10 >= 2
    BY DigitsOfCode
  <2> TAKE y \in Nat
  <2> HIDE DEF Digits, D, mu, Good
  <2> QED BY <2>1, NumeralIs DEF R
<1> DEFINE s == R(n)
           t == R(m)
<1>9. s \in Seq(Char) /\ t \in Seq(Char) /\ Reverse(s) = Reverse(t)
  BY <1>1, <1>8
<1> HIDE DEF s, t
<1>10. \A u \in Seq(Char) : Len(Reverse(u)) = Len(u) /\ Len(u) \in Nat
                            /\ \A i \in 1 .. Len(u) : Reverse(u)[i] = u[(Len(u) - i) + 1]
  BY ReverseIs
<1>11. Len(s) = Len(t)
  BY <1>9, <1>10
<1>12. \A i \in 1 .. Len(s) : s[i] = t[i]
  <2> TAKE i \in 1 .. Len(s)
  <2>1. PICK l \in Nat : l = Len(s)
    BY <1>9, <1>10
  <2>2. l - i + 1 \in 1 .. l /\ (l - (l - i + 1)) + 1 = i
    BY <2>1
  <2>3. \A j \in 1 .. l : s[(l - j) + 1] = t[(l - j) + 1]
    BY <2>1, <1>9, <1>10, <1>11
  <2> QED BY <2>2, <2>3
<1>13. s = t
  BY <1>9, <1>11, <1>12, SeqEqual
<1> QED BY <1>13 DEF s, t

LEMMA SubSeqMore ==
  ASSUME NEW S, NEW f \in Seq(S), NEW a \in 0 .. Len(f), NEW e \in a .. Len(f)
  PROVE  /\ SubSeq(f, a + 1, e) \in Seq(S) /\ Len(SubSeq(f, a + 1, e)) = e - a
         /\ e < Len(f) => SubSeq(f, a + 1, e + 1) = SubSeq(f, a + 1, e) \o <<f[e + 1]>>
         /\ e < Len(f) /\ e = a => SubSeq(f, a + 1, e + 1) = <<f[e + 1]>>
<1> DEFINE m == a + 1
           n == e + 1
<1>1. Len(f) \in Nat /\ a \in Nat /\ e \in Nat /\ m \in Int /\ m \in Nat /\ e - m + 1 = e - a
  OBVIOUS
<1>2. \A i \in m .. e : f[i] \in S
  BY <1>1, ElementOfSeq
<1>3. SubSeq(f, m, e) \in Seq(S) /\ Len(SubSeq(f, m, e)) = IF m <= e THEN e - m + 1 ELSE 0
  <2> HIDE DEF m
  <2> QED BY <1>1, <1>2, SubSeqProperties
<1>4. (IF m <= e THEN e - m + 1 ELSE 0) = e - a
  BY <1>1
<1>5. ASSUME e < Len(f) PROVE SubSeq(f, m, n) = SubSeq(f, m, e) \o <<f[n]>>
  <2>1. m \in 1 .. Len(f) /\ n \in m .. Len(f) /\ n - 1 = e
    BY <1>1, <1>5
  <2> HIDE DEF m, n
  <2>2. SubSeq(f, m, n) = SubSeq(f, m, n - 1) \o <<f[n]>>
    BY <2>1, SubSeqRecursiveSecond
  <2> QED BY <2>1, <2>2
<1>6. ASSUME e < Len(f), e = a PROVE SubSeq(f, m, n) = <<f[n]>>
  <2>1. SubSeq(f, m, e) = << >>
    <3>1. e < m
      BY <1>1, <1>6
    <3> HIDE DEF m
    <3> QED BY <3>1, <1>1, SubSeqEmpty
  <2>2. f[n] \in S
    <3>1. n \in 1 .. Len(f)
      BY <1>1, <1>6
    <3> HIDE DEF n
    <3> QED BY <3>1, ElementOfSeq
  <2>3. << >> \o <<f[n]>> = <<f[n]>>
    <3> DEFINE x == f[n]
    <3>1. <<x>> \in Seq(S)
      BY <2>2, SeqOfOne
    <3> HIDE DEF x
    <3>2. << >> \o <<x>> = <<x>>
      BY <3>1, ConcatEmptySeq
    <3> QED BY <3>2 DEF x
  <2> HIDE DEF m, n
  <2> QED BY <2>1, <2>3, <1>5, <1>6
<1> QED BY <1>3, <1>4, <1>5, <1>6

\* The width read so far, a being where the flags end and e the last one read.
WidthSoFar(f, a, e, w) ==
  w \in Nat /\ (e = a => w = 0) /\ (e > a => w # 0 /\ Numeral(w, 10, Digits) = SubSeq(f, a + 1, e))

LEMMA WidthMore ==
  ASSUME NEW f \in Seq(Char), NEW a \in 0 .. Len(f), NEW e \in a .. Len(f), e < Len(f),
         NEW w, WidthSoFar(f, a, e, w), IsDigit(f[e + 1]), f[a + 1] # "0"
  PROVE  WidthSoFar(f, a, e + 1, 10 * w + Ctod(f[e + 1]))
<1> DEFINE x == f[e + 1]
           d == Ctod(x)
           v == 10 * w + d
<1>1. w \in Nat /\ a \in Nat /\ e \in Nat /\ e + 1 > a /\ e + 1 # a
  BY DEF WidthSoFar
<1>2. d \in 0 .. 9 /\ Digits[d + 1] = x /\ (x # "0" => d # 0)
  BY Decimal
<1> HIDE DEF d
<1>3. v \in Nat
  BY <1>1, <1>2
<1>4. /\ w # 0 => Numeral(v, 10, Digits) = Numeral(w, 10, Digits) \o <<x>>
      /\ Numeral(d, 10, Digits) = <<x>>
  BY <1>1, <1>2, DecimalStep
<1>5. /\ SubSeq(f, a + 1, e + 1) = SubSeq(f, a + 1, e) \o <<x>>
      /\ e = a => SubSeq(f, a + 1, e + 1) = <<x>>
  BY SubSeqMore
<1>6. CASE e = a
  <2>1. w = 0 /\ x # "0"
    BY <1>6 DEF WidthSoFar
  <2>2. v = d /\ d # 0
    BY <2>1, <1>2
  <2>3. Numeral(v, 10, Digits) = SubSeq(f, a + 1, e + 1)
    BY <2>2, <1>4, <1>5, <1>6
  <2> HIDE DEF v, x
  <2>4. v # 0
    BY <2>2
  <2> QED BY <1>1, <1>3, <2>3, <2>4, Zenon DEF WidthSoFar, v, d, x
<1>7. CASE e > a
  <2>1. w # 0 /\ Numeral(w, 10, Digits) = SubSeq(f, a + 1, e)
    BY <1>7 DEF WidthSoFar
  <2>2. v # 0
    BY <2>1, <1>1, <1>2
  <2>3. Numeral(v, 10, Digits) = SubSeq(f, a + 1, e + 1)
    BY <2>1, <1>4, <1>5
  <2> HIDE DEF v, x
  <2> QED BY <1>1, <1>3, <2>2, <2>3, Zenon DEF WidthSoFar, v, d, x
<1> QED BY <1>1, <1>6, <1>7

LEMMA WidthDone ==
  ASSUME NEW f \in Seq(Char), NEW k \in 1 .. Len(f), NEW w,
         WidthSoFar(f, FlagsEnd(f, k), WidthEnd(f, k), w)
  PROVE  w = WidthOf(f, k) /\ w \in Nat
<1> DEFINE a == FlagsEnd(f, k)
           e == WidthEnd(f, k)
           P == Power(10)[e - a]
<1>1. a \in k .. Len(f) /\ e \in a .. Len(f) /\ Len(f) \in Nat
  BY DirectiveParts
<1>2. w \in Nat /\ (e = a => w = 0) /\ (e > a => w # 0 /\ Numeral(w, 10, Digits) = SubSeq(f, a + 1, e))
  BY DEF WidthSoFar
<1>3. WidthOf(f, k) = IF e = a THEN 0
                      ELSE CHOOSE n \in 1 .. P : Numeral(n, 10, Digits) = SubSeq(f, a + 1, e)
  BY Zenon DEF WidthOf
<1> HIDE DEF a, e
<1>4. ASSUME e # a PROVE w = CHOOSE n \in 1 .. P : Numeral(n, 10, Digits) = SubSeq(f, a + 1, e)
  <2>1. w # 0 /\ Numeral(w, 10, Digits) = SubSeq(f, a + 1, e)
    BY <1>1, <1>2, <1>4
  <2>2. a \in 0 .. Len(f)
    BY <1>1
  <2>3. Len(SubSeq(f, a + 1, e)) = e - a
    BY <1>1, <2>2, SubSeqMore
  <2>4. /\ Len(Numeral(w, 10, Digits)) = Len(RevDigits(w, 10, Digits))
        /\ w < Power(10)[Len(RevDigits(w, 10, Digits))]
    <3>1. Digits \in Seq(Char) /\ Len(Digits) >= 10 /\ 10 \in Nat /\ 10 >= 2
      BY DigitsOfCode
    <3> HIDE DEF Digits, P
    <3> QED BY <3>1, <1>2, NumeralIs
  <2>5. w < P
    BY <2>1, <2>3, <2>4
  <2>6. P \in Nat
    <3>1. e - a \in Nat
      BY <1>1
    <3>2. 10 \in Nat /\ 10 >= 2
      OBVIOUS
    <3> QED BY <3>1, <3>2, PowerIs
  <2> HIDE DEF P
  <2>7. w \in 1 .. P
    BY <2>1, <2>5, <2>6, <1>2
  <2>8. \A n \in 1 .. P : Numeral(n, 10, Digits) = SubSeq(f, a + 1, e) => n = w
    <3> SUFFICES ASSUME NEW n \in 1 .. P, Numeral(n, 10, Digits) = SubSeq(f, a + 1, e) PROVE n = w
      OBVIOUS
    <3>1. n \in Nat
      BY <2>6
    <3>2. Numeral(n, 10, Digits) = Numeral(w, 10, Digits)
      BY <2>1, Zenon
    <3> QED BY <3>1, <3>2, <1>2, DecimalInjective, Zenon
  <2> QED BY <2>1, <2>7, <2>8
<1> QED BY <1>2, <1>3, <1>4

-----------------------------------------------------------------------------
(* Reading a directive: f[k] is its "%", i is where lp_Print has come to and *)
(* d what it knows by then.                                                  *)
Dirs == [ladjust : BOOLEAN, padc : {" ", "0"}, width : Nat]
Matches(d, e) == d.width = e.width /\ d.ladjust = e.left /\ d.padc = PadChar(e)
FlagsTo(f, k, e, d) ==
  /\ d.ladjust = (\E j \in k + 1 .. e : f[j] = "-")
  /\ d.padc = IF \E j \in k + 1 .. e : f[j] = "0" THEN "0" ELSE " "

InFlags(f, k, i, d) ==
  /\ i - 1 \in k .. Len(f) /\ \A j \in k + 1 .. i - 1 : f[j] \in Flag
  /\ FlagsTo(f, k, i - 1, d) /\ d.width = 0
InWidth(f, k, i, d) ==
  /\ i - 1 \in FlagsEnd(f, k) .. Len(f) /\ \A j \in FlagsEnd(f, k) + 1 .. i - 1 : f[j] \in Range(Digits)
  /\ FlagsTo(f, k, FlagsEnd(f, k), d) /\ WidthSoFar(f, FlagsEnd(f, k), i - 1, d.width)
InPrec(f, k, i, d) ==
  /\ HasPrec(f, k) /\ i - 1 \in WidthEnd(f, k) + 1 .. Len(f)
  /\ \A j \in WidthEnd(f, k) + 2 .. i - 1 : f[j] \in Range(Digits)
  /\ Matches(d, Directive(f, k))
InLength(f, k, i, d)  == i - 1 = PrecEnd(f, k) /\ Matches(d, Directive(f, k))
InConvert(f, k, i, d) == i = Directive(f, k).at /\ Matches(d, Directive(f, k))

LEMMA ReadFlag ==
  ASSUME NEW f \in Seq(Char), NEW k \in 1 .. Len(f), NEW i \in Nat, i <= Len(f), NEW d \in Dirs,
         InFlags(f, k, i, d), f[i] \in Flag,
         NEW e \in Dirs, e.width = d.width,
         f[i] = "-" => e.ladjust = TRUE /\ e.padc = d.padc,
         f[i] = "0" => e.ladjust = d.ladjust /\ e.padc = "0"
  PROVE  InFlags(f, k, i + 1, e)
<1> DEFINE m == i - 1
<1>1. Len(f) \in Nat /\ m \in k .. Len(f) /\ i \in k + 1 .. Len(f) /\ (i + 1) - 1 = i /\ i \in k .. Len(f)
  BY DEF InFlags
<1>2. \A j \in k + 1 .. i : j = i \/ j \in k + 1 .. m
  BY <1>1
<1>3. \A j \in k + 1 .. i : f[j] \in Flag
  BY <1>2 DEF InFlags
<1>4. \A x : (\E j \in k + 1 .. i : f[j] = x) <=> f[i] = x \/ \E j \in k + 1 .. m : f[j] = x
  BY <1>1, <1>2
<1>5. d.ladjust = (\E j \in k + 1 .. m : f[j] = "-") /\ d.padc = (IF \E j \in k + 1 .. m : f[j] = "0" THEN "0" ELSE " ")
  BY DEF InFlags, FlagsTo
<1>6. f[i] = "-" \/ f[i] = "0"
  BY DEF Flag
<1>7. FlagsTo(f, k, i, e)
  <2>1. e.ladjust = (\E j \in k + 1 .. i : f[j] = "-")
    BY <1>4, <1>5, <1>6 DEF Dirs
  <2>2. e.padc = IF \E j \in k + 1 .. i : f[j] = "0" THEN "0" ELSE " "
    BY <1>4, <1>5, <1>6
  <2> QED BY <2>1, <2>2, Zenon DEF FlagsTo
<1>8. e.width = 0
  BY DEF InFlags
<1> QED BY <1>1, <1>3, <1>7, <1>8 DEF InFlags

LEMMA FlagsRead ==
  ASSUME NEW f \in Seq(Char), NEW k \in 1 .. Len(f), NEW i \in Nat, NEW d \in Dirs,
         InFlags(f, k, i, d), i <= Len(f) => f[i] \notin Flag
  PROVE  InWidth(f, k, i, d)
<1> DEFINE m == i - 1
<1>1. Len(f) \in Nat /\ m \in k .. Len(f) /\ m + 1 = i /\ \A j \in k + 1 .. m : f[j] \in Flag
  BY DEF InFlags
<1>2. FlagsEnd(f, k) = m
  <2>1. RunIs(f, k, Flag, m)
    BY <1>1 DEF RunIs
  <2>2. k \in 0 .. Len(f)
    BY <1>1
  <2> HIDE DEF m
  <2> QED BY <1>1, <2>1, <2>2, RunEndIs DEF FlagsEnd
<1>3. WidthSoFar(f, m, m, d.width)
  <2>1. d.width = 0
    BY DEF InFlags
  <2> QED BY <2>1, <1>1 DEF WidthSoFar
<1>4. FlagsTo(f, k, m, d)
  BY DEF InFlags
<1>5. \A j \in m + 1 .. m : f[j] \in Range(Digits)
  BY <1>1
<1>6. m \in m .. Len(f)
  BY <1>1
<1> HIDE DEF m
<1> QED BY <1>2, <1>3, <1>4, <1>5, <1>6 DEF InWidth, m

LEMMA FlagsMatch ==
  ASSUME NEW f \in Seq(Char), NEW k \in 1 .. Len(f), NEW d \in Dirs,
         FlagsTo(f, k, FlagsEnd(f, k), d), d.width = WidthOf(f, k)
  PROVE  Matches(d, Directive(f, k))
<1>1. /\ Directive(f, k).left = (\E j \in k + 1 .. FlagsEnd(f, k) : f[j] = "-")
      /\ Directive(f, k).zeros = (\E j \in k + 1 .. FlagsEnd(f, k) : f[j] = "0")
      /\ Directive(f, k).width = WidthOf(f, k)
  BY DirectiveIs
<1> QED BY <1>1, Zenon DEF FlagsTo, Matches, PadChar

\* Where the flags end no "0" follows.
LEMMA AfterFlags ==
  ASSUME NEW f \in Seq(Char), NEW k \in 1 .. Len(f), FlagsEnd(f, k) < Len(f)
  PROVE  f[FlagsEnd(f, k) + 1] # "0"
<1>1. Len(f) \in Nat
  OBVIOUS
<1>2. RunIs(f, k, Flag, FlagsEnd(f, k))
  BY <1>1, DirectiveParts
<1> QED BY <1>2 DEF RunIs, Flag

LEMMA ReadDigit ==
  ASSUME NEW f \in Seq(Char), NEW k \in 1 .. Len(f), NEW i \in Nat, i <= Len(f), NEW d \in Dirs,
         InWidth(f, k, i, d), IsDigit(f[i]),
         NEW e, e.width = 10 * d.width + Ctod(f[i]), e.ladjust = d.ladjust, e.padc = d.padc
  PROVE  InWidth(f, k, i + 1, e) /\ e.width \in Nat
<1> DEFINE a == FlagsEnd(f, k)
           m == i - 1
           w == d.width
           v == e.width
<1>1. Len(f) \in Nat /\ a \in k .. Len(f) /\ a \in 0 .. Len(f)
  BY DirectiveParts
<1>2. m \in a .. Len(f) /\ \A j \in a + 1 .. m : f[j] \in Range(Digits)
  BY DEF InWidth
<1>3. WidthSoFar(f, a, m, w) /\ FlagsTo(f, k, a, d)
  BY DEF InWidth
<1>4. m < Len(f) /\ m + 1 = i /\ (i + 1) - 1 = i /\ i \in a .. Len(f) /\ a < Len(f)
  BY <1>1, <1>2
<1>5. f[a + 1] # "0"
  BY <1>4, AfterFlags
<1>6. WidthSoFar(f, a, i, v)
  <2>1. IsDigit(f[m + 1]) /\ v = 10 * w + Ctod(f[m + 1])
    BY <1>4
  <2> HIDE DEF a, m, w, v
  <2>2. WidthSoFar(f, a, m + 1, 10 * w + Ctod(f[m + 1]))
    BY <1>1, <1>2, <1>3, <1>4, <1>5, <2>1, WidthMore
  <2> QED BY <2>1, <2>2, <1>4, Zenon
<1>7. \A j \in a + 1 .. i : f[j] \in Range(Digits)
  <2>1. f[i] \in Range(Digits)
    BY Decimal
  <2>2. \A j \in a + 1 .. i : j = i \/ j \in a + 1 .. m
    BY <1>1, <1>4
  <2> QED BY <2>1, <2>2, <1>2
<1>8. FlagsTo(f, k, a, e)
  BY <1>3, Zenon DEF FlagsTo
<1>9. v \in Nat
  BY <1>6 DEF WidthSoFar
<1> HIDE DEF a, v
<1> QED BY <1>4, <1>6, <1>7, <1>8, <1>9, Zenon DEF InWidth, a, v

\* The width ends where no digit follows.
LEMMA WidthRead ==
  ASSUME NEW f \in Seq(Char), NEW k \in 1 .. Len(f), NEW i \in Nat, NEW d \in Dirs,
         InWidth(f, k, i, d), i <= Len(f) => ~IsDigit(f[i])
  PROVE  i - 1 = WidthEnd(f, k) /\ Matches(d, Directive(f, k)) /\ i - 1 \in k .. Len(f)
<1> DEFINE a == FlagsEnd(f, k)
           m == i - 1
<1>1. Len(f) \in Nat /\ a \in k .. Len(f) /\ a \in 0 .. Len(f)
  BY DirectiveParts
<1>2. m \in a .. Len(f) /\ (\A j \in a + 1 .. m : f[j] \in Range(Digits)) /\ m + 1 = i
  BY DEF InWidth
<1>3. WidthSoFar(f, a, m, d.width) /\ FlagsTo(f, k, a, d)
  BY DEF InWidth
<1>4. RunIs(f, a, Range(Digits), m)
  <2>1. m < Len(f) => f[m + 1] \notin Range(Digits)
    BY <1>2, <1>1, Decimal
  <2> HIDE DEF a, m
  <2> QED BY <2>1, <1>2 DEF RunIs
<1> HIDE DEF a, m
<1>5. m = WidthEnd(f, k)
  BY <1>1, <1>4, RunEndIs DEF WidthEnd, a
<1>6. d.width = WidthOf(f, k)
  BY <1>3, <1>5, WidthDone DEF a
<1>7. Matches(d, Directive(f, k))
  BY <1>3, <1>6, FlagsMatch DEF a
<1>8. m \in k .. Len(f)
  BY <1>1, <1>2
<1> QED BY <1>5, <1>7, <1>8 DEF m

LEMMA ReadPoint ==
  ASSUME NEW f \in Seq(Char), NEW k \in 1 .. Len(f), NEW i \in Nat, i <= Len(f), NEW d \in Dirs,
         InWidth(f, k, i, d), ~IsDigit(f[i]), f[i] = "."
  PROVE  InPrec(f, k, i + 1, d)
<1>1. i - 1 = WidthEnd(f, k) /\ Matches(d, Directive(f, k)) /\ i - 1 \in k .. Len(f) /\ Len(f) \in Nat
  BY WidthRead
<1>2. HasPrec(f, k)
  BY <1>1 DEF HasPrec
<1> DEFINE e == WidthEnd(f, k)
<1>3. e = i - 1
  BY <1>1
<1> HIDE DEF e
<1>4. (i + 1) - 1 \in e + 1 .. Len(f) /\ \A j \in e + 2 .. (i + 1) - 1 : f[j] \in Range(Digits)
  BY <1>1, <1>3
<1> QED BY <1>1, <1>2, <1>4, Zenon DEF InPrec, e

LEMMA NoPoint ==
  ASSUME NEW f \in Seq(Char), NEW k \in 1 .. Len(f), NEW i \in Nat, NEW d \in Dirs,
         InWidth(f, k, i, d), i <= Len(f) => ~IsDigit(f[i]) /\ f[i] # "."
  PROVE  InLength(f, k, i, d)
<1>1. i - 1 = WidthEnd(f, k) /\ Matches(d, Directive(f, k)) /\ i - 1 \in k .. Len(f) /\ Len(f) \in Nat
  BY WidthRead
<1>2. ~HasPrec(f, k)
  BY <1>1 DEF HasPrec
<1> QED BY <1>1, <1>2, Zenon DEF InLength, PrecEnd

LEMMA ReadPrecDigit ==
  ASSUME NEW f \in Seq(Char), NEW k \in 1 .. Len(f), NEW i \in Nat, i <= Len(f), NEW d \in Dirs,
         InPrec(f, k, i, d), IsDigit(f[i])
  PROVE  InPrec(f, k, i + 1, d)
<1> DEFINE e == WidthEnd(f, k)
<1>1. e \in k .. Len(f) /\ Len(f) \in Nat /\ HasPrec(f, k) /\ Matches(d, Directive(f, k))
  BY DirectiveParts DEF InPrec
<1>2. i - 1 \in e + 1 .. Len(f) /\ \A j \in e + 2 .. i - 1 : f[j] \in Range(Digits)
  BY DEF InPrec
<1>3. f[i] \in Range(Digits)
  BY Decimal
<1> HIDE DEF e
<1>4. (i + 1) - 1 \in e + 1 .. Len(f) /\ \A j \in e + 2 .. (i + 1) - 1 : j = i \/ j \in e + 2 .. i - 1
  BY <1>1, <1>2
<1>5. \A j \in e + 2 .. (i + 1) - 1 : f[j] \in Range(Digits)
  BY <1>2, <1>3, <1>4
<1> QED BY <1>1, <1>4, <1>5, Zenon DEF InPrec, e

LEMMA PrecRead ==
  ASSUME NEW f \in Seq(Char), NEW k \in 1 .. Len(f), NEW i \in Nat, NEW d \in Dirs,
         InPrec(f, k, i, d), i <= Len(f) => ~IsDigit(f[i])
  PROVE  InLength(f, k, i, d)
<1> DEFINE e == WidthEnd(f, k)
           m == i - 1
<1>1. e \in k .. Len(f) /\ Len(f) \in Nat /\ HasPrec(f, k) /\ Matches(d, Directive(f, k))
  BY DirectiveParts DEF InPrec
<1>2. m \in e + 1 .. Len(f) /\ (\A j \in e + 2 .. m : f[j] \in Range(Digits)) /\ m + 1 = i
  BY DEF InPrec
<1>3. m < Len(f) => f[m + 1] \notin Range(Digits)
  BY <1>1, <1>2, Decimal
<1>4. RunIs(f, e + 1, Range(Digits), m) /\ e + 1 \in 0 .. Len(f)
  <2> HIDE DEF e, m
  <2>1. (e + 1) + 1 = e + 2 /\ e + 1 \in 0 .. Len(f)
    BY <1>1, <1>2
  <2> QED BY <2>1, <1>2, <1>3 DEF RunIs
<1>5. m = PrecEnd(f, k)
  <2> HIDE DEF m
  <2>1. m = RunEnd(f, e + 1, Range(Digits))
    <3> HIDE DEF e
    <3> QED BY <1>1, <1>4, RunEndIs
  <2> QED BY <2>1, <1>1, Zenon DEF PrecEnd
<1> QED BY <1>1, <1>5, Zenon DEF InLength

LEMMA ReadLong ==
  ASSUME NEW f \in Seq(Char), NEW k \in 1 .. Len(f), NEW i \in Nat, NEW d, InLength(f, k, i, d)
  PROVE  InConvert(f, k, IF i <= Len(f) /\ f[i] = "l" THEN i + 1 ELSE i, d) /\ i \in 1 .. Len(f) + 1
<1> DEFINE p == PrecEnd(f, k)
<1>1. /\ p \in k .. Len(f) /\ Len(f) \in Nat
      /\ Directive(f, k).at = IF p < Len(f) /\ f[p + 1] = "l" THEN p + 2 ELSE p + 1
  <2>1. /\ FlagsEnd(f, k) \in k .. Len(f) /\ WidthEnd(f, k) \in FlagsEnd(f, k) .. Len(f)
        /\ p \in WidthEnd(f, k) .. Len(f)
    BY DirectiveParts
  <2>2. Directive(f, k).at = IF p < Len(f) /\ f[p + 1] = "l" THEN p + 2 ELSE p + 1
    BY DirectiveIs, Zenon DEF IsLong
  <2> QED BY <2>1, <2>2
<1>2. p = i - 1 /\ Matches(d, Directive(f, k))
  BY DEF InLength
<1> HIDE DEF p
<1>3. Directive(f, k).at = (IF i <= Len(f) /\ f[i] = "l" THEN i + 1 ELSE i) /\ i \in 1 .. Len(f) + 1
  BY <1>1, <1>2
<1> QED BY <1>2, <1>3 DEF InConvert

\* Every directive has a width.
LEMMA DirectiveOk ==
  ASSUME NEW f \in Seq(Char), NEW k \in 1 .. Len(f)
  PROVE  DirOk(Directive(f, k))
<1> DEFINE a == FlagsEnd(f, k)
           b == WidthEnd(f, k)
           D == a .. b
           mu == [e \in D |-> e - a]
           Good == {e \in D : \E w \in Nat : WidthSoFar(f, a, e, w)}
<1>1. a \in k .. Len(f) /\ b \in a .. Len(f) /\ Len(f) \in Nat /\ RunIs(f, a, Range(Digits), b)
  BY DirectiveParts
<1>2. \A e \in D : mu[e] \in Nat
  BY <1>1
<1>3. ASSUME NEW e \in D, \A x \in D : mu[x] < mu[e] => x \in Good PROVE e \in Good
  <2>1. CASE e = a
    <3>1. WidthSoFar(f, a, e, 0)
      BY <2>1, <1>1 DEF WidthSoFar
    <3> QED BY <3>1
  <2>2. CASE e # a
    <3>1. e - 1 \in D /\ mu[e - 1] < mu[e] /\ e - 1 \in a .. Len(f) /\ e - 1 < Len(f) /\ (e - 1) + 1 = e
          /\ a < Len(f) /\ a \in 0 .. Len(f) /\ e \in a + 1 .. b
      BY <2>2, <1>1
    <3>2. PICK w \in Nat : WidthSoFar(f, a, e - 1, w)
      BY <3>1, <1>3
    <3>3. f[a + 1] # "0"
      BY <3>1, AfterFlags
    <3>4. IsDigit(f[e])
      BY <3>1, <1>1, Decimal DEF RunIs
    <3>5. WidthSoFar(f, a, (e - 1) + 1, 10 * w + Ctod(f[(e - 1) + 1]))
      <4> DEFINE m == e - 1
      <4>1. m \in a .. Len(f) /\ m < Len(f) /\ IsDigit(f[m + 1]) /\ WidthSoFar(f, a, m, w)
        BY <3>1, <3>2, <3>4
      <4> HIDE DEF m, a, mu, Good, D
      <4>2. WidthSoFar(f, a, m + 1, 10 * w + Ctod(f[m + 1]))
        BY <4>1, <3>1, <3>3, WidthMore
      <4> QED BY <4>2 DEF m
    <3>6. \E v : WidthSoFar(f, a, e, v)
      BY <3>1, <3>5
    <3>7. \A v : WidthSoFar(f, a, e, v) => v \in Nat
      BY DEF WidthSoFar
    <3> QED BY <3>6, <3>7
  <2> QED BY <2>1, <2>2
<1>4. \A e \in D : e \in Good
  <2>1. mu \in [D -> Nat]
    BY <1>2
  <2> HIDE DEF D, mu, Good
  <2> QED BY <2>1, <1>3, MeasureInduction
<1>5. PICK w \in Nat : WidthSoFar(f, a, b, w)
  <2>1. b \in D
    BY <1>1
  <2> QED BY <2>1, <1>4
<1>6. WidthOf(f, k) \in Nat
  <2>1. w = WidthOf(f, k)
    BY <1>5, WidthDone
  <2> QED BY <2>1
<1>7. /\ Directive(f, k).left = (\E j \in k + 1 .. a : f[j] = "-")
      /\ Directive(f, k).zeros = (\E j \in k + 1 .. a : f[j] = "0")
      /\ Directive(f, k).width = WidthOf(f, k)
  BY DirectiveIs
<1> QED BY <1>6, <1>7 DEF DirOk

-----------------------------------------------------------------------------
(* The pieces are strings *)
LEMMA TextType ==
  ASSUME NEW d, DirOk(d), NEW a \in Argument, NEW s
  PROVE  Text(d, s, a) \in Seq(Char)
<1> DEFINE n == a.int
           u == IF n < 0 THEN Wrap + n ELSE n
           digits == IF s = "X" THEN Upper ELSE Lower
           b == Base(s)
<1>1. /\ n \in IntValue /\ a.chr \in Char /\ a.str \in Seq(Char)
      /\ <<a.chr>> \in Seq(Char)
  <2>1. n \in IntValue /\ a.chr \in Char /\ a.str \in Seq(Char \ {NUL})
    BY DEF Argument
  <2>2. a.str \in Seq(Char)
    <3>1. Char \ {NUL} \subseteq Char
      OBVIOUS
    <3> QED BY <2>1, <3>1, CString
  <2> QED BY <2>1, <2>2, SeqOfOne
<1>2. u \in Nat /\ (n < 0 => -n \in Nat) /\ n \in Int
  BY <1>1, WrapAround
<1>3. /\ Digits \in Seq(Char) /\ Len(Digits) = 10 /\ digits \in Seq(Char) /\ Len(digits) = 16
  BY DigitsOfCode
<1>4. b \in Nat /\ b >= 2 /\ b <= 16
  BY DEF Base
<1>5. \A m \in Nat : Numeral(m, 10, Digits) \in Seq(Char) /\ Numeral(m, b, digits) \in Seq(Char)
  <2> TAKE m \in Nat
  <2> HIDE DEF Digits, digits, b
  <2>1. 10 \in Nat /\ 10 >= 2 /\ Len(Digits) >= 10 /\ Len(digits) >= b
    BY <1>3, <1>4
  <2>2. Numeral(m, 10, Digits) \in Seq(Char)
    <3>1. 0 \in 0 .. 9
      OBVIOUS
    <3> QED BY <3>1, DecimalStep
  <2>3. Numeral(m, b, digits) \in Seq(Char)
    BY <1>3, <1>4, <2>1, NumeralIs
  <2> QED BY <2>2, <2>3
<1>6. <<"-">> \in Seq(Char) /\ << >> \in Seq(Char)
  <2>1. "-" \in Char
    BY CharsOfCode, Zenon
  <2>2. <<"-">> \in Seq(Char)
    BY <2>1, SeqOfOne, Zenon
  <2> QED BY <2>2
<1>7. \A t, sgn \in Seq(Char) : Field(d, t) \in Seq(Char) /\ NumField(d, sgn, t) \in Seq(Char)
  BY FieldType DEF DirOk
<1>8. Text(d, s, a) = CASE s = "c" -> Field(d, <<a.chr>>)
                        [] s = "s" -> Field(d, a.str)
                        [] s \in {"d", "D"} /\ n < 0 -> NumField(d, <<"-">>, Numeral(-n, 10, Digits))
                        [] OTHER -> NumField(d, << >>, Numeral(u, b, digits))
  BY Zenon DEF Text
<1> HIDE DEF n, u, digits, b
<1>9. Field(d, <<a.chr>>) \in Seq(Char) /\ Field(d, a.str) \in Seq(Char)
  BY <1>1, <1>7, Zenon
<1>10. n < 0 => NumField(d, <<"-">>, Numeral(-n, 10, Digits)) \in Seq(Char)
  BY <1>2, <1>5, <1>6, <1>7, Zenon
<1>11. NumField(d, << >>, Numeral(u, b, digits)) \in Seq(Char)
  BY <1>2, <1>5, <1>6, <1>7, Zenon
<1> QED BY <1>8, <1>9, <1>10, <1>11

LEMMA PieceType ==
  ASSUME NEW f \in Seq(Char), NEW args \in Seq(Argument), NEW k \in 1 .. Len(f) + 1, NEW a \in Nat,
         ~Stops(f, k), a + Asked(f)[k] <= Len(args)
  PROVE  /\ Piece(f, k, args, a) \in Seq(Char)
         /\ (IF Takes(f, k) THEN a + 1 ELSE a) + Asked(f)[After(f, k)] <= Len(args)
         /\ Takes(f, k) => a + 1 <= Len(args)
<1> DEFINE at == Directive(f, k).at
           l == After(f, k)
<1>1. k \in 1 .. Len(f) /\ l \in k + 1 .. Len(f) + 1 /\ Len(f) \in Nat /\ l \in 1 .. Len(f) + 1
  BY AfterIs
<1>2. f[k] = "%" => at \in 1 .. Len(f)
  <2>1. at \in k + 1 .. Len(f) + 1
    BY <1>1, DirectiveParts
  <2>2. f[k] = "%" => ~(at > Len(f))
    BY DEF Stops
  <2> HIDE DEF at
  <2> QED BY <1>1, <2>1, <2>2
<1>3. \A i \in 1 .. Len(f) : <<f[i]>> \in Seq(Char)
  BY ElementOfSeq, SeqOfOne
<1>4. /\ Asked(f)[k] = Asked(f)[l] + (IF Takes(f, k) THEN 1 ELSE 0)
      /\ Asked(f)[k] \in Nat /\ Asked(f)[l] \in Nat
  BY <1>1, AskedIs
<1>5. Len(args) \in Nat
  OBVIOUS
<1>6. Takes(f, k) => a + 1 <= Len(args)
  BY <1>4, <1>5
<1>7. Takes(f, k) => args[a + 1] \in Argument
  BY <1>5, <1>6, ElementOfSeq
<1>8. CASE f[k] # "%"
  <2>1. Piece(f, k, args, a) = <<f[k]>>
    BY <1>8 DEF Piece
  <2> HIDE DEF l, at
  <2> QED BY <1>1, <1>3, <1>4, <1>5, <1>6, <2>1 DEF l
<1>9. CASE f[k] = "%" /\ Takes(f, k)
  <2>1. Piece(f, k, args, a) = Text(Directive(f, k), f[at], args[a + 1])
    BY <1>9 DEF Piece, Takes
  <2>2. DirOk(Directive(f, k))
    BY <1>1, DirectiveOk
  <2>3. Text(Directive(f, k), f[at], args[a + 1]) \in Seq(Char)
    BY <2>2, <1>7, <1>9, TextType
  <2> HIDE DEF l, at
  <2> QED BY <1>4, <1>5, <1>6, <1>9, <2>1, <2>3 DEF l
<1>10. CASE f[k] = "%" /\ ~Takes(f, k)
  <2>1. Piece(f, k, args, a) = <<f[at]>>
    BY <1>10 DEF Piece, Takes
  <2> HIDE DEF l, at
  <2> QED BY <1>2, <1>3, <1>4, <1>5, <1>10, <2>1 DEF l
<1> QED BY <1>8, <1>9, <1>10

LEMMA PiecesType ==
  ASSUME NEW f \in Seq(Char), NEW args \in Seq(Argument)
  PROVE  \A k \in 1 .. Len(f) + 1 : \A a \in Nat :
           a + Asked(f)[k] <= Len(args) => PiecesFrom(f, args)[k][a] \in Seq(Seq(Char))
<1> DEFINE n == Len(f)
           D == 1 .. n + 1
           mu == [k \in D |-> n + 1 - k]
           fits(k, a) == a + Asked(f)[k] <= Len(args)
           Typed(k, a) == PiecesFrom(f, args)[k][a] \in Seq(Seq(Char))
           Good == {k \in D : \A a \in Nat : fits(k, a) => Typed(k, a)}
<1>0. n \in Nat /\ mu \in [D -> Nat]
  OBVIOUS
<1>1. ASSUME NEW k \in D, \A e \in D : mu[e] < mu[k] => e \in Good PROVE k \in Good
  <2> SUFFICES ASSUME NEW a \in Nat, fits(k, a) PROVE Typed(k, a)
    OBVIOUS
  <2> DEFINE l == After(f, k)
             b == IF Takes(f, k) THEN a + 1 ELSE a
             x == Piece(f, k, args, a)
             P == PiecesFrom(f, args)
  <2>1. CASE Stops(f, k)
    <3>1. P[k][a] = << >>
      BY <2>1, PiecesAre, Zenon
    <3>2. << >> \in Seq(Seq(Char))
      OBVIOUS
    <3> QED BY <3>1, <3>2, Zenon
  <2>2. CASE ~Stops(f, k)
    <3>1. P[k][a] = <<x>> \o P[l][b]
      BY <2>2, PiecesAre, Zenon
    <3>2. l \in D /\ mu[l] < mu[k]
      <4>1. k \in 1 .. n /\ l \in k + 1 .. n + 1
        BY <2>2, AfterIs
      <4> HIDE DEF l
      <4> QED BY <4>1, <1>0
    <3>3. x \in Seq(Char) /\ fits(l, b)
      BY <2>2, PieceType, Zenon
    <3>4. b \in Nat
      OBVIOUS
    <3>5. P[l][b] \in Seq(Seq(Char))
      <4> HIDE DEF l, b, D, mu, fits
      <4> QED BY <1>1, <3>2, <3>3, <3>4
    <3>6. <<x>> \in Seq(Seq(Char))
      <4> HIDE DEF x
      <4> QED BY <3>3, SeqOfOne
    <3> HIDE DEF P, l, b, x
    <3>7. <<x>> \o P[l][b] \in Seq(Seq(Char))
      BY <3>5, <3>6, Joined, Zenon
    <3> QED BY <3>1, <3>7, Zenon DEF P
  <2> QED BY <2>1, <2>2
<1>2. \A k \in D : k \in Good
  <2> HIDE DEF D, mu, Good
  <2> QED BY <1>0, <1>1, MeasureInduction
<1> QED BY <1>2

-----------------------------------------------------------------------------
(* What has been printed, rest being still to come of all the pieces in      *)
(* whole.                                                                    *)
Printed(done) == FlattenSeq([j \in 1 .. Len(done) |-> Shown(done[j])])
Short(done)   == \A j \in 1 .. Len(done) : Len(done[j]) <= LP_MAX_BUF
Printing(o, rest, whole) ==
  \E done \in Seq(Seq(Char)) : Short(done) /\ done \o rest = whole /\ o = Printed(done)
TooLong(all)  == {j \in DOMAIN all : Len(all[j]) > LP_MAX_BUF}
UpTo(all, n)  == FlattenSeq([j \in 1 .. n |-> Shown(all[j])])
RanOver(all, o) ==
  LET long == TooLong(all)
  IN  long # {} /\ o = UpTo(all, (CHOOSE j \in long : \A k \in long : j <= k) - 1)

LEMMA FirstOf ==
  ASSUME NEW S, NEW s \in Seq(S), NEW t \in Seq(S), Len(s) >= 1
  PROVE  /\ s \o t \in Seq(S) /\ Len(s \o t) = Len(s) + Len(t) /\ Len(s) \in Nat /\ Len(t) \in Nat
         /\ (s \o t)[1] = s[1]
<1>1. /\ s \o t \in Seq(S) /\ Len(s \o t) = Len(s) + Len(t) /\ Len(s) \in Nat /\ Len(t) \in Nat
      /\ \A i \in 1 .. Len(s) + Len(t) : (s \o t)[i] = IF i <= Len(s) THEN s[i] ELSE t[i - Len(s)]
  BY ConcatProperties
<1>2. 1 \in 1 .. Len(s) + Len(t) /\ 1 <= Len(s)
  BY <1>1
<1> QED BY <1>1, <1>2

LEMMA ShownSeq ==
  ASSUME NEW done \in Seq(Seq(Char))
  PROVE  [j \in 1 .. Len(done) |-> Shown(done[j])] \in Seq(Seq(Char))
<1>1. \A j \in 1 .. Len(done) : Shown(done[j]) \in Seq(Char)
  <2> TAKE j \in 1 .. Len(done)
  <2>1. done[j] \in Seq(Char)
    BY ElementOfSeq
  <2> QED BY <2>1, ShownIs
<1>2. Len(done) \in Nat
  OBVIOUS
<1> QED BY <1>1, <1>2, IsASeq

LEMMA PrintedMore ==
  ASSUME NEW done \in Seq(Seq(Char)), NEW x \in Seq(Char)
  PROVE  Printed(done \o <<x>>) = Printed(done) \o Shown(x)
<1> DEFINE n == Len(done)
           all == done \o <<x>>
           V == Seq(Char)
           s == [j \in 1 .. n |-> Shown(done[j])]
           t == [j \in 1 .. Len(all) |-> Shown(all[j])]
           y == Shown(x)
           u == s \o <<y>>
<1>1. /\ all \in Seq(V) /\ Len(all) = n + 1 /\ n \in Nat
      /\ \A j \in 1 .. n : all[j] = done[j]
      /\ all[n + 1] = x
  BY OneMore
<1> HIDE DEF all
<1>2. s \in Seq(V) /\ t \in Seq(V) /\ Len(s) = n /\ Len(t) = n + 1
  <2>1. s \in Seq(V)
    BY ShownSeq
  <2>2. t \in Seq(V)
    BY <1>1, ShownSeq
  <2>3. \A w \in Seq(V), l \in Nat : DOMAIN w = 1 .. l => Len(w) = l
    <3> HIDE DEF V
    <3> QED OBVIOUS
  <2>4. DOMAIN s = 1 .. n /\ DOMAIN t = 1 .. n + 1 /\ n + 1 \in Nat
    BY <1>1
  <2> HIDE DEF s, t, V
  <2> QED BY <1>1, <2>1, <2>2, <2>3, <2>4
<1>3. y \in V
  BY ShownIs
<1>4. /\ \A j \in 1 .. n : s[j] = Shown(done[j])
      /\ \A j \in 1 .. n + 1 : t[j] = Shown(all[j])
  BY <1>1
<1> HIDE DEF s, t, V, y
<1>5. /\ u \in Seq(V) /\ Len(u) = n + 1
      /\ \A j \in 1 .. n : u[j] = s[j]
      /\ u[n + 1] = y
  BY <1>2, <1>3, OneMore
<1>6. \A j \in 1 .. n + 1 : u[j] = t[j]
  <2> TAKE j \in 1 .. n + 1
  <2>1. CASE j = n + 1
    BY <2>1, <1>1, <1>4, <1>5 DEF y
  <2>2. CASE j \in 1 .. n
    BY <2>2, <1>1, <1>4, <1>5
  <2>3. j = n + 1 \/ j \in 1 .. n
    <3> HIDE DEF n
    <3> QED BY <1>1
  <2> QED BY <2>1, <2>2, <2>3
<1> HIDE DEF u, n
<1>7. t = u
  BY <1>2, <1>5, <1>6, SeqEqual
<1>8. FlattenSeq(t) = FlattenSeq(s) \o y
  BY <1>2, <1>3, <1>7, FlattenAppend DEF u, V
<1> QED BY <1>8, Zenon DEF Printed, s, t, y, n, all

LEMMA Emit ==
  ASSUME NEW o, NEW x \in Seq(Char), NEW rest \in Seq(Seq(Char)), NEW whole,
         Printing(o, <<x>> \o rest, whole), Len(x) <= LP_MAX_BUF
  PROVE  Printing(o \o Shown(x), rest, whole)
<1> DEFINE V == Seq(Char)
<1>1. PICK done \in Seq(V) : Short(done) /\ done \o (<<x>> \o rest) = whole /\ o = Printed(done)
  BY Zenon DEF Printing
<1> DEFINE d == done \o <<x>>
           n == Len(done)
<1>2. /\ d \in Seq(V) /\ Len(d) = n + 1 /\ n \in Nat
      /\ \A j \in 1 .. n : d[j] = done[j]
      /\ d[n + 1] = x
  BY OneMore
<1>3. Printed(d) = o \o Shown(x)
  BY <1>1, PrintedMore
<1>4. d \o rest = whole
  <2>1. <<x>> \in Seq(V)
    BY SeqOfOne
  <2>2. (done \o <<x>>) \o rest = done \o (<<x>> \o rest)
    <3> DEFINE y == <<x>>
    <3> HIDE DEF y, V
    <3> QED BY <2>1, ConcatAssociative DEF y
  <2> QED BY <2>2, <1>1
<1>5. Short(d)
  <2> SUFFICES ASSUME NEW j \in 1 .. n + 1 PROVE Len(d[j]) <= LP_MAX_BUF
    BY <1>2 DEF Short
  <2>1. CASE j = n + 1
    BY <2>1, <1>2
  <2>2. CASE j \in 1 .. n
    <3>1. d[j] = done[j]
      BY <2>2, <1>2
    <3> QED BY <2>2, <3>1, <1>1 DEF Short
  <2> QED BY <2>1, <2>2, <1>2
<1> HIDE DEF d
<1> QED BY <1>2, <1>3, <1>4, <1>5, Zenon DEF Printing

LEMMA PrintedPrefix ==
  ASSUME NEW done \in Seq(Seq(Char)), NEW u \in Seq(Seq(Char))
  PROVE  /\ UpTo(done \o u, Len(done)) = Printed(done) /\ Len(done) \in Nat
         /\ \A j \in 1 .. Len(done) : (done \o u)[j] = done[j]
         /\ done \o u \in Seq(Seq(Char)) /\ Len(done \o u) = Len(done) + Len(u)
<1> DEFINE n == Len(done)
           all == done \o u
<1>1. n \in Nat /\ Len(u) \in Nat /\ all \in Seq(Seq(Char)) /\ Len(all) = n + Len(u)
  BY ConcatProperties
<1>2. \A j \in 1 .. n : all[j] = done[j]
  BY ConcatProperties
<1> HIDE DEF all
<1>3. [j \in 1 .. n |-> Shown(all[j])] = [j \in 1 .. n |-> Shown(done[j])]
  BY <1>2
<1> QED BY <1>1, <1>2, <1>3, Zenon DEF UpTo, Printed, all

LEMMA Overrun ==
  ASSUME NEW o, NEW x \in Seq(Char), NEW rest \in Seq(Seq(Char)), NEW whole, NEW u \in Seq(Seq(Char)),
         Printing(o, <<x>> \o rest, whole), Len(x) > LP_MAX_BUF
  PROVE  RanOver(whole \o u, o)
<1> DEFINE V == Seq(Char)
           all == whole \o u
           long == TooLong(all)
           rest2 == (<<x>> \o rest) \o u
<1>1. PICK done \in Seq(V) : Short(done) /\ done \o (<<x>> \o rest) = whole /\ o = Printed(done)
  BY Zenon DEF Printing
<1> DEFINE n == Len(done)
<1>2. <<x>> \in Seq(V) /\ Len(<<x>>) = 1 /\ <<x>>[1] = x
  BY SeqOfOne
<1>3. <<x>> \o rest \in Seq(V) /\ Len(<<x>> \o rest) >= 1 /\ (<<x>> \o rest)[1] = x
  <2> DEFINE y == <<x>>
  <2> HIDE DEF y, V
  <2>1. y \in Seq(V) /\ Len(y) = 1 /\ y[1] = x /\ rest \in Seq(V)
    BY <1>2 DEF y, V
  <2>2. y \o rest \in Seq(V) /\ Len(y \o rest) = Len(y) + Len(rest) /\ Len(rest) \in Nat
        /\ (y \o rest)[1] = y[1]
    <3>1. Len(y) >= 1
      BY <2>1
    <3> QED BY <2>1, <3>1, FirstOf
  <2> QED BY <2>1, <2>2 DEF y
<1>4. rest2 \in Seq(V) /\ Len(rest2) >= 1 /\ rest2[1] = x /\ Len(rest2) \in Nat
  <2> DEFINE y == <<x>> \o rest
  <2>1. y \in Seq(V) /\ Len(y) >= 1 /\ y[1] = x /\ u \in Seq(V)
    BY <1>3
  <2> HIDE DEF y, V
  <2>2. y \o u \in Seq(V) /\ Len(y \o u) = Len(y) + Len(u) /\ Len(u) \in Nat /\ Len(y) \in Nat
        /\ (y \o u)[1] = y[1]
    BY <2>1, FirstOf
  <2>3. y \o u = rest2
    BY DEF y
  <2> HIDE DEF rest2
  <2> QED BY <2>1, <2>2, <2>3
<1>5. all = done \o rest2
  <2> DEFINE y == <<x>> \o rest
  <2>1. y \in Seq(V)
    BY <1>3
  <2> HIDE DEF y, V
  <2>2. u \in Seq(V)
    BY DEF V
  <2>3. (done \o y) \o u = done \o (y \o u)
    BY <2>1, <2>2, ConcatAssociative
  <2> QED BY <2>3, <1>1 DEF y
<1> HIDE DEF rest2, all
<1>6. /\ o = UpTo(all, n) /\ n \in Nat /\ all \in Seq(V) /\ Len(all) = n + Len(rest2)
      /\ \A j \in 1 .. n : all[j] = done[j]
  BY <1>1, <1>4, <1>5, PrintedPrefix
<1>7. all[n + 1] = x
  <2> HIDE DEF V, n
  <2>1. all[Len(done) + 1] = rest2[1]
    <3>1. Len(done) + 1 \in 1 .. Len(done) + Len(rest2) /\ ~(Len(done) + 1 <= Len(done))
          /\ (Len(done) + 1) - Len(done) = 1
      BY <1>4, LenProperties
    <3>2. \A i \in 1 .. Len(done) + Len(rest2) :
            (done \o rest2)[i] = IF i <= Len(done) THEN done[i] ELSE rest2[i - Len(done)]
      BY <1>4, ConcatProperties
    <3> QED BY <3>1, <3>2, <1>5
  <2> QED BY <2>1, <1>4 DEF n
<1>8. n + 1 \in long
  <2>1. n + 1 \in 1 .. Len(all)
    BY <1>4, <1>6
  <2>2. DOMAIN all = 1 .. Len(all)
    BY <1>6
  <2> HIDE DEF n
  <2> QED BY <2>1, <2>2, <1>7 DEF TooLong
<1>9. \A j \in long : j \in Nat /\ n + 1 <= j
  <2> SUFFICES ASSUME NEW j \in long PROVE j \in Nat /\ n + 1 <= j
    OBVIOUS
  <2>1. j \in 1 .. Len(all) /\ Len(all[j]) > LP_MAX_BUF
    BY <1>6 DEF TooLong
  <2>2. j \notin 1 .. n
    <3> SUFFICES ASSUME j \in 1 .. n PROVE FALSE
      OBVIOUS
    <3>1. Len(done[j]) <= LP_MAX_BUF /\ all[j] = done[j]
      BY <1>1, <1>6 DEF Short
    <3>2. Len(done[j]) \in Nat /\ LP_MAX_BUF \in Nat
      <4>1. done[j] \in V
        BY ElementOfSeq
      <4> QED BY <4>1, PrintkAssumption
    <3> QED BY <2>1, <3>1, <3>2
  <2> HIDE DEF n
  <2> QED BY <2>1, <2>2, <1>6
<1> HIDE DEF long, n
<1>10. (CHOOSE j \in long : \A k \in long : j <= k) = n + 1
  <2> DEFINE c0 == CHOOSE j \in long : \A k \in long : j <= k
  <2>1. c0 \in long /\ \A k \in long : c0 <= k
    <3>1. \E j \in long : \A k \in long : j <= k
      BY <1>8, <1>9
    <3> QED BY <3>1, Zenon
  <2> HIDE DEF c0
  <2> QED BY <2>1, <1>8, <1>9, <1>6 DEF c0
<1>11. (n + 1) - 1 = n
  BY <1>6
<1>12. long # {} /\ o = UpTo(all, (CHOOSE j \in long : \A k \in long : j <= k) - 1)
  BY <1>6, <1>8, <1>10, <1>11
<1> QED BY <1>12, Zenon DEF all, long, RanOver

LEMMA AllPrinted ==
  ASSUME NEW o, NEW whole, Printing(o, << >>, whole)
  PROVE  TooLong(whole) = {} /\ o = UpTo(whole, Len(whole))
<1>1. PICK done \in Seq(Seq(Char)) : Short(done) /\ done \o << >> = whole /\ o = Printed(done)
  BY Zenon DEF Printing
<1>2. done = whole
  BY <1>1, ConcatEmptySeq
<1>3. TooLong(whole) = {}
  <2>1. \A j \in 1 .. Len(done) : Len(done[j]) \in Nat /\ LP_MAX_BUF \in Nat
    <3> TAKE j \in 1 .. Len(done)
    <3>1. done[j] \in Seq(Char)
      BY ElementOfSeq
    <3> QED BY <3>1, PrintkAssumption
  <2>2. DOMAIN done = 1 .. Len(done)
    OBVIOUS
  <2>3. \A j \in DOMAIN done : ~(Len(done[j]) > LP_MAX_BUF)
    BY <2>1, <2>2, <1>1 DEF Short
  <2> QED BY <2>3, <1>2, Zenon DEF TooLong
<1> QED BY <1>1, <1>2, <1>3, Zenon DEF Printed, UpTo

LEMMA MoreToPrint ==
  ASSUME NEW o, NEW whole, Printing(o, << >>, whole), NEW u
  PROVE  Printing(o, u, whole \o u)
<1>1. PICK done \in Seq(Seq(Char)) : Short(done) /\ done \o << >> = whole /\ o = Printed(done)
  BY Zenon DEF Printing
<1>2. done = whole
  BY <1>1, ConcatEmptySeq
<1> QED BY <1>1, <1>2, Zenon DEF Printing

-----------------------------------------------------------------------------
(* The jobs *)
PiecesOf(j)  == [i \in DOMAIN j.calls |-> Pieces(j.calls[i].fmt, j.calls[i].args)]
AllPieces(j) == Flat(PiecesOf(j))[Len(j.calls)]

\* Call n of job j is about to print from index k of its format on, a
\* arguments having been taken and o having been printed.
Begun(j, n, k, a, o) ==
  /\ a + Asked(j.calls[n].fmt)[k] <= Len(j.calls[n].args)
  /\ Printing(o, PiecesFrom(j.calls[n].fmt, j.calls[n].args)[k][a], Flat(PiecesOf(j))[n])

LEMMA JobIs ==
  ASSUME NEW j \in Work
  PROVE  /\ j.panic \in BOOLEAN /\ Len(j.calls) \in Nat \ {0} /\ DOMAIN j.calls = 1 .. Len(j.calls)
         /\ \A i \in 1 .. Len(j.calls) :
              /\ j.calls[i].fmt \in Seq(Char) /\ j.calls[i].args \in Seq(Argument)
              /\ \A k \in 1 .. Len(j.calls[i].fmt) : j.calls[i].fmt[k] # NUL
              /\ Asked(j.calls[i].fmt)[1] <= Len(j.calls[i].args)
<1> DEFINE s == j.calls
<1>1. s \in Seq(Call) /\ j.panic \in BOOLEAN /\ s # << >>
  BY JobsAssumption
<1>2. \A i \in DOMAIN s : Asked(s[i].fmt)[1] <= Len(s[i].args)
  BY JobsAssumption
<1> HIDE DEF s
<1>3. Len(s) \in Nat \ {0} /\ DOMAIN s = 1 .. Len(s)
  BY <1>1, EmptySeq
<1>4. \A i \in 1 .. Len(s) : s[i] \in Call
  BY <1>1, ElementOfSeq
<1>5. \A x \in Call : /\ x.fmt \in Seq(Char) /\ x.args \in Seq(Argument)
                      /\ \A k \in 1 .. Len(x.fmt) : x.fmt[k] # NUL
  <2> TAKE x \in Call
  <2> DEFINE f == x.fmt
             C == Char \ {NUL}
  <2>1. f \in Seq(C) /\ x.args \in Seq(Argument)
    BY DEF Call
  <2>2. C \subseteq Char /\ \A y \in C : y # NUL
    OBVIOUS
  <2> HIDE DEF f, C
  <2>3. f \in Seq(Char) /\ \A k \in 1 .. Len(f) : f[k] \in C
    BY <2>1, <2>2, CString
  <2> QED BY <2>1, <2>2, <2>3 DEF f
<1> QED BY <1>1, <1>2, <1>3, <1>4, <1>5 DEF s

LEMMA PiecesOfJob ==
  ASSUME NEW j \in Work
  PROVE  LET P == PiecesOf(j) IN
         /\ P \in Seq(Seq(Seq(Char))) /\ Len(P) = Len(j.calls)
         /\ FlattenSeq(P) = AllPieces(j)
         /\ \A i \in 1 .. Len(j.calls) :
              /\ P[i] = PiecesFrom(j.calls[i].fmt, j.calls[i].args)[1][0]
              /\ Flat(P)[i] \in Seq(Seq(Char))
              /\ Flat(P)[i] = IF i = 1 THEN P[i] ELSE Flat(P)[i - 1] \o P[i]
              /\ \E u \in Seq(Seq(Char)) : AllPieces(j) = Flat(P)[i] \o u
<1> DEFINE n == Len(j.calls)
           P == PiecesOf(j)
           one(i) == PiecesFrom(j.calls[i].fmt, j.calls[i].args)[1][0]
           V == Seq(Char)
<1>1. n \in Nat \ {0} /\ DOMAIN j.calls = 1 .. n
  BY JobIs
<1>2. \A i \in 1 .. n : one(i) \in Seq(V)
  <2> TAKE i \in 1 .. n
  <2> DEFINE f == j.calls[i].fmt
             g == j.calls[i].args
  <2>1. f \in Seq(Char) /\ g \in Seq(Argument) /\ Asked(f)[1] <= Len(g)
    BY JobIs
  <2> HIDE DEF f, g
  <2>2. 1 \in 1 .. Len(f) + 1 /\ 0 \in Nat
    BY <2>1, LenProperties
  <2>3. Asked(f)[1] \in Nat
    <3>1. \A k \in 1 .. Len(f) + 1 : Asked(f)[k] \in Nat
      BY <2>1, AskedIs
    <3> QED BY <3>1, <2>2
  <2>4. 0 + Asked(f)[1] <= Len(g)
    BY <2>1, <2>3
  <2>5. PiecesFrom(f, g)[1][0] \in Seq(V)
    BY <2>1, <2>2, <2>4, PiecesType
  <2> QED BY <2>5 DEF f, g
<1>3. P = [i \in 1 .. n |-> one(i)]
  BY <1>1, Zenon DEF PiecesOf, Pieces
<1> HIDE DEF one, P, V
<1>4. P \in Seq(Seq(V)) /\ Len(P) = n
  <2>1. P \in Seq(Seq(V))
    BY <1>1, <1>2, <1>3, IsASeq
  <2> HIDE DEF n
  <2> QED BY <2>1, <1>1, <1>3
<1>5. \A i \in 1 .. n : P[i] = one(i)
  BY <1>3
<1>6. /\ Flat(P) \in [1 .. n -> Seq(V)]
      /\ \A i \in 1 .. n : Flat(P)[i] = IF i = 1 THEN P[i] ELSE Flat(P)[i - 1] \o P[i]
  BY <1>4, FlatFunction
<1>7. FlattenSeq(P) = Flat(P)[n]
  <2>1. P # << >>
    BY <1>1, <1>4
  <2> QED BY <2>1, <1>4, FlattenIs
<1>8. AllPieces(j) = Flat(P)[n]
  BY Zenon DEF AllPieces, P
<1>9. \A i \in 1 .. n : \E u \in Seq(V) : Flat(P)[n] = Flat(P)[i] \o u
  <2> HIDE DEF n
  <2> TAKE i \in 1 .. n
  <2>1. i \in 1 .. Len(P)
    BY <1>4
  <2>2. \A k \in i .. Len(P) : \E u \in Seq(V) : Flat(P)[k] = Flat(P)[i] \o u
    BY <1>4, <2>1, FlatPrefix
  <2>3. n \in i .. Len(P)
    BY <1>1, <1>4
  <2> QED BY <2>2, <2>3
<1>10. \A i \in 1 .. n : Flat(P)[i] \in Seq(V)
  BY <1>6
<1> QED BY <1>4, <1>5, <1>6, <1>7, <1>8, <1>9, <1>10, Zenon DEF one, P, V, n

LEMMA PutPiece ==
  ASSUME NEW j \in Work, NEW n \in 1 .. Len(j.calls), NEW f, f = j.calls[n].fmt, NEW g, g = j.calls[n].args,
         NEW k \in 1 .. Len(f) + 1, NEW a \in Nat, NEW o, Begun(j, n, k, a, o), ~Stops(f, k)
  PROVE  LET x == Piece(f, k, g, a)
             b == IF Takes(f, k) THEN a + 1 ELSE a
         IN  /\ x \in Seq(Char) /\ b \in Nat /\ b <= Len(g)
             /\ Len(x) <= LP_MAX_BUF => Begun(j, n, After(f, k), b, o \o Shown(x))
             /\ Len(x) > LP_MAX_BUF => RanOver(AllPieces(j), o)
<1> DEFINE x == Piece(f, k, g, a)
           l == After(f, k)
           b == IF Takes(f, k) THEN a + 1 ELSE a
           P == PiecesFrom(f, g)
           whole == Flat(PiecesOf(j))[n]
           all == AllPieces(j)
           rest == P[l][b]
<1>1. f \in Seq(Char) /\ g \in Seq(Argument)
  BY JobIs
<1>2. a + Asked(f)[k] <= Len(g) /\ Printing(o, P[k][a], whole)
  BY DEF Begun
<1>3. P[k][a] = <<x>> \o P[l][b]
  BY <1>1, PiecesAre, Zenon
<1>4. x \in Seq(Char) /\ b + Asked(f)[l] <= Len(g)
  BY <1>1, <1>2, PieceType, Zenon
<1>5. b \in Nat
  OBVIOUS
<1>6. l \in 1 .. Len(f) + 1
  <2>1. l \in k + 1 .. Len(f) + 1
    BY <1>1, AfterIs
  <2> HIDE DEF l
  <2> QED BY <2>1
<1>7. rest \in Seq(Seq(Char))
  <2> HIDE DEF l, b
  <2> QED BY <1>1, <1>4, <1>5, <1>6, PiecesType
<1>8. b <= Len(g)
  <2> HIDE DEF l, b
  <2>1. Asked(f)[l] \in Nat /\ Len(g) \in Nat
    BY <1>1, <1>6, AskedIs
  <2> QED BY <2>1, <1>4, <1>5
<1>9. PICK u \in Seq(Seq(Char)) : all = whole \o u
  BY PiecesOfJob
<1>10. Printing(o, <<x>> \o rest, whole)
  BY <1>2, <1>3, Zenon
<1> HIDE DEF x, l, b, P, whole, all, rest
<1>11. Len(x) <= LP_MAX_BUF => Printing(o \o Shown(x), rest, whole)
  BY <1>4, <1>7, <1>10, Emit
<1>12. Len(x) <= LP_MAX_BUF => Begun(j, n, l, b, o \o Shown(x))
  BY <1>4, <1>11, Zenon DEF Begun, rest, P, whole
<1>13. Len(x) > LP_MAX_BUF => RanOver(all, o)
  BY <1>4, <1>7, <1>9, <1>10, Overrun
<1> QED BY <1>4, <1>5, <1>8, <1>12, <1>13, Zenon DEF x, l, b, all

\* Where the format ends, this call's pieces have all been printed.
LEMMA CallPrinted ==
  ASSUME NEW j \in Work, NEW n \in 1 .. Len(j.calls), NEW k \in 1 .. Len(j.calls[n].fmt) + 1,
         NEW a \in Nat, NEW o, Begun(j, n, k, a, o), Stops(j.calls[n].fmt, k)
  PROVE  Printing(o, << >>, Flat(PiecesOf(j))[n])
<1> DEFINE f == j.calls[n].fmt
           g == j.calls[n].args
<1>1. f \in Seq(Char) /\ Printing(o, PiecesFrom(f, g)[k][a], Flat(PiecesOf(j))[n])
  BY JobIs DEF Begun
<1>2. PiecesFrom(f, g)[k][a] = << >>
  BY <1>1, PiecesAre, Zenon
<1> QED BY <1>1, <1>2, Zenon

-----------------------------------------------------------------------------
(* Expected, in the terms of the induction *)
LEMMA ExpectedIs ==
  ASSUME job \in Work
  PROVE  /\ TooLong(AllPieces(job)) = {} =>
              /\ Expected.end = IF job.panic THEN "panic" ELSE "done"
              /\ Expected.text = UpTo(AllPieces(job), Len(AllPieces(job)))
         /\ \A o : RanOver(AllPieces(job), o) =>
              Expected.end = "fatal" /\ Expected.text = o \o theFatalMsg
<1> DEFINE all == FlattenSeq([i \in DOMAIN job.calls |-> Pieces(job.calls[i].fmt, job.calls[i].args)])
           long == {i \in DOMAIN all : Len(all[i]) > LP_MAX_BUF}
           upTo(n) == FlattenSeq([i \in 1 .. n |-> Shown(all[i])])
           first == CHOOSE i \in long : \A k \in long : i <= k
           good == [end |-> IF job.panic THEN "panic" ELSE "done", text |-> upTo(Len(all))]
           bad  == [end |-> "fatal", text |-> upTo(first - 1) \o theFatalMsg]
<1>1. all = AllPieces(job)
  <2>1. FlattenSeq(PiecesOf(job)) = AllPieces(job)
    BY PiecesOfJob
  <2> QED BY <2>1, Zenon DEF PiecesOf
<1>2. Expected = IF long = {} THEN good ELSE bad
  BY Zenon DEF Expected
<1>3. /\ good.end = (IF job.panic THEN "panic" ELSE "done") /\ good.text = upTo(Len(all))
      /\ bad.end = "fatal" /\ bad.text = upTo(first - 1) \o theFatalMsg
  OBVIOUS
<1>4. long = TooLong(all) /\ \A n : upTo(n) = UpTo(all, n)
  BY Zenon DEF TooLong, UpTo
<1>5. \A o : RanOver(all, o) => long # {} /\ o = upTo(first - 1)
  BY Zenon DEF RanOver, TooLong, UpTo
<1> HIDE DEF good, bad, upTo, first, long, all
<1>6. TooLong(all) = {} => Expected = good
  BY <1>2, <1>4, Zenon
<1>7. \A o : RanOver(all, o) => Expected = bad /\ o = upTo(first - 1)
  BY <1>2, <1>5, Zenon
<1> QED BY <1>1, <1>3, <1>4, <1>6, <1>7, Zenon

LEMMA BegunType ==
  ASSUME NEW j \in Work, NEW n \in 1 .. Len(j.calls), NEW k, NEW a, NEW o, Begun(j, n, k, a, o)
  PROVE  o \in Seq(Char)
<1>1. PICK done \in Seq(Seq(Char)) : o = Printed(done)
  BY Zenon DEF Begun, Printing
<1> QED BY <1>1, ShownSeq, FlattenIs DEF Printed

\* The character lp_Print looks at: NUL exactly where the format ends.
LEMMA CharRead ==
  ASSUME job \in Work, call \in 1 .. Len(job.calls), fmt \in 1 .. Len(cur.fmt) + 1
  PROVE  /\ cur.fmt \in Seq(Char) /\ cur.args \in Seq(Argument)
         /\ Len(cur.fmt) \in Nat /\ Len(cur.args) \in Nat
         /\ c # NUL => fmt \in 1 .. Len(cur.fmt) /\ cur.fmt[fmt] = c /\ c \in Char
         /\ c = NUL => fmt = Len(cur.fmt) + 1
         /\ fmt <= Len(cur.fmt) => c = cur.fmt[fmt]
<1> DEFINE f == cur.fmt
           n == Len(f)
<1>1. f \in Seq(Char) /\ cur.args \in Seq(Argument) /\ \A k \in 1 .. n : f[k] # NUL
  BY JobIs DEF cur
<1>2. n \in Nat /\ DOMAIN f = 1 .. n /\ Len(cur.args) \in Nat
  BY <1>1
<1>3. c = IF fmt \in 1 .. n THEN f[fmt] ELSE NUL
  BY <1>2, Zenon DEF c, At
<1>4. \A k \in 1 .. n : f[k] \in Char
  BY <1>1, ElementOfSeq
<1>5. fmt \in 1 .. n \/ (fmt = n + 1 /\ ~(fmt <= n) /\ fmt \notin 1 .. n)
  <2> HIDE DEF n, f
  <2> QED BY <1>2 DEF n, f
<1>6. fmt \in 1 .. n <=> fmt <= n
  <2> HIDE DEF n, f
  <2> QED BY <1>2 DEF n, f
<1> HIDE DEF n, f
<1>7. f \in Seq(Char) /\ cur.args \in Seq(Argument) /\ n \in Nat /\ Len(cur.args) \in Nat
  BY <1>1, <1>2
<1>8. /\ c # NUL => fmt \in 1 .. n /\ f[fmt] = c /\ c \in Char
      /\ c = NUL => fmt = n + 1
      /\ fmt <= n => c = f[fmt]
  BY <1>1, <1>3, <1>4, <1>5, <1>6, Zenon
<1> QED BY <1>7, <1>8, Zenon DEF n, f

-----------------------------------------------------------------------------
(* The inductive invariant: what has been printed and what the format still *)
(* says make up the whole; inside a directive, what has been read of it.    *)
Scanning == pc = "scan" /\ Begun(job, call, fmt, ap, out)
Reading(k) ==
  /\ cur.fmt[k] = "%" /\ Begun(job, call, k, ap, out)
  /\ \/ pc = "flags"   /\ InFlags(cur.fmt, k, fmt, dir)
     \/ pc = "width"   /\ InWidth(cur.fmt, k, fmt, dir)
     \/ pc = "prec"    /\ InPrec(cur.fmt, k, fmt, dir)
     \/ pc = "length"  /\ InLength(cur.fmt, k, fmt, dir)
     \/ pc = "convert" /\ InConvert(cur.fmt, k, fmt, dir)
Parsing == \E k \in 1 .. Len(cur.fmt) : Reading(k)
Ended   == Stopped /\ pc = Expected.end /\ out = Expected.text

Typed ==
  /\ job \in Work /\ call \in 1 .. Len(job.calls) /\ dir \in Dirs
  /\ fmt \in 1 .. Len(cur.fmt) + 1 /\ ap \in 0 .. Len(cur.args)
PrintkInv == Typed /\ (Scanning \/ Parsing \/ Ended)

LEMMA PrintkInvInit == Init => PrintkInv
<1> SUFFICES ASSUME Init PROVE PrintkInv
  OBVIOUS
<1> DEFINE f == cur.fmt
           g == cur.args
<1>1. job \in Work /\ call = 1 /\ pc = "scan" /\ fmt = 1 /\ ap = 0 /\ dir = NoDir /\ out = << >>
  BY Zenon DEF Init
<1>2. Len(job.calls) \in Nat \ {0}
  BY <1>1, JobIs
<1>3. call \in 1 .. Len(job.calls)
  BY <1>1, <1>2
<1>4. f \in Seq(Char) /\ g \in Seq(Argument) /\ Asked(f)[1] <= Len(g)
  BY <1>1, <1>3, JobIs DEF cur
<1>5. Len(f) \in Nat /\ Len(g) \in Nat
  BY <1>4
<1>6. dir \in Dirs
  BY <1>1 DEF NoDir, Dirs
<1>7. fmt \in 1 .. Len(f) + 1 /\ ap \in 0 .. Len(g) /\ 1 \in 1 .. Len(f) + 1
  <2> HIDE DEF f, g
  <2> QED BY <1>1, <1>5
<1>8. 0 + Asked(f)[1] <= Len(g)
  <2> HIDE DEF f, g
  <2>1. Asked(f)[1] \in Nat
    BY <1>4, <1>7, AskedIs
  <2> QED BY <1>4, <2>1
<1>9. Printing(<< >>, PiecesFrom(f, g)[1][0], Flat(PiecesOf(job))[1])
  <2> DEFINE P == PiecesOf(job)
             x == PiecesFrom(f, g)[1][0]
             V == Seq(Char)
  <2>1. 1 \in 1 .. Len(job.calls)
    BY <1>1, <1>3
  <2>2. P[1] = x /\ Flat(P)[1] = P[1] /\ Flat(P)[1] \in Seq(V)
    BY <1>1, <2>1, PiecesOfJob DEF cur
  <2> HIDE DEF P, x
  <2>3. << >> \o x = Flat(P)[1]
    BY <2>2, ConcatEmptySeq
  <2>4. Short(<< >>) /\ << >> = Printed(<< >>) /\ << >> \in Seq(V)
    <3>1. << >> \in Seq(V) /\ Len(<< >>) = 0
      OBVIOUS
    <3>2. << >> \in Seq(Seq(Char))
      OBVIOUS
    <3>3. [j \in 1 .. Len(<< >>) |-> Shown(<< >>[j])] = << >>
      OBVIOUS
    <3>4. FlattenSeq(<< >>) = << >>
      BY <3>2, FlattenIs
    <3> QED BY <3>1, <3>3, <3>4 DEF Short, Printed
  <2> QED BY <2>3, <2>4, Zenon DEF Printing, P, x
<1>10. Begun(job, call, fmt, ap, out)
  BY <1>1, <1>8, <1>9, Zenon DEF Begun, cur
<1> QED BY <1>1, <1>3, <1>6, <1>7, <1>10, Zenon DEF PrintkInv, Typed, Scanning

-----------------------------------------------------------------------------
(* Every action preserves it *)
\* OUTPUT given the next piece, from the state where index k is next.
LEMMA OutputPiece ==
  ASSUME Typed, NEW k \in 1 .. Len(cur.fmt) + 1, Begun(job, call, k, ap, out), ~Stops(cur.fmt, k),
         OUTPUT(Piece(cur.fmt, k, cur.args, ap), "scan"),
         fmt' = After(cur.fmt, k), ap' = IF Takes(cur.fmt, k) THEN ap + 1 ELSE ap,
         UNCHANGED <<job, call, dir>>
  PROVE  PrintkInv'
<1> DEFINE f == cur.fmt
           g == cur.args
           x == Piece(f, k, g, ap)
           l == After(f, k)
           b == IF Takes(f, k) THEN ap + 1 ELSE ap
<1>1. /\ job \in Work /\ call \in 1 .. Len(job.calls) /\ dir \in Dirs /\ ap \in 0 .. Len(g)
      /\ job' = job /\ call' = call /\ dir' = dir /\ fmt' = l /\ ap' = b /\ cur' = cur
  BY DEF Typed, cur
<1>2. f \in Seq(Char) /\ Len(f) \in Nat /\ Len(g) \in Nat
  BY CharRead DEF Typed
<1>3. ap \in Nat
  <2> HIDE DEF g
  <2> QED BY <1>1, <1>2
<1>4. /\ x \in Seq(Char) /\ b \in Nat /\ b <= Len(g)
      /\ Len(x) <= LP_MAX_BUF => Begun(job, call, l, b, out \o Shown(x))
      /\ Len(x) > LP_MAX_BUF => RanOver(AllPieces(job), out)
  BY <1>1, <1>3, PutPiece DEF cur
<1>5. l \in 1 .. Len(f) + 1
  <2>1. l \in k + 1 .. Len(f) + 1
    BY <1>2, AfterIs
  <2> HIDE DEF l, f
  <2> QED BY <2>1, <1>2 DEF f
<1>6. IF Len(x) > LP_MAX_BUF THEN out' = out \o myoutput(theFatalMsg) /\ pc' = "fatal"
      ELSE out' = out \o myoutput(x) /\ pc' = "scan"
  BY DEF OUTPUT
<1>7. Len(x) \in Nat /\ LP_MAX_BUF \in Nat
  <2> HIDE DEF x
  <2> QED BY <1>4, PrintkAssumption
<1>8. myoutput(x) = Shown(x) /\ myoutput(theFatalMsg) = theFatalMsg
  <2> HIDE DEF x
  <2> QED BY <1>4, ShownIs, FatalShown
<1> HIDE DEF x, l, b, f, g
<1>9. Typed'
  <2>1. b \in 0 .. Len(g)
    BY <1>2, <1>4
  <2>2. /\ job' \in Work /\ call' \in 1 .. Len(job'.calls) /\ dir' \in Dirs
        /\ fmt' \in 1 .. Len(cur'.fmt) + 1 /\ ap' \in 0 .. Len(cur'.args)
    BY <1>1, <1>5, <2>1, Zenon DEF f, g
  <2> QED BY <2>2, Zenon DEF Typed
<1>10. CASE Len(x) > LP_MAX_BUF
  <2>1. out' = out \o theFatalMsg /\ pc' = "fatal"
    BY <1>6, <1>8, <1>10, Zenon
  <2>2. Expected.end = "fatal" /\ Expected.text = out \o theFatalMsg
    BY <1>1, <1>4, <1>10, ExpectedIs, Zenon
  <2>3. Expected' = Expected
    BY <1>1, Zenon DEF Expected
  <2>4. Ended'
    BY <2>1, <2>2, <2>3, Zenon DEF Ended, Stopped
  <2> QED BY <1>9, <2>4, Zenon DEF PrintkInv
<1>11. CASE ~(Len(x) > LP_MAX_BUF)
  <2>1. Len(x) <= LP_MAX_BUF
    BY <1>7, <1>11
  <2>2. out' = out \o Shown(x) /\ pc' = "scan"
    BY <1>6, <1>8, <1>11, Zenon
  <2>3. Begun(job', call', fmt', ap', out')
    BY <1>1, <1>4, <2>1, <2>2, Zenon
  <2> QED BY <1>9, <2>2, <2>3, Zenon DEF PrintkInv, Scanning
<1> QED BY <1>10, <1>11

LEMMA LiteralStep == PrintkInv /\ Literal => PrintkInv'
<1> SUFFICES ASSUME PrintkInv, Literal PROVE PrintkInv'
  OBVIOUS
<1> DEFINE f == cur.fmt
<1>1. Typed /\ pc = "scan" /\ c # NUL /\ c # "%" /\ fmt' = fmt + 1 /\ UNCHANGED <<job, call, ap, dir>>
      /\ OUTPUT(<<c>>, "scan")
  BY DEF PrintkInv, Literal
<1>2. Begun(job, call, fmt, ap, out)
  BY <1>1 DEF PrintkInv, Scanning, Parsing, Reading, Ended, Stopped
<1>3. fmt \in 1 .. Len(f) /\ f[fmt] = c /\ Len(f) \in Nat
  BY <1>1, CharRead DEF Typed
<1>4. ~Stops(f, fmt)
  <2>1. ~(fmt > Len(f))
    <3> HIDE DEF f
    <3> QED BY <1>3
  <2> QED BY <1>1, <1>3, <2>1, Zenon DEF Stops
<1>5. Piece(f, fmt, cur.args, ap) = <<c>> /\ ~Takes(f, fmt) /\ After(f, fmt) = fmt + 1
  BY <1>1, <1>3, Zenon DEF Piece, Takes, After
<1>6. fmt \in 1 .. Len(f) + 1
  <2> HIDE DEF f
  <2> QED BY <1>3
<1>7. OUTPUT(Piece(f, fmt, cur.args, ap), "scan") /\ ap' = IF Takes(f, fmt) THEN ap + 1 ELSE ap
  BY <1>1, <1>5, Zenon
<1>8. fmt' = After(f, fmt)
  BY <1>1, <1>5, Zenon
<1> QED BY <1>1, <1>2, <1>4, <1>6, <1>7, <1>8, OutputPiece

\* A directive being read prints nothing and takes nothing.
LEMMA ReadMore ==
  ASSUME Typed, NEW k \in 1 .. Len(cur.fmt), cur.fmt[k] = "%", Begun(job, call, k, ap, out),
         UNCHANGED <<job, call, ap, out>>, dir' \in Dirs, fmt' \in 1 .. Len(cur.fmt) + 1,
         \/ pc' = "flags"   /\ InFlags(cur.fmt, k, fmt', dir')
         \/ pc' = "width"   /\ InWidth(cur.fmt, k, fmt', dir')
         \/ pc' = "prec"    /\ InPrec(cur.fmt, k, fmt', dir')
         \/ pc' = "length"  /\ InLength(cur.fmt, k, fmt', dir')
         \/ pc' = "convert" /\ InConvert(cur.fmt, k, fmt', dir')
  PROVE  PrintkInv'
<1>1. job' = job /\ call' = call /\ ap' = ap /\ out' = out /\ cur' = cur
  BY Zenon DEF cur
<1>2. Typed'
  BY <1>1, Zenon DEF Typed
<1>3. cur'.fmt[k] = "%" /\ Begun(job', call', k, ap', out')
  BY <1>1, Zenon
<1>4. \/ pc' = "flags"   /\ InFlags(cur'.fmt, k, fmt', dir')
      \/ pc' = "width"   /\ InWidth(cur'.fmt, k, fmt', dir')
      \/ pc' = "prec"    /\ InPrec(cur'.fmt, k, fmt', dir')
      \/ pc' = "length"  /\ InLength(cur'.fmt, k, fmt', dir')
      \/ pc' = "convert" /\ InConvert(cur'.fmt, k, fmt', dir')
  BY <1>1, Zenon
<1>5. Reading(k)'
  BY <1>3, <1>4, Zenon DEF Reading
<1>6. k \in 1 .. Len(cur'.fmt)
  BY <1>1, Zenon
<1> QED BY <1>2, <1>5, <1>6, Zenon DEF PrintkInv, Parsing

LEMMA PercentStep == PrintkInv /\ Percent => PrintkInv'
<1> SUFFICES ASSUME PrintkInv, Percent PROVE PrintkInv'
  OBVIOUS
<1> DEFINE f == cur.fmt
           n == Len(f)
<1>1. /\ Typed /\ pc = "scan" /\ c = "%" /\ fmt' = fmt + 1 /\ dir' = NoDir /\ pc' = "flags"
      /\ UNCHANGED <<job, call, ap, out>>
  BY DEF PrintkInv, Percent
<1>2. Begun(job, call, fmt, ap, out)
  BY <1>1 DEF PrintkInv, Scanning, Parsing, Reading, Ended, Stopped
<1>3. fmt \in 1 .. n /\ f[fmt] = "%" /\ n \in Nat
  <2>1. c # NUL
    BY <1>1 DEF NUL
  <2> QED BY <1>1, <2>1, CharRead DEF Typed
<1> HIDE DEF n, f
<1>4. fmt' \in 1 .. n + 1 /\ fmt' - 1 = fmt /\ fmt \in fmt .. n
  BY <1>1, <1>3
<1>5. dir' \in Dirs /\ dir'.ladjust = FALSE /\ dir'.padc = " " /\ dir'.width = 0
  BY <1>1 DEF NoDir, Dirs
<1>6. InFlags(f, fmt, fmt', dir')
  <2>1. fmt' - 1 \in fmt .. Len(f)
    BY <1>4 DEF n
  <2>2. \A i \in Nat : \A j \in i + 1 .. i : FALSE
    OBVIOUS
  <2>3. fmt \in Nat
    BY <1>3
  <2>4. \A j \in fmt + 1 .. fmt' - 1 : FALSE
    BY <1>4, <2>2, <2>3, Zenon
  <2> QED BY <2>1, <2>4, <1>5, Zenon DEF InFlags, FlagsTo
<1> QED BY <1>1, <1>2, <1>3, <1>4, <1>5, <1>6, ReadMore DEF n, f

\* Where a directive is being read, and of what.
LEMMA AtDirective ==
  ASSUME PrintkInv, pc \notin {"scan", "done", "panic", "fatal"}
  PROVE  /\ Typed /\ cur.fmt \in Seq(Char) /\ Len(cur.fmt) \in Nat /\ fmt \in Nat /\ dir \in Dirs
         /\ fmt <= Len(cur.fmt) <=> c # NUL
         /\ fmt <= Len(cur.fmt) => c = cur.fmt[fmt] /\ c \in Char
         /\ fmt = Len(cur.fmt) + 1 \/ fmt \in 1 .. Len(cur.fmt)
         /\ \E k \in 1 .. Len(cur.fmt) : Reading(k)
<1> DEFINE f == cur.fmt
           n == Len(f)
<1>1. Typed /\ \E k \in 1 .. n : Reading(k)
  BY Zenon DEF PrintkInv, Parsing, Scanning, Ended, Stopped
<1>2. /\ f \in Seq(Char) /\ n \in Nat
      /\ c # NUL => fmt \in 1 .. n /\ f[fmt] = c /\ c \in Char
      /\ c = NUL => fmt = n + 1
  BY <1>1, CharRead DEF Typed
<1>3. fmt \in 1 .. n + 1 /\ dir \in Dirs
  BY <1>1 DEF Typed
<1> HIDE DEF n, f
<1>4. fmt <= n <=> c # NUL
  BY <1>2, <1>3
<1>5. fmt \in Nat
  BY <1>2, <1>3
<1> QED BY <1>1, <1>2, <1>3, <1>4, <1>5, Zenon DEF n, f

LEMMA FlagsStep == PrintkInv /\ Flags => PrintkInv'
<1> SUFFICES ASSUME PrintkInv, Flags PROVE PrintkInv'
  OBVIOUS
<1> DEFINE f == cur.fmt
           n == Len(f)
<1>1. pc = "flags" /\ UNCHANGED <<job, call, ap, out>>
  BY DEF Flags
<1>2. /\ Typed /\ f \in Seq(Char) /\ n \in Nat /\ fmt \in Nat /\ dir \in Dirs
      /\ fmt <= n <=> c # NUL
      /\ fmt <= n => c = f[fmt]
      /\ fmt \in 1 .. n + 1
  BY <1>1, AtDirective DEF Typed
<1>3. PICK k \in 1 .. n : f[k] = "%" /\ Begun(job, call, k, ap, out) /\ InFlags(f, k, fmt, dir)
  BY <1>1, AtDirective DEF Reading
<1> HIDE DEF n, f
<1>4. CASE c \in {"-", "0"}
  <2>1. c # NUL
    BY <1>4 DEF NUL
  <2>2. fmt' = fmt + 1 /\ pc' = "flags"
    BY <1>1, <1>4 DEF Flags
  <2>3. dir' = IF c = "-" THEN [dir EXCEPT !.ladjust = TRUE] ELSE [dir EXCEPT !.padc = "0"]
    BY <1>4 DEF Flags
  <2>4. /\ dir' \in Dirs /\ dir'.width = dir.width
        /\ c = "-" => dir'.ladjust = TRUE /\ dir'.padc = dir.padc
        /\ c = "0" => dir'.ladjust = dir.ladjust /\ dir'.padc = "0"
    BY <1>2, <2>3 DEF Dirs
  <2>5. fmt <= n /\ c = f[fmt] /\ f[fmt] \in Flag
    BY <1>2, <1>4, <2>1 DEF Flag
  <2>6. fmt' \in 1 .. n + 1
    BY <1>2, <2>2, <2>5
  <2>7. InFlags(f, k, fmt + 1, dir')
    <3> DEFINE e == dir'
    <3>1. /\ e \in Dirs /\ e.width = dir.width
          /\ f[fmt] = "-" => e.ladjust = TRUE /\ e.padc = dir.padc
          /\ f[fmt] = "0" => e.ladjust = dir.ladjust /\ e.padc = "0"
      BY <2>4, <2>5, Zenon
    <3> HIDE DEF e
    <3>2. InFlags(f, k, fmt + 1, e)
      BY <1>2, <1>3, <2>5, <3>1, ReadFlag DEF n
    <3> QED BY <3>2 DEF e
  <2> QED BY <1>1, <1>2, <1>3, <2>2, <2>4, <2>6, <2>7, ReadMore DEF n, f
<1>5. CASE c \notin {"-", "0"}
  <2>1. pc' = "width" /\ fmt' = fmt /\ dir' = dir
    BY <1>5 DEF Flags
  <2>2. fmt <= n => f[fmt] \notin Flag
    BY <1>2, <1>5, Zenon DEF Flag
  <2>3. InWidth(f, k, fmt', dir')
    BY <1>2, <1>3, <2>1, <2>2, FlagsRead DEF n
  <2> QED BY <1>1, <1>2, <1>3, <2>1, <2>3, ReadMore DEF n, f
<1> QED BY <1>4, <1>5

LEMMA NulIsNoDigit == ~IsDigit(NUL)
<1>1. IsDigit(NUL) = \E i \in 1 .. Len(Digits) : Digits[i] = NUL
  BY Zenon DEF IsDigit, Contains
<1>2. \A i \in 1 .. Len(Digits) : Digits[i] # NUL
  BY DEF Digits, NUL
<1> QED BY <1>1, <1>2

LEMMA WidthStep == PrintkInv /\ Width => PrintkInv'
<1> SUFFICES ASSUME PrintkInv, Width PROVE PrintkInv'
  OBVIOUS
<1> DEFINE f == cur.fmt
           n == Len(f)
<1>1. pc = "width" /\ UNCHANGED <<job, call, ap, out>>
  BY DEF Width
<1>2. /\ Typed /\ f \in Seq(Char) /\ n \in Nat /\ fmt \in Nat /\ dir \in Dirs
      /\ fmt <= n <=> c # NUL
      /\ fmt <= n => c = f[fmt]
      /\ fmt \in 1 .. n + 1
  BY <1>1, AtDirective DEF Typed
<1>3. PICK k \in 1 .. n : f[k] = "%" /\ Begun(job, call, k, ap, out) /\ InWidth(f, k, fmt, dir)
  BY <1>1, AtDirective DEF Reading
<1>4. ~IsDigit(NUL) /\ NUL # "."
  BY NulIsNoDigit DEF NUL
<1> HIDE DEF n, f
<1>5. CASE IsDigit(c)
  <2>1. fmt' = fmt + 1 /\ pc' = "width" /\ dir' = [dir EXCEPT !.width = 10 * @ + Ctod(c)]
    BY <1>1, <1>5 DEF Width
  <2>2. fmt <= n /\ c = f[fmt] /\ IsDigit(f[fmt])
    BY <1>2, <1>4, <1>5, Zenon
  <2> DEFINE e == dir'
             d == dir
             i == fmt
  <2>3. e.width = 10 * d.width + Ctod(f[i]) /\ e.ladjust = d.ladjust /\ e.padc = d.padc
    BY <1>2, <2>1, <2>2 DEF Dirs
  <2>4. e = [d EXCEPT !.width = e.width]
    BY <1>2, <2>1 DEF Dirs
  <2>5. d \in Dirs /\ i \in Nat /\ i <= Len(f) /\ InWidth(f, k, i, d)
    BY <1>2, <1>3, <2>2 DEF n
  <2> HIDE DEF e, d, i
  <2>6. InWidth(f, k, i + 1, e) /\ e.width \in Nat
    BY <1>2, <1>3, <2>2, <2>3, <2>5, ReadDigit DEF n, i
  <2>7. e \in Dirs
    BY <2>4, <2>5, <2>6 DEF Dirs
  <2>8. fmt' \in 1 .. n + 1
    BY <1>2, <2>1, <2>2
  <2>9. InWidth(f, k, fmt', dir') /\ dir' \in Dirs
    BY <2>1, <2>6, <2>7, Zenon DEF e, i
  <2> QED BY <1>1, <1>2, <1>3, <2>1, <2>8, <2>9, ReadMore DEF n, f
<1>6. CASE ~IsDigit(c)
  <2>1. fmt <= n => ~IsDigit(f[fmt])
    BY <1>2, <1>6, Zenon
  <2>2. dir' = dir
    BY <1>6 DEF Width
  <2>3. CASE c = "."
    <3>1. fmt' = fmt + 1 /\ pc' = "prec"
      BY <1>6, <2>3 DEF Width
    <3>2. fmt <= n /\ f[fmt] = "."
      BY <1>2, <1>4, <2>3, Zenon
    <3>3. InPrec(f, k, fmt', dir')
      BY <1>2, <1>3, <2>1, <2>2, <3>1, <3>2, ReadPoint DEF n
    <3>4. fmt' \in 1 .. n + 1
      BY <1>2, <3>1, <3>2
    <3> QED BY <1>1, <1>2, <1>3, <2>2, <3>1, <3>3, <3>4, ReadMore DEF n, f
  <2>4. CASE c # "."
    <3>1. fmt' = fmt /\ pc' = "length"
      BY <1>6, <2>4 DEF Width
    <3>2. fmt <= n => f[fmt] # "."
      BY <1>2, <2>4, Zenon
    <3>3. InLength(f, k, fmt', dir')
      BY <1>2, <1>3, <2>1, <2>2, <3>1, <3>2, NoPoint DEF n
    <3> QED BY <1>1, <1>2, <1>3, <2>2, <3>1, <3>3, ReadMore DEF n, f
  <2> QED BY <2>3, <2>4
<1> QED BY <1>5, <1>6

LEMMA PrecisionStep == PrintkInv /\ Precision => PrintkInv'
<1> SUFFICES ASSUME PrintkInv, Precision PROVE PrintkInv'
  OBVIOUS
<1> DEFINE f == cur.fmt
           n == Len(f)
<1>1. pc = "prec" /\ UNCHANGED <<job, call, ap, dir, out>>
  BY DEF Precision
<1>2. /\ Typed /\ f \in Seq(Char) /\ n \in Nat /\ fmt \in Nat /\ dir \in Dirs
      /\ fmt <= n <=> c # NUL
      /\ fmt <= n => c = f[fmt]
      /\ fmt \in 1 .. n + 1
  BY <1>1, AtDirective DEF Typed
<1>3. PICK k \in 1 .. n : f[k] = "%" /\ Begun(job, call, k, ap, out) /\ InPrec(f, k, fmt, dir)
  BY <1>1, AtDirective DEF Reading
<1>4. ~IsDigit(NUL)
  BY NulIsNoDigit
<1> HIDE DEF n, f
<1>5. CASE IsDigit(c)
  <2>1. fmt' = fmt + 1 /\ pc' = "prec"
    BY <1>1, <1>5 DEF Precision
  <2>2. fmt <= n /\ IsDigit(f[fmt])
    BY <1>2, <1>4, <1>5, Zenon
  <2>3. InPrec(f, k, fmt', dir')
    BY <1>1, <1>2, <1>3, <2>1, <2>2, ReadPrecDigit DEF n
  <2>4. fmt' \in 1 .. n + 1
    BY <1>2, <2>1, <2>2
  <2> QED BY <1>1, <1>2, <1>3, <2>1, <2>3, <2>4, ReadMore DEF n, f
<1>6. CASE ~IsDigit(c)
  <2>1. fmt' = fmt /\ pc' = "length"
    BY <1>6 DEF Precision
  <2>2. fmt <= n => ~IsDigit(f[fmt])
    BY <1>2, <1>6, Zenon
  <2>3. InLength(f, k, fmt', dir')
    BY <1>1, <1>2, <1>3, <2>1, <2>2, PrecRead DEF n
  <2> QED BY <1>1, <1>2, <1>3, <2>1, <2>3, ReadMore DEF n, f
<1> QED BY <1>5, <1>6

LEMMA LongFlagStep == PrintkInv /\ LongFlag => PrintkInv'
<1> SUFFICES ASSUME PrintkInv, LongFlag PROVE PrintkInv'
  OBVIOUS
<1> DEFINE f == cur.fmt
           n == Len(f)
<1>1. /\ pc = "length" /\ UNCHANGED <<job, call, ap, dir, out>> /\ pc' = "convert"
      /\ fmt' = IF c = "l" THEN fmt + 1 ELSE fmt
  BY DEF LongFlag
<1>2. /\ Typed /\ f \in Seq(Char) /\ n \in Nat /\ fmt \in Nat /\ dir \in Dirs
      /\ fmt <= n <=> c # NUL
      /\ fmt <= n => c = f[fmt]
      /\ fmt \in 1 .. n + 1
  BY <1>1, AtDirective DEF Typed
<1>3. PICK k \in 1 .. n : f[k] = "%" /\ Begun(job, call, k, ap, out) /\ InLength(f, k, fmt, dir)
  BY <1>1, AtDirective DEF Reading
<1> HIDE DEF n, f
<1>4. c = "l" <=> fmt <= n /\ f[fmt] = "l"
  <2>1. NUL # "l"
    BY DEF NUL
  <2> QED BY <1>2, <2>1, Zenon
<1>5. fmt' = IF fmt <= n /\ f[fmt] = "l" THEN fmt + 1 ELSE fmt
  BY <1>1, <1>4, Zenon
<1>6. InConvert(f, k, fmt', dir')
  BY <1>1, <1>2, <1>3, <1>5, ReadLong DEF n
<1>7. fmt' \in 1 .. n + 1
  BY <1>2, <1>5
<1> QED BY <1>1, <1>2, <1>3, <1>6, <1>7, ReadMore DEF n, f

\* What is known where the switch is reached.
LEMMA AtSpecifier ==
  ASSUME PrintkInv, pc = "convert"
  PROVE  \E k \in 1 .. Len(cur.fmt) :
           /\ cur.fmt[k] = "%" /\ Begun(job, call, k, ap, out) /\ k \in 1 .. Len(cur.fmt) + 1
           /\ fmt = Directive(cur.fmt, k).at /\ Matches(dir, Directive(cur.fmt, k))
           /\ c # NUL => /\ ~Stops(cur.fmt, k) /\ c = cur.fmt[fmt]
                         /\ (Takes(cur.fmt, k) <=> c \in Specifiers) /\ After(cur.fmt, k) = fmt + 1
           /\ c = NUL => Stops(cur.fmt, k) /\ fmt = Len(cur.fmt) + 1
<1> DEFINE f == cur.fmt
           n == Len(f)
<1>1. /\ Typed /\ f \in Seq(Char) /\ n \in Nat /\ fmt \in Nat
      /\ fmt <= n <=> c # NUL
      /\ fmt <= n => c = f[fmt]
      /\ fmt = n + 1 \/ fmt \in 1 .. n
  BY AtDirective
<1>2. PICK k \in 1 .. n : f[k] = "%" /\ Begun(job, call, k, ap, out) /\ InConvert(f, k, fmt, dir)
  BY AtDirective DEF Reading
<1> DEFINE at == Directive(f, k).at
<1>3. fmt = at /\ Matches(dir, Directive(f, k))
  BY <1>2, Zenon DEF InConvert
<1> HIDE DEF n, f, at
<1>4. k \in 1 .. n + 1 /\ ~(k > n)
  BY <1>1
<1>5. fmt <= n <=> ~(fmt > n)
  BY <1>1
<1>6. Stops(f, k) <=> fmt > n
  BY <1>2, <1>3, <1>4, Zenon DEF Stops, n, at
<1>7. After(f, k) = fmt + 1 /\ (Takes(f, k) <=> f[fmt] \in Specifiers)
  BY <1>2, <1>3, Zenon DEF After, Takes, at
<1>8. c = NUL => fmt = n + 1
  BY <1>1
<1>9. c # NUL => ~Stops(f, k) /\ c = f[fmt]
  BY <1>1, <1>5, <1>6, Zenon
<1>10. c = NUL => Stops(f, k)
  BY <1>1, <1>5, <1>6, Zenon
<1> QED BY <1>2, <1>3, <1>4, <1>7, <1>8, <1>9, <1>10, Zenon DEF n, f, at

LEMMA ConvertStep == PrintkInv /\ Convert => PrintkInv'
<1> SUFFICES ASSUME PrintkInv, Convert PROVE PrintkInv'
  OBVIOUS
<1> DEFINE f == cur.fmt
           g == cur.args
<1>1. /\ Typed /\ pc = "convert" /\ c \in Specifiers /\ fmt' = fmt + 1 /\ ap' = ap + 1
      /\ UNCHANGED <<job, call, dir>> /\ OUTPUT(Converted(c, g[ap + 1]), "scan")
  BY DEF PrintkInv, Convert
<1>2. c # NUL
  BY <1>1 DEF Specifiers, NUL
<1>3. PICK k \in 1 .. Len(f) :
        /\ f[k] = "%" /\ Begun(job, call, k, ap, out) /\ k \in 1 .. Len(f) + 1
        /\ fmt = Directive(f, k).at /\ Matches(dir, Directive(f, k))
        /\ ~Stops(f, k) /\ c = f[fmt] /\ (Takes(f, k) <=> c \in Specifiers) /\ After(f, k) = fmt + 1
  BY <1>1, <1>2, AtSpecifier
<1>4. f \in Seq(Char) /\ g \in Seq(Argument) /\ Len(f) \in Nat /\ Len(g) \in Nat
  BY <1>1, CharRead DEF Typed
<1>5. Takes(f, k) /\ ap \in Nat
  <2>1. ap \in 0 .. Len(g)
    BY <1>1 DEF Typed
  <2> HIDE DEF g
  <2>2. ap \in Nat
    BY <1>4, <2>1
  <2>3. Takes(f, k)
    BY <1>1, <1>3, Zenon
  <2> QED BY <2>2, <2>3
<1>6. g[ap + 1] \in Argument
  <2>1. ap + Asked(f)[k] <= Len(g)
    BY <1>3, Zenon DEF Begun, cur
  <2>2. ap + 1 <= Len(g)
    BY <1>3, <1>4, <1>5, <2>1, PieceType
  <2> HIDE DEF g
  <2>3. ap + 1 \in 1 .. Len(g)
    BY <1>4, <1>5, <2>2
  <2> QED BY <1>4, <2>3, ElementOfSeq
<1> DEFINE d == Directive(f, k)
<1>7. DirOk(d)
  BY <1>4, DirectiveOk
<1>8. dir.width = d.width /\ dir.ladjust = d.left /\ dir.padc = PadChar(d)
  BY <1>3, Zenon DEF Matches
<1>9. Piece(f, k, g, ap) = Text(d, c, g[ap + 1])
  BY <1>1, <1>3, Zenon DEF Piece
<1> HIDE DEF f, g, d
<1>10. Converted(c, g[ap + 1]) = Text(d, c, g[ap + 1])
  BY <1>1, <1>6, <1>7, <1>8, SpecifierText
<1>11. OUTPUT(Piece(f, k, g, ap), "scan") /\ ap' = IF Takes(f, k) THEN ap + 1 ELSE ap
  BY <1>1, <1>5, <1>9, <1>10, Zenon
<1>12. fmt' = After(f, k)
  BY <1>1, <1>3, Zenon
<1> QED BY <1>1, <1>3, <1>11, <1>12, OutputPiece DEF f, g

LEMMA DefaultStep == PrintkInv /\ Default => PrintkInv'
<1> SUFFICES ASSUME PrintkInv, Default PROVE PrintkInv'
  OBVIOUS
<1> DEFINE f == cur.fmt
           g == cur.args
<1>1. /\ Typed /\ pc = "convert" /\ c \notin Specifiers /\ c # NUL /\ fmt' = fmt + 1
      /\ UNCHANGED <<job, call, ap, dir>> /\ OUTPUT(<<c>>, "scan")
  BY DEF PrintkInv, Default
<1>2. PICK k \in 1 .. Len(f) :
        /\ f[k] = "%" /\ Begun(job, call, k, ap, out) /\ k \in 1 .. Len(f) + 1
        /\ fmt = Directive(f, k).at
        /\ ~Stops(f, k) /\ c = f[fmt] /\ (Takes(f, k) <=> c \in Specifiers) /\ After(f, k) = fmt + 1
  BY <1>1, AtSpecifier
<1>3. Piece(f, k, g, ap) = <<c>> /\ ~Takes(f, k)
  BY <1>1, <1>2, Zenon DEF Piece
<1> HIDE DEF f, g
<1>4. OUTPUT(Piece(f, k, g, ap), "scan") /\ ap' = IF Takes(f, k) THEN ap + 1 ELSE ap
  BY <1>1, <1>3, Zenon
<1>5. fmt' = After(f, k)
  BY <1>1, <1>2, Zenon
<1> QED BY <1>1, <1>2, <1>4, <1>5, OutputPiece DEF f, g

LEMMA EndInsideStep == PrintkInv /\ EndInside => PrintkInv'
<1> SUFFICES ASSUME PrintkInv, EndInside PROVE PrintkInv'
  OBVIOUS
<1> DEFINE f == cur.fmt
           g == cur.args
           n == Len(f)
<1>1. /\ Typed /\ pc = "convert" /\ c = NUL /\ pc' = "scan" /\ fmt' = (fmt - 1) + 1
      /\ UNCHANGED <<job, call, ap, dir, out>>
  BY DEF PrintkInv, EndInside
<1>2. PICK k \in 1 .. n : Begun(job, call, k, ap, out) /\ k \in 1 .. n + 1 /\ Stops(f, k) /\ fmt = n + 1
  BY <1>1, AtSpecifier
<1>3. f \in Seq(Char) /\ n \in Nat /\ Len(g) \in Nat
  BY <1>1, CharRead DEF Typed
<1>4. ap \in 0 .. Len(g)
  BY <1>1 DEF Typed
<1> HIDE DEF f, g, n
<1>5. ap \in Nat /\ ap + 0 <= Len(g) /\ n + 1 \in 1 .. n + 1 /\ n + 1 > n /\ fmt' = n + 1
  BY <1>1, <1>2, <1>3, <1>4
<1>6. Stops(f, n + 1)
  BY <1>5, Zenon DEF Stops, n
<1>7. Asked(f)[n + 1] = 0
  BY <1>3, <1>5, <1>6, AskedIs DEF n
<1>8. PiecesFrom(f, g)[k][ap] = << >> /\ PiecesFrom(f, g)[n + 1][ap] = << >>
  BY <1>2, <1>3, <1>5, <1>6, PiecesAre, Zenon DEF n
<1>9. Printing(out, PiecesFrom(f, g)[k][ap], Flat(PiecesOf(job))[call])
  BY <1>2, Zenon DEF Begun, f, g, cur
<1>10. Begun(job, call, n + 1, ap, out)
  BY <1>5, <1>7, <1>8, <1>9, Zenon DEF Begun, f, g, cur
<1>11. job' = job /\ call' = call /\ ap' = ap /\ out' = out /\ dir' = dir /\ cur' = cur
  BY <1>1, Zenon DEF cur
<1>12. Typed'
  <2>1. fmt' \in 1 .. Len(cur'.fmt) + 1
    BY <1>5, <1>11, Zenon DEF f, n
  <2> QED BY <1>1, <1>11, <2>1, Zenon DEF Typed
<1>13. Scanning'
  <2>1. Begun(job', call', fmt', ap', out')
    BY <1>5, <1>10, <1>11, Zenon
  <2> QED BY <1>1, <2>1, Zenon DEF Scanning
<1> QED BY <1>12, <1>13, Zenon DEF PrintkInv

LEMMA ReturnStep == PrintkInv /\ Return => PrintkInv'
<1> SUFFICES ASSUME PrintkInv, Return PROVE PrintkInv'
  OBVIOUS
<1> DEFINE f == cur.fmt
           g == cur.args
           n == Len(f)
           N == Len(job.calls)
           P == PiecesOf(job)
<1>1. /\ Typed /\ pc = "scan" /\ c = NUL /\ fmt' = 1 /\ ap' = 0 /\ UNCHANGED <<job, dir>>
      /\ out' = out \o myoutput(<<NUL>>)
      /\ IF call < N THEN call' = call + 1 /\ pc' = "scan"
         ELSE call' = call /\ pc' = IF job.panic THEN "panic" ELSE "done"
  BY DEF PrintkInv, Return
<1>2. Begun(job, call, fmt, ap, out)
  BY <1>1 DEF PrintkInv, Scanning, Parsing, Reading, Ended, Stopped
<1>3. f \in Seq(Char) /\ n \in Nat /\ Len(g) \in Nat /\ fmt = n + 1
  BY <1>1, CharRead DEF Typed
<1>4. job \in Work /\ dir \in Dirs /\ call \in 1 .. N /\ N \in Nat /\ ap \in 0 .. Len(g)
  BY <1>1, JobIs DEF Typed
<1>5. out' = out
  <2>1. out \in Seq(Char)
    BY <1>2, <1>4, BegunType
  <2> QED BY <1>1, <2>1, NulShown, ConcatEmptySeq
<1>6. Printing(out, << >>, Flat(P)[call])
  <2> HIDE DEF f, g, n, N, P
  <2>1. ap \in Nat /\ fmt \in 1 .. n + 1 /\ fmt > n
    BY <1>3, <1>4
  <2>2. Stops(f, fmt)
    BY <2>1, Zenon DEF Stops, n
  <2> QED BY <1>2, <1>4, <2>1, <2>2, CallPrinted DEF f, g, n, N, P, cur
\* The next call, or the same one, can begin.
<1>7. \A m \in 1 .. N : call' = m => Typed'
  <2>0. SUFFICES ASSUME NEW m \in 1 .. N, call' = m PROVE Typed'
    OBVIOUS
  <2>1. job' = job /\ dir' = dir /\ fmt' = 1 /\ ap' = 0 /\ cur' = job.calls[m]
    BY <1>1, <2>0 DEF cur
  <2> DEFINE h == job.calls[m].fmt
             b == job.calls[m].args
  <2>2. h \in Seq(Char) /\ b \in Seq(Argument)
    BY <1>4, JobIs
  <2>3. Len(h) \in Nat /\ Len(b) \in Nat
    BY <2>2
  <2> HIDE DEF h, b
  <2>4. 1 \in 1 .. Len(h) + 1 /\ 0 \in 0 .. Len(b)
    BY <2>3
  <2>5. call' \in 1 .. Len(job'.calls)
    BY <2>0, <2>1, Zenon
  <2> QED BY <1>4, <2>1, <2>4, <2>5, Zenon DEF Typed, h, b
<1>8. CASE call < N
  <2>1. call' = call + 1 /\ pc' = "scan" /\ job' = job /\ fmt' = 1 /\ ap' = 0
    BY <1>1, <1>8
  <2> HIDE DEF f, g, n, N, P
  <2>2. call + 1 \in 1 .. N /\ call + 1 # 1 /\ (call + 1) - 1 = call
    BY <1>4, <1>8
  <2> DEFINE m == call + 1
             h == job.calls[m].fmt
             b == job.calls[m].args
             x == PiecesFrom(h, b)[1][0]
  <2>3. m \in 1 .. N
    BY <2>2
  <2>4. P[m] = x /\ Flat(P)[m] = (IF m = 1 THEN P[m] ELSE Flat(P)[m - 1] \o P[m])
    BY <1>4, <2>3, PiecesOfJob DEF P, N
  <2>5. Flat(P)[m] = Flat(P)[call] \o x
    BY <2>2, <2>4, Zenon
  <2>6. Printing(out, x, Flat(P)[m])
    BY <1>6, <2>5, MoreToPrint, Zenon
  <2>7. 0 + Asked(h)[1] <= Len(b)
    <3>1. h \in Seq(Char) /\ Asked(h)[1] <= Len(b)
      BY <1>4, <2>3, JobIs DEF N
    <3> HIDE DEF h, b
    <3>2. 1 \in 1 .. Len(h) + 1
      BY <3>1, LenProperties
    <3>3. Asked(h)[1] \in Nat
      BY <3>1, <3>2, AskedIs
    <3> QED BY <3>1, <3>3
  <2>8. Begun(job, m, 1, 0, out)
    BY <2>6, <2>7, Zenon DEF Begun, P
  <2>9. Begun(job', call', fmt', ap', out')
    BY <1>5, <2>1, <2>8, Zenon
  <2>10. Typed'
    BY <1>7, <2>1, <2>2, Zenon
  <2> QED BY <2>1, <2>9, <2>10, Zenon DEF PrintkInv, Scanning
<1>9. CASE ~(call < N)
  <2>1. call' = call /\ pc' = (IF job.panic THEN "panic" ELSE "done") /\ job' = job
    BY <1>1, <1>9
  <2> HIDE DEF f, g, n, N, P
  <2>2. call = N
    BY <1>4, <1>9
  <2>3. Printing(out, << >>, AllPieces(job))
    BY <1>6, <2>2, Zenon DEF AllPieces, P, N
  <2>4. TooLong(AllPieces(job)) = {} /\ out = UpTo(AllPieces(job), Len(AllPieces(job)))
    BY <2>3, AllPrinted
  <2>5. Expected.end = (IF job.panic THEN "panic" ELSE "done") /\ Expected.text = out
    BY <1>4, <2>4, ExpectedIs, Zenon
  <2>6. Expected' = Expected
    BY <2>1, Zenon DEF Expected
  <2>7. Stopped'
    BY <2>1, Zenon DEF Stopped
  <2>8. Ended'
    BY <1>5, <2>1, <2>5, <2>6, <2>7, Zenon DEF Ended
  <2>9. Typed'
    BY <1>4, <1>7, <2>1, Zenon
  <2> QED BY <2>8, <2>9, Zenon DEF PrintkInv
<1> QED BY <1>8, <1>9

LEMMA PrintkInvNext == PrintkInv /\ [Next]_vars => PrintkInv'
<1> SUFFICES ASSUME PrintkInv, [Next]_vars PROVE PrintkInv'
  OBVIOUS
<1>1. CASE Literal BY <1>1, LiteralStep
<1>2. CASE Percent BY <1>2, PercentStep
<1>3. CASE Flags BY <1>3, FlagsStep
<1>4. CASE Width BY <1>4, WidthStep
<1>5. CASE Precision BY <1>5, PrecisionStep
<1>6. CASE LongFlag BY <1>6, LongFlagStep
<1>7. CASE Convert BY <1>7, ConvertStep
<1>8. CASE Default BY <1>8, DefaultStep
<1>9. CASE EndInside BY <1>9, EndInsideStep
<1>10. CASE Return BY <1>10, ReturnStep
<1>11. CASE UNCHANGED vars
  <2>1. /\ job' = job /\ call' = call /\ pc' = pc /\ fmt' = fmt /\ ap' = ap /\ dir' = dir /\ out' = out
        /\ cur' = cur
    BY <1>11 DEF vars, cur
  <2>2. Typed'
    BY <2>1, Zenon DEF PrintkInv, Typed
  <2>3. Scanning => Scanning'
    BY <2>1, Zenon DEF Scanning
  <2>4. Parsing => Parsing'
    <3> SUFFICES ASSUME NEW k \in 1 .. Len(cur.fmt), Reading(k) PROVE Parsing'
      BY DEF Parsing
    <3>1. Reading(k)'
      BY <2>1, Zenon DEF Reading
    <3>2. k \in 1 .. Len(cur'.fmt)
      BY <2>1, Zenon
    <3> QED BY <3>1, <3>2, Zenon DEF Parsing
  <2>5. Ended => Ended'
    <3>1. Expected' = Expected
      BY <2>1, Zenon DEF Expected
    <3> QED BY <2>1, <3>1, Zenon DEF Ended, Stopped
  <2> QED BY <2>2, <2>3, <2>4, <2>5, Zenon DEF PrintkInv
<1> QED BY <1>1, <1>2, <1>3, <1>4, <1>5, <1>6, <1>7, <1>8, <1>9, <1>10, <1>11 DEF Next

\* Between any two steps, what is printed and what the format still asks for
\* make up what the caller's formats mean, and inside a directive the loops
\* have read of it exactly what they have passed.
THEOREM PrintkInvariant == Spec => []PrintkInv
BY PrintkInvInit, PrintkInvNext, PTL DEF Spec

\* lp_Print's pointer into the format never passes the NUL that ends it, not
\* for any directive the format cuts off, and va_arg never reads an argument
\* the caller did not pass.
THEOREM PrintkTypeCorrect == Spec => []PrintkTypeOK
<1>1. PrintkInv => PrintkTypeOK
  <2> SUFFICES ASSUME PrintkInv PROVE PrintkTypeOK
    OBVIOUS
  <2>1. Typed
    BY DEF PrintkInv
  <2>2. pc \in {"scan", "flags", "width", "prec", "length", "convert"} \/ Stopped
    BY DEF PrintkInv, Scanning, Parsing, Reading, Ended
  <2>3. /\ DOMAIN dir = {"ladjust", "padc", "width"}
        /\ dir.ladjust \in BOOLEAN /\ dir.padc \in {" ", "0"} /\ dir.width \in Nat
    BY <2>1 DEF Typed, Dirs
  <2> QED BY <2>1, <2>2, <2>3, Zenon DEF Typed, PrintkTypeOK
<1> QED BY <1>1, PrintkInvariant, PTL

\* Whatever formats and arguments printf or _panic are given, and for every
\* buffer size and word size, what has reached the console when lp_Print stops
\* is exactly what the formats mean: every directive's field, with its sign,
\* zeros, digits and blanks in their places, until the first piece too long
\* for the buffer, which ends in the fatal message.
THEOREM PrintkOutputExact == Spec => []OutputExact
<1>1. PrintkInv => OutputExact
  BY Zenon DEF PrintkInv, Scanning, Parsing, Reading, Ended, OutputExact, Stopped
<1> QED BY <1>1, PrintkInvariant, PTL
=============================================================================
