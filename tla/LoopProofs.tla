----------------------------- MODULE LoopProofs -----------------------------
(***************************************************************************)
(* What the loops of the code compute, for every sequence and every finite  *)
(* set: selecting (Only), adding up (MapThenSumSet) and flattening          *)
(* (FlattenSeq).  The provers cannot instantiate the library's induction    *)
(* theorems, so an induction is a proof that the least counterexample does  *)
(* not exist.                                                               *)
(***************************************************************************)
EXTENDS Selection, Integers, SequencesExt, NaturalsInduction, FiniteSetTheorems, TLAPS

\* A set of numbers that is not empty has a least element.
LEMMA LeastNumber ==
    ASSUME NEW T \in SUBSET Nat, T # {}
    PROVE  \E m \in T : \A k \in T : m <= k
<1> DEFINE Less == {pair \in Nat \X Nat : pair[1] < pair[2]}
<1>1. IsWellFoundedOn(Less, Nat)
  BY NatLessThanWellFounded DEF OpToRel
<1>2. \A x, y \in Nat : <<y, x>> \in Less <=> y < x
  OBVIOUS
<1> HIDE DEF Less
<1>3. PICK x \in T : \A y \in T : <<y, x>> \notin Less
  BY <1>1, WFMin
<1>4. ASSUME NEW y \in T PROVE x <= y
  <2>1. x \in Nat /\ y \in Nat
    OBVIOUS
  <2>2. ~(y < x)
    BY <1>2, <1>3, <2>1, Zenon
  <2> QED BY <2>1, <2>2
<1> QED BY <1>4

\* Induction: a set of numbers that has 0 and with a number its successor has them all.
LEMMA Induction ==
    ASSUME NEW P \in SUBSET Nat, 0 \in P, \A n \in P : n + 1 \in P
    PROVE  P = Nat
<1> SUFFICES ASSUME Nat \ P # {} PROVE FALSE
  OBVIOUS
<1>1. PICK m \in Nat \ P : \A k \in Nat \ P : m <= k
  BY LeastNumber
<1>2. m - 1 \in Nat /\ m - 1 \in P
  BY <1>1
<1>3. m = (m - 1) + 1
  BY <1>1
<1> QED BY <1>1, <1>2, <1>3

-----------------------------------------------------------------------------
(* The loop.                                                                 *)

\* The values of "kept" up to item m.
LoopStep(f, s, wanted, n) ==
    IF n = 0 THEN <<>>
    ELSE IF s[n] \in wanted THEN Append(f[n - 1], s[n]) ELSE f[n - 1]

Loop(f, s, wanted, m) == f = [n \in 0 .. m |-> LoopStep(f, s, wanted, n)]

\* The recursive definition defines something.
LEMMA LoopExists ==
    ASSUME NEW s, NEW wanted, NEW m \in Nat
    PROVE  \E f : Loop(f, s, wanted, m)
<1> DEFINE P == {k \in Nat : \E f : Loop(f, s, wanted, k)}
<1>1. 0 \in P
  <2>1. Loop([n \in 0 .. 0 |-> <<>>], s, wanted, 0)
    BY DEF Loop, LoopStep
  <2> QED BY <2>1
<1>2. ASSUME NEW j \in P PROVE j + 1 \in P
  <2>1. PICK g : Loop(g, s, wanted, j)
    OBVIOUS
  <2> DEFINE k == j + 1
             f == [n \in 0 .. k |-> IF n = k THEN LoopStep(g, s, wanted, k) ELSE g[n]]
  <2>2. j \in Nat /\ k \in Nat /\ k # 0
    OBVIOUS
  <2>3. \A n \in 0 .. j : f[n] = g[n]
    BY <2>2
  <2>4. ASSUME NEW n \in 0 .. k PROVE f[n] = LoopStep(f, s, wanted, n)
    <3>1. CASE n = k
      BY <2>2, <2>3, <3>1 DEF LoopStep
    <3>2. CASE n # k
      <4>1. n \in 0 .. j
        BY <2>2, <3>2
      <4>2. g[n] = LoopStep(g, s, wanted, n)
        BY <2>1, <4>1 DEF Loop
      <4> QED BY <2>2, <2>3, <4>1, <4>2 DEF LoopStep
    <3> QED BY <3>1, <3>2
  <2>5. Loop(f, s, wanted, k)
    BY <2>4 DEF Loop
  <2> QED BY <2>2, <2>5
<1> HIDE DEF P
<1>3. P = Nat
  BY <1>1, <1>2, Induction DEF P
<1> QED BY <1>3 DEF P

LEMMA OnlyLoops ==
    ASSUME NEW s, NEW wanted, Len(s) \in Nat
    PROVE  \E f : Loop(f, s, wanted, Len(s)) /\ Only(s, wanted) = f[Len(s)]
<1>1. \E f : Loop(f, s, wanted, Len(s))
  BY LoopExists
<1> QED BY <1>1 DEF Only, Loop, LoopStep

\* One turn of the loop.
LEMMA LoopTurn ==
    ASSUME NEW f, NEW s, NEW wanted, NEW m \in Nat, Loop(f, s, wanted, m)
    PROVE  /\ f[0] = <<>>
           /\ \A n \in Nat : n + 1 <= m =>
                f[n + 1] = IF s[n + 1] \in wanted THEN Append(f[n], s[n + 1]) ELSE f[n]
<1>1. f[0] = <<>>
  BY DEF Loop, LoopStep
<1>2. ASSUME NEW n \in Nat, n + 1 <= m
      PROVE  f[n + 1] = IF s[n + 1] \in wanted THEN Append(f[n], s[n + 1]) ELSE f[n]
  <2>1. n + 1 \in 0 .. m /\ n + 1 # 0 /\ (n + 1) - 1 = n
    BY <1>2
  <2>2. f[n + 1] = LoopStep(f, s, wanted, n + 1)
    BY <2>1 DEF Loop
  <2> QED BY <2>1, <2>2 DEF LoopStep
<1> QED BY <1>1, <1>2

-----------------------------------------------------------------------------
(* What it keeps.                                                            *)

\* e tells where each item of p stands in s: in the same order, and every wanted item
\* of the first m is there.
Places(e, p, s, wanted, m) ==
    /\ e \in [DOMAIN p -> 1 .. m]
    /\ \A j \in DOMAIN p : p[j] = s[e[j]] /\ s[e[j]] \in wanted
    /\ \A j, k \in DOMAIN p : j < k => e[j] < e[k]
    /\ \A i \in 1 .. m : s[i] \in wanted => \E j \in DOMAIN p : e[j] = i

\* Only keeps the wanted items, each once, in their order, and no other.
LEMMA OnlyPlaces ==
    ASSUME NEW S, NEW s \in Seq(S), NEW wanted
    PROVE  /\ Only(s, wanted) \in Seq(S)
           /\ \E e : Places(e, Only(s, wanted), s, wanted, Len(s))
<1>0. Len(s) \in Nat
  OBVIOUS
<1>1. PICK f : Loop(f, s, wanted, Len(s)) /\ Only(s, wanted) = f[Len(s)]
  BY <1>0, OnlyLoops
<1> DEFINE Good(n) == f[n] \in Seq(S) /\ \E e : Places(e, f[n], s, wanted, n)
           P == {n \in Nat : n <= Len(s) => Good(n)}
<1>2. 0 \in P
  <2>1. f[0] = <<>>
    BY <1>0, <1>1, LoopTurn
  <2>2. Places(<<>>, <<>>, s, wanted, 0)
    BY DEF Places
  <2>3. Good(0)
    BY <2>1, <2>2
  <2> QED BY <2>3
<1>3. ASSUME NEW n \in P PROVE n + 1 \in P
  <2> SUFFICES ASSUME n + 1 <= Len(s) PROVE Good(n + 1)
    OBVIOUS
  <2>1. n \in Nat /\ n <= Len(s) /\ n + 1 \in 1 .. Len(s)
    BY <1>0
  <2>2. f[n] \in Seq(S)
    BY <2>1
  <2>3. PICK e : Places(e, f[n], s, wanted, n)
    BY <2>1
  <2>4. f[n + 1] = IF s[n + 1] \in wanted THEN Append(f[n], s[n + 1]) ELSE f[n]
    BY <1>0, <1>1, <2>1, LoopTurn
  <2>5. CASE s[n + 1] \notin wanted
    <3>1. Places(e, f[n], s, wanted, n + 1)
      BY <2>1, <2>2, <2>3, <2>5 DEF Places
    <3> QED BY <2>2, <2>4, <2>5, <3>1
  <2>6. CASE s[n + 1] \in wanted
    <3> DEFINE p == Append(f[n], s[n + 1])
               d == [j \in DOMAIN p |-> IF j = Len(p) THEN n + 1 ELSE e[j]]
    <3>1. p \in Seq(S) /\ Len(p) = Len(f[n]) + 1 /\ Len(f[n]) \in Nat
      BY <2>1, <2>2
    <3>2. \A j \in DOMAIN f[n] : j \in DOMAIN p /\ j # Len(p) /\ p[j] = f[n][j] /\ d[j] = e[j]
      BY <2>2, <3>1
    <3>3. \A j \in DOMAIN p : j = Len(p) \/ j \in DOMAIN f[n]
      BY <2>2, <3>1
    <3>4. Len(p) \in DOMAIN p /\ p[Len(p)] = s[n + 1] /\ d[Len(p)] = n + 1
      BY <2>2, <3>1
    <3>5. DOMAIN p \subseteq Nat /\ \A j \in DOMAIN f[n] : j < Len(p)
      BY <2>2, <3>1
    <3> HIDE DEF p
    <3>6. \A j \in DOMAIN p : d[j] \in 1 .. (n + 1)
      BY <2>1, <2>3, <3>2, <3>3, <3>4 DEF Places
    <3>7. d \in [DOMAIN p -> 1 .. (n + 1)]
      BY <3>6
    <3> HIDE DEF d
    <3>8. \A j \in DOMAIN p : p[j] = s[d[j]] /\ s[d[j]] \in wanted
      BY <2>3, <2>6, <3>2, <3>3, <3>4 DEF Places
    <3>9. ASSUME NEW j \in DOMAIN p, NEW k \in DOMAIN p, j < k PROVE d[j] < d[k]
      <4>1. j \in DOMAIN f[n]
        BY <3>1, <3>3, <3>5, <3>9
      <4>2. CASE k \in DOMAIN f[n]
        BY <2>3, <3>2, <3>9, <4>1, <4>2 DEF Places
      <4>3. CASE k = Len(p)
        <5>1. e[j] \in 1 .. n
          BY <2>3, <4>1 DEF Places
        <5> QED BY <2>1, <3>2, <3>4, <4>1, <4>3, <5>1
      <4> QED BY <3>3, <4>2, <4>3
    <3>10. ASSUME NEW i \in 1 .. (n + 1), s[i] \in wanted PROVE \E j \in DOMAIN p : d[j] = i
      <4>1. CASE i = n + 1
        BY <3>4, <4>1
      <4>2. CASE i # n + 1
        <5>1. i \in 1 .. n
          BY <2>1, <4>2
        <5>2. PICK j \in DOMAIN f[n] : e[j] = i
          BY <2>3, <3>10, <5>1 DEF Places
        <5> QED BY <3>2, <5>2
      <4> QED BY <4>1, <4>2
    <3>11. Places(d, p, s, wanted, n + 1)
      BY <3>7, <3>8, <3>9, <3>10 DEF Places
    <3> QED BY <2>4, <2>6, <3>1, <3>11 DEF p
  <2> QED BY <2>5, <2>6
<1> HIDE DEF P
<1>4. P = Nat
  BY <1>2, <1>3, Induction DEF P
<1> QED BY <1>0, <1>1, <1>4 DEF P

LEMMA AppendConcat ==
    ASSUME NEW S, NEW a \in Seq(S), NEW b \in Seq(S), NEW x \in S
    PROVE  Append(a \o b, x) = a \o Append(b, x) /\ Append(b, x) \in Seq(S)
OBVIOUS

\* Selecting from two sequences, one behind the other, is selecting from each.
LEMMA OnlyConcat ==
    ASSUME NEW S, NEW s \in Seq(S), NEW t \in Seq(S), NEW wanted
    PROVE  Only(s \o t, wanted) = Only(s, wanted) \o Only(t, wanted)
<1> DEFINE st == s \o t
<1>0. /\ Len(s) \in Nat /\ Len(t) \in Nat /\ st \in Seq(S)
      /\ Len(st) = Len(s) + Len(t) /\ Len(st) \in Nat
      /\ \A n \in 1 .. Len(s) : st[n] = s[n]
      /\ \A n \in 1 .. Len(t) : st[Len(s) + n] = t[n]
  OBVIOUS
<1> HIDE DEF st
<1>1. PICK f : Loop(f, s, wanted, Len(s)) /\ Only(s, wanted) = f[Len(s)]
  BY <1>0, OnlyLoops
<1>2. PICK h : Loop(h, t, wanted, Len(t)) /\ Only(t, wanted) = h[Len(t)]
  BY <1>0, OnlyLoops
<1>3. PICK g : Loop(g, st, wanted, Len(st)) /\ Only(st, wanted) = g[Len(st)]
  BY <1>0, OnlyLoops
<1>3a. \A k \in Nat : k + 1 <= Len(st) =>
         g[k + 1] = IF st[k + 1] \in wanted THEN Append(g[k], st[k + 1]) ELSE g[k]
  BY <1>0, <1>3, LoopTurn
<1>4. f[Len(s)] \in Seq(S)
  BY <1>1, OnlyPlaces
<1>5. g[Len(s)] = f[Len(s)]
  <2> DEFINE P == {n \in Nat : n <= Len(s) => g[n] = f[n]}
  <2>1. 0 \in P
    BY <1>0, <1>1, <1>3, LoopTurn
  <2>2. ASSUME NEW n \in P PROVE n + 1 \in P
    <3> SUFFICES ASSUME n + 1 <= Len(s) PROVE g[n + 1] = f[n + 1]
      OBVIOUS
    <3>1. n \in Nat /\ n <= Len(s) /\ n + 1 <= Len(st) /\ n + 1 \in 1 .. Len(s)
      BY <1>0
    <3>2. g[n] = f[n] /\ st[n + 1] = s[n + 1]
      BY <1>0, <3>1
    <3>3. f[n + 1] = IF s[n + 1] \in wanted THEN Append(f[n], s[n + 1]) ELSE f[n]
      BY <1>0, <1>1, <3>1, LoopTurn
    <3>4. g[n + 1] = IF st[n + 1] \in wanted THEN Append(g[n], st[n + 1]) ELSE g[n]
      BY <1>3a, <3>1, Zenon
    <3> QED BY <3>2, <3>3, <3>4
  <2> HIDE DEF P
  <2>3. P = Nat
    BY <2>1, <2>2, Induction DEF P
  <2> QED BY <1>0, <2>3 DEF P
<1> DEFINE Good(n) == h[n] \in Seq(S) /\ g[Len(s) + n] = f[Len(s)] \o h[n]
           Q == {n \in Nat : n <= Len(t) => Good(n)}
<1>6. Good(0)
  <2>1. h[0] = <<>> /\ Len(s) + 0 = Len(s)
    BY <1>0, <1>2, LoopTurn
  <2>2. f[Len(s)] \o <<>> = f[Len(s)]
    BY <1>4
  <2> QED BY <1>5, <2>1, <2>2
<1>7. ASSUME NEW n \in Nat, n + 1 <= Len(t), Good(n) PROVE Good(n + 1)
  <2>1. /\ n + 1 \in 1 .. Len(t)
        /\ Len(s) + n \in Nat /\ (Len(s) + n) + 1 <= Len(st)
        /\ (Len(s) + n) + 1 = Len(s) + (n + 1)
    BY <1>0, <1>7
  <2>2. st[Len(s) + (n + 1)] = t[n + 1] /\ t[n + 1] \in S
    BY <1>0, <2>1
  <2>3. h[n + 1] = IF t[n + 1] \in wanted THEN Append(h[n], t[n + 1]) ELSE h[n]
    BY <1>0, <1>2, <1>7, LoopTurn
  <2>4. g[(Len(s) + n) + 1] = IF st[(Len(s) + n) + 1] \in wanted
                              THEN Append(g[Len(s) + n], st[(Len(s) + n) + 1])
                              ELSE g[Len(s) + n]
    BY <1>3a, <2>1, Zenon
  <2>5. h[n] \in Seq(S)
    BY <1>7
  <2>6. /\ Append(f[Len(s)] \o h[n], t[n + 1]) = f[Len(s)] \o Append(h[n], t[n + 1])
        /\ Append(h[n], t[n + 1]) \in Seq(S)
    <3>1. t[n + 1] \in S
      BY <2>2
    <3> QED BY <1>4, <2>5, <3>1, AppendConcat, Zenon
  <2> HIDE DEF Good
  <2>7. g[Len(s) + (n + 1)] = IF t[n + 1] \in wanted
                              THEN Append(g[Len(s) + n], t[n + 1]) ELSE g[Len(s) + n]
    BY <2>1, <2>2, <2>4
  <2> QED BY <1>7, <2>3, <2>5, <2>6, <2>7, Zenon DEF Good
<1> HIDE DEF Good
<1>8. 0 \in Q /\ \A n \in Q : n + 1 \in Q
  BY <1>0, <1>6, <1>7
<1> HIDE DEF Q
<1>9. Q = Nat
  BY <1>8, Induction DEF Q
<1>10. Good(Len(t))
  BY <1>0, <1>9 DEF Q
<1> QED BY <1>0, <1>1, <1>2, <1>3, <1>10 DEF st, Good

\* Selecting from what is wanted throughout changes nothing.
LEMMA OnlyAll ==
    ASSUME NEW wanted, NEW s \in Seq(wanted)
    PROVE  Only(s, wanted) = s
<1>0. Len(s) \in Nat
  OBVIOUS
<1>1. PICK f : Loop(f, s, wanted, Len(s)) /\ Only(s, wanted) = f[Len(s)]
  BY <1>0, OnlyLoops
<1> DEFINE Good(n) == f[n] = SubSeq(s, 1, n)
           Q == {n \in Nat : n <= Len(s) => Good(n)}
<1>2. Good(0)
  <2>1. f[0] = <<>>
    BY <1>0, <1>1, LoopTurn
  <2> QED BY <2>1
<1>3. ASSUME NEW n \in Nat, n + 1 <= Len(s), Good(n) PROVE Good(n + 1)
  <2>1. n + 1 \in 1 .. Len(s) /\ s[n + 1] \in wanted
    BY <1>0, <1>3
  <2>2. f[n + 1] = Append(f[n], s[n + 1])
    BY <1>0, <1>1, <1>3, <2>1, LoopTurn
  <2>3. SubSeq(s, 1, n + 1) = Append(SubSeq(s, 1, n), s[n + 1])
    BY <2>1
  <2> QED BY <1>3, <2>2, <2>3
<1> HIDE DEF Good
<1>4. 0 \in Q /\ \A n \in Q : n + 1 \in Q
  BY <1>0, <1>2, <1>3
<1> HIDE DEF Q
<1>5. Q = Nat
  BY <1>4, Induction DEF Q
<1>6. Only(s, wanted) = SubSeq(s, 1, Len(s))
  BY <1>0, <1>1, <1>5 DEF Q, Good
<1> QED BY <1>6

\* Selecting from what is not wanted at all leaves nothing.
LEMMA OnlyNone ==
    ASSUME NEW S, NEW s \in Seq(S), NEW wanted, \A n \in DOMAIN s : s[n] \notin wanted
    PROVE  Only(s, wanted) = <<>>
<1>1. Only(s, wanted) \in Seq(S)
  BY OnlyPlaces
<1>2. PICK e : Places(e, Only(s, wanted), s, wanted, Len(s))
  BY OnlyPlaces
<1>3. ASSUME NEW j \in DOMAIN Only(s, wanted) PROVE FALSE
  <2>1. e[j] \in 1 .. Len(s) /\ s[e[j]] \in wanted
    BY <1>2 DEF Places
  <2> QED BY <2>1
<1>4. Len(Only(s, wanted)) = 0
  BY <1>1, <1>3
<1> QED BY <1>1, <1>4

-----------------------------------------------------------------------------
(* Adding up.                                                                *)

\* F[s] is what MapThenSumSet adds up over s, for each subset s of S.
SumStep(F, size, s) ==
    IF s = {} THEN 0
    ELSE LET x == CHOOSE x \in s : TRUE IN size[x] + F[s \ {x}]

IsSum(F, S, size) == F = [s \in SUBSET S |-> SumStep(F, size, s)]

\* The subsets of S of at most n elements.
Small(S, n) == {s \in SUBSET S : Cardinality(s) <= n}

LEMMA SmallStep ==
    ASSUME NEW S, IsFiniteSet(S), NEW n \in Nat, NEW s \in Small(S, n + 1), NEW x \in s
    PROVE  s \ {x} \in Small(S, n)
<1>1. IsFiniteSet(s) /\ s \in SUBSET S /\ Cardinality(s) <= n + 1
  BY FS_Subset DEF Small
<1>2. Cardinality(s) \in Nat /\ Cardinality(s \ {x}) = Cardinality(s) - 1
  BY <1>1, FS_RemoveElement, FS_CardinalityType
<1>3. Cardinality(s \ {x}) <= n
  BY <1>1, <1>2
<1> QED BY <1>1, <1>3 DEF Small

LEMMA SmallMore ==
    ASSUME NEW S, IsFiniteSet(S), NEW n \in Nat
    PROVE  Small(S, n) \subseteq Small(S, n + 1)
<1> SUFFICES ASSUME NEW s \in Small(S, n) PROVE s \in Small(S, n + 1)
  OBVIOUS
<1>1. IsFiniteSet(s) /\ s \in SUBSET S /\ Cardinality(s) <= n
  BY FS_Subset DEF Small
<1>2. Cardinality(s) \in Nat
  BY <1>1, FS_CardinalityType
<1>3. Cardinality(s) <= n + 1
  BY <1>1, <1>2
<1> QED BY <1>1, <1>3 DEF Small

LEMMA SmallNone ==
    ASSUME NEW S, IsFiniteSet(S)
    PROVE  Small(S, 0) = {{}}
<1>1. \A s \in SUBSET S : IsFiniteSet(s) /\ Cardinality(s) \in Nat
  BY FS_Subset, FS_CardinalityType
<1>2. \A s \in SUBSET S : Cardinality(s) <= 0 <=> s = {}
  BY <1>1, FS_EmptySet
<1> QED BY <1>2 DEF Small

LEMMA SmallAll ==
    ASSUME NEW S, IsFiniteSet(S)
    PROVE  Cardinality(S) \in Nat /\ Small(S, Cardinality(S)) = SUBSET S
BY FS_Subset, FS_CardinalityType DEF Small

\* The sum over a finite set is defined.
LEMMA SumExists ==
    ASSUME NEW S, IsFiniteSet(S), NEW size
    PROVE  \E F : IsSum(F, S, size)
<1> DEFINE Partial(F, n) == F = [s \in Small(S, n) |-> SumStep(F, size, s)]
           P == {n \in Nat : \E F : Partial(F, n)}
<1>1. 0 \in P
  <2>1. Partial([s \in Small(S, 0) |-> 0], 0)
    BY SmallNone DEF SumStep
  <2> QED BY <2>1
<1>2. ASSUME NEW n \in P PROVE n + 1 \in P
  <2>0. n \in Nat /\ n + 1 \in Nat
    OBVIOUS
  <2>1. PICK G : Partial(G, n)
    OBVIOUS
  <2> DEFINE F == [s \in Small(S, n + 1) |-> SumStep(G, size, s)]
  <2>2. ASSUME NEW s \in Small(S, n) PROVE F[s] = G[s]
    <3>1. s \in Small(S, n + 1)
      BY <2>0, SmallMore
    <3>2. G[s] = SumStep(G, size, s)
      BY <2>1
    <3> QED BY <3>1, <3>2
  <2>3. ASSUME NEW s \in Small(S, n + 1) PROVE F[s] = SumStep(F, size, s)
    <3>1. F[s] = SumStep(G, size, s)
      OBVIOUS
    <3>2. CASE s = {}
      BY <3>1, <3>2 DEF SumStep
    <3>3. CASE s # {}
      <4> DEFINE x == CHOOSE x \in s : TRUE
      <4>1. x \in s
        BY <3>3
      <4>2. s \ {x} \in Small(S, n)
        BY <2>0, <4>1, SmallStep
      <4>3. F[s \ {x}] = G[s \ {x}]
        BY <2>2, <4>2
      <4> QED BY <3>1, <3>3, <4>3 DEF SumStep
    <3> QED BY <3>2, <3>3
  <2>4. Partial(F, n + 1)
    BY <2>3
  <2> QED BY <2>0, <2>4
<1> HIDE DEF P
<1>3. P = Nat
  BY <1>1, <1>2, Induction DEF P
<1>4. Cardinality(S) \in P
  BY <1>3, SmallAll
<1>5. PICK F : Partial(F, Cardinality(S))
  BY <1>4 DEF P
<1>6. IsSum(F, S, size)
  BY <1>5, SmallAll DEF IsSum
<1> QED BY <1>6

\* One turn: the element that CHOOSE gives is taken first.
LEMMA SumTurn ==
    ASSUME NEW S, NEW size, NEW F, IsSum(F, S, size), NEW s \in SUBSET S
    PROVE  /\ s = {} => F[s] = 0
           /\ s # {} => \E x \in s : /\ x = (CHOOSE y \in s : TRUE)
                                     /\ s \ {x} \in SUBSET S
                                     /\ F[s] = size[x] + F[s \ {x}]
<1>1. F[s] = SumStep(F, size, s)
  BY DEF IsSum
<1>2. s # {} => (CHOOSE y \in s : TRUE) \in s
  OBVIOUS
<1> QED BY <1>1, <1>2 DEF SumStep

\* A finite set and what is left of it after taking one element.
LEMMA CardTurn ==
    ASSUME NEW S, IsFiniteSet(S), NEW s \in SUBSET S
    PROVE  /\ IsFiniteSet(s) /\ Cardinality(s) \in Nat
           /\ s = {} <=> Cardinality(s) = 0
           /\ \A x \in s : Cardinality(s \ {x}) = Cardinality(s) - 1
BY FS_Subset, FS_CardinalityType, FS_EmptySet, FS_RemoveElement

LEMMA CardLess ==
    ASSUME NEW S, IsFiniteSet(S), NEW u \in SUBSET S, NEW n \in Nat, Cardinality(u) = n + 1,
           NEW x \in u
    PROVE  u \ {x} \in SUBSET S /\ Cardinality(u \ {x}) = n
<1>1. Cardinality(u \ {x}) = Cardinality(u) - 1
  BY CardTurn
<1> QED BY <1>1

LEMMA SumNat ==
    ASSUME NEW S, IsFiniteSet(S), NEW size, \A x \in S : size[x] \in Nat,
           NEW F, IsSum(F, S, size), NEW s \in SUBSET S
    PROVE  F[s] \in Nat
<1> DEFINE P == {n \in Nat : \A u \in SUBSET S : Cardinality(u) = n => F[u] \in Nat}
<1>1. 0 \in P
  BY CardTurn, SumTurn
<1>2. ASSUME NEW n \in P PROVE n + 1 \in P
  <2> SUFFICES ASSUME NEW u \in SUBSET S, Cardinality(u) = n + 1 PROVE F[u] \in Nat
    OBVIOUS
  <2>1. n \in Nat /\ u # {}
    BY CardTurn
  <2>2. PICK x \in u : u \ {x} \in SUBSET S /\ F[u] = size[x] + F[u \ {x}]
    BY <2>1, SumTurn
  <2>3. Cardinality(u \ {x}) = n
    BY <2>1, CardLess
  <2>4. F[u \ {x}] \in Nat
    BY <2>2, <2>3
  <2>5. size[x] \in Nat
    OBVIOUS
  <2> QED BY <2>2, <2>4, <2>5
<1> HIDE DEF P
<1>3. P = Nat
  BY <1>1, <1>2, Induction DEF P
<1> QED BY <1>3, CardTurn DEF P

LEMMA SumInt ==
    ASSUME NEW S, IsFiniteSet(S), NEW size, \A x \in S : size[x] \in Int,
           NEW F, IsSum(F, S, size), NEW s \in SUBSET S
    PROVE  F[s] \in Int
<1> DEFINE P == {n \in Nat : \A u \in SUBSET S : Cardinality(u) = n => F[u] \in Int}
<1>1. 0 \in P
  BY CardTurn, SumTurn
<1>2. ASSUME NEW n \in P PROVE n + 1 \in P
  <2> SUFFICES ASSUME NEW u \in SUBSET S, Cardinality(u) = n + 1 PROVE F[u] \in Int
    OBVIOUS
  <2>1. n \in Nat /\ u # {}
    BY CardTurn
  <2>2. PICK x \in u : u \ {x} \in SUBSET S /\ F[u] = size[x] + F[u \ {x}]
    BY <2>1, SumTurn
  <2>3. Cardinality(u \ {x}) = n
    BY <2>1, CardLess
  <2>4. F[u \ {x}] \in Int
    BY <2>2, <2>3
  <2>5. size[x] \in Int
    OBVIOUS
  <2> QED BY <2>2, <2>4, <2>5
<1> HIDE DEF P
<1>3. P = Nat
  BY <1>1, <1>2, Induction DEF P
<1> QED BY <1>3, CardTurn DEF P

\* The order does not matter: any element may be taken first.
LEMMA SumTake ==
    ASSUME NEW S, IsFiniteSet(S), NEW size, \A x \in S : size[x] \in Int,
           NEW F, IsSum(F, S, size), NEW s \in SUBSET S, NEW x \in s
    PROVE  F[s] = size[x] + F[s \ {x}]
<1> DEFINE P == {n \in Nat : \A u \in SUBSET S : Cardinality(u) = n =>
                                \A y \in u : F[u] = size[y] + F[u \ {y}]}
<1>1. 0 \in P
  BY CardTurn
<1>2. ASSUME NEW n \in P PROVE n + 1 \in P
  <2> SUFFICES ASSUME NEW u \in SUBSET S, Cardinality(u) = n + 1, NEW y \in u
               PROVE  F[u] = size[y] + F[u \ {y}]
    OBVIOUS
  <2>0. n \in Nat
    OBVIOUS
  <2>1. PICK c \in u : /\ c = (CHOOSE z \in u : TRUE) /\ u \ {c} \in SUBSET S
                       /\ F[u] = size[c] + F[u \ {c}]
    BY SumTurn
  <2>2. CASE y = c
    BY <2>1, <2>2
  <2>3. CASE y # c
    <3>1. /\ u \ {c} \in SUBSET S /\ u \ {y} \in SUBSET S
          /\ Cardinality(u \ {c}) = n /\ Cardinality(u \ {y}) = n
      BY <2>0, CardTurn
    <3>2. y \in u \ {c} /\ c \in u \ {y} /\ (u \ {c}) \ {y} = (u \ {y}) \ {c}
      BY <2>3
    <3>3. F[u \ {c}] = size[y] + F[(u \ {c}) \ {y}]
      BY <3>1, <3>2
    <3>4. F[u \ {y}] = size[c] + F[(u \ {y}) \ {c}]
      BY <3>1, <3>2
    <3>5. F[(u \ {y}) \ {c}] \in Int /\ size[c] \in Int /\ size[y] \in Int
      BY SumInt
    <3> QED BY <2>1, <3>2, <3>3, <3>4, <3>5
  <2> QED BY <2>2, <2>3
<1> HIDE DEF P
<1>3. P = Nat
  BY <1>1, <1>2, Induction DEF P
<1> QED BY <1>3, CardTurn DEF P

\* A sum over fewer elements, of the same sizes, is no larger.
LEMMA SumFewer ==
    ASSUME NEW S, IsFiniteSet(S), NEW size, \A x \in S : size[x] \in Nat,
           NEW T \in SUBSET S, NEW part, \A x \in T : part[x] = size[x],
           NEW F, IsSum(F, S, size), NEW G, IsSum(G, T, part)
    PROVE  G[T] <= F[S]
<1>0. IsFiniteSet(T)
  BY FS_Subset
\* The smaller sum is the same in both.
<1> DEFINE P == {n \in Nat : \A u \in SUBSET T : Cardinality(u) = n => G[u] = F[u]}
<1>1. 0 \in P
  BY <1>0, CardTurn, SumTurn
<1>2. ASSUME NEW n \in P PROVE n + 1 \in P
  <2> SUFFICES ASSUME NEW u \in SUBSET T, Cardinality(u) = n + 1 PROVE G[u] = F[u]
    OBVIOUS
  <2>1. n \in Nat /\ u # {} /\ u \in SUBSET S
    BY <1>0, CardTurn
  <2>2. PICK x \in u : x = (CHOOSE y \in u : TRUE) /\ G[u] = part[x] + G[u \ {x}]
    BY <2>1, SumTurn
  <2>3. F[u] = size[x] + F[u \ {x}]
    <3>1. \E z \in u : z = (CHOOSE y \in u : TRUE) /\ F[u] = size[z] + F[u \ {z}]
      BY <2>1, SumTurn
    <3> QED BY <2>2, <3>1, Zenon
  <2>4. u \ {x} \in SUBSET T /\ Cardinality(u \ {x}) = n
    BY <1>0, <2>1, CardTurn
  <2>5. G[u \ {x}] = F[u \ {x}] /\ part[x] = size[x]
    BY <2>4
  <2> QED BY <2>2, <2>3, <2>5
<1>3. P = Nat
  <2> HIDE DEF P
  <2> QED BY <1>1, <1>2, Induction DEF P
<1>4. G[T] = F[T]
  <2>1. Cardinality(T) \in Nat /\ T \in SUBSET T
    BY <1>0, FS_CardinalityType
  <2> QED BY <1>3, <2>1
\* And it grows with what is added.
<1> DEFINE Q == {n \in Nat : \A u \in SUBSET S : T \subseteq u /\ Cardinality(u) = n => F[T] <= F[u]}
<1>5. 0 \in Q
  <2>1. ASSUME NEW u \in SUBSET S, T \subseteq u, Cardinality(u) = 0 PROVE F[T] <= F[u]
    <3>1. u = {} /\ T = u
      BY <2>1, CardTurn
    <3>2. F[u] \in Nat
      BY SumNat
    <3> QED BY <3>1, <3>2
  <2> QED BY <2>1
<1>6. ASSUME NEW n \in Q PROVE n + 1 \in Q
  <2> SUFFICES ASSUME NEW u \in SUBSET S, T \subseteq u, Cardinality(u) = n + 1 PROVE F[T] <= F[u]
    OBVIOUS
  <2>0. n \in Nat /\ F[u] \in Nat
    BY SumNat
  <2>1. CASE T = u
    BY <2>0, <2>1
  <2>2. CASE T # u
    <3>1. PICK x \in u : x \notin T
      BY <2>2
    <3>2. u \ {x} \in SUBSET S /\ T \subseteq u \ {x} /\ Cardinality(u \ {x}) = n
      BY <2>0, <3>1, CardTurn
    <3>3. F[T] <= F[u \ {x}]
      BY <3>2
    <3>4. F[u] = size[x] + F[u \ {x}]
      BY <3>1, SumTake
    <3>5. F[u \ {x}] \in Nat /\ size[x] \in Nat /\ F[T] \in Nat
      BY <3>2, SumNat
    <3> QED BY <3>3, <3>4, <3>5
  <2> QED BY <2>1, <2>2
<1>7. Q = Nat
  <2> HIDE DEF Q
  <2> QED BY <1>5, <1>6, Induction DEF Q
<1>8. F[T] <= F[S]
  <2>1. Cardinality(S) \in Nat /\ S \in SUBSET S /\ T \subseteq S
    BY FS_CardinalityType
  <2> QED BY <1>7, <2>1
<1> QED BY <1>4, <1>8

\* The sum that the library computes is a sum.
SumOver(size, S) == MapThenSumSet(LAMBDA x : size[x], S)

LEMMA SumOfMap ==
    ASSUME NEW S, IsFiniteSet(S), NEW size
    PROVE  \E F : IsSum(F, S, size) /\ SumOver(size, S) = F[S]
<1> DEFINE Turn(F) == [s \in SUBSET S |->
                         IF s = {} THEN 0
                         ELSE size[CHOOSE x \in s : TRUE] + F[s \ {CHOOSE x \in s : TRUE}]]
<1>1. \A F : IsSum(F, S, size) <=> F = Turn(F)
  BY DEF IsSum, SumStep
<1>2. SumOver(size, S) = (CHOOSE F : F = Turn(F))[S]
  BY DEF SumOver, MapThenSumSet, MapThenFoldSet
<1> HIDE DEF Turn
<1>3. \E F : F = Turn(F)
  <2>1. PICK F : IsSum(F, S, size)
    BY SumExists, Zenon
  <2> QED BY <1>1, <2>1, Zenon
<1>4. (CHOOSE F : F = Turn(F)) = Turn(CHOOSE F : F = Turn(F))
  BY <1>3, Zenon
<1> QED BY <1>1, <1>2, <1>4, Zenon

\* A sum of items that are no more than b.
LEMMA SumBound ==
    ASSUME NEW S, IsFiniteSet(S), NEW size, NEW b \in Nat,
           \A x \in S : size[x] \in Nat /\ size[x] <= b,
           NEW F, IsSum(F, S, size)
    PROVE  F[S] <= Cardinality(S) * b
<1> DEFINE P == {n \in Nat : \A u \in SUBSET S : Cardinality(u) = n => F[u] <= n * b}
<1>0. \A u \in SUBSET S : F[u] \in Nat
  BY SumNat
<1>1. 0 \in P
  <2>1. ASSUME NEW u \in SUBSET S, Cardinality(u) = 0 PROVE F[u] = 0
    BY <2>1, CardTurn, SumTurn
  <2>2. 0 <= 0 * b
    OBVIOUS
  <2> QED BY <2>1, <2>2
<1>2. ASSUME NEW n \in P PROVE n + 1 \in P
  <2> SUFFICES ASSUME NEW u \in SUBSET S, Cardinality(u) = n + 1 PROVE F[u] <= (n + 1) * b
    OBVIOUS
  <2>1. n \in Nat /\ u # {}
    BY CardTurn
  <2>2. PICK x \in u : u \ {x} \in SUBSET S /\ F[u] = size[x] + F[u \ {x}]
    BY <2>1, SumTurn
  <2>3. Cardinality(u \ {x}) = n
    BY <2>1, CardLess
  <2>4. F[u \ {x}] \in Nat /\ F[u \ {x}] <= n * b /\ size[x] \in Nat /\ size[x] <= b
    BY <1>0, <2>2, <2>3
  <2>5. (n + 1) * b = n * b + b /\ n * b \in Nat
    BY <2>1
  <2> QED BY <2>2, <2>4, <2>5
<1> HIDE DEF P
<1>3. P = Nat
  BY <1>1, <1>2, Induction DEF P
<1> QED BY <1>3, CardTurn DEF P

\* Counting each kind of item and adding up the counts is counting the items.
IsCount(count, D, kind, K) ==
    /\ \A i \in D : kind[i] \in K
    /\ \A k \in K : count[k] = Cardinality({i \in D : kind[i] = k})

LEMMA SumKinds ==
    ASSUME NEW D, IsFiniteSet(D), NEW kind, NEW K, IsFiniteSet(K), NEW count,
           IsCount(count, D, kind, K), NEW F, IsSum(F, K, count)
    PROVE  F[K] = Cardinality(D)
<1> DEFINE Of(u) == {i \in D : kind[i] \in u}
           P == {n \in Nat : \A u \in SUBSET K : Cardinality(u) = n => F[u] = Cardinality(Of(u))}
<1>0. /\ \A i \in D : kind[i] \in K
      /\ \A k \in K : count[k] = Cardinality({i \in D : kind[i] = k})
  BY DEF IsCount
<1>1. 0 \in P
  <2>1. ASSUME NEW u \in SUBSET K, Cardinality(u) = 0 PROVE u = {} /\ F[u] = 0
    BY <2>1, CardTurn, SumTurn
  <2>2. Of({}) = {}
    OBVIOUS
  <2> QED BY <2>1, <2>2, FS_EmptySet
<1>2. ASSUME NEW n \in P PROVE n + 1 \in P
  <2> SUFFICES ASSUME NEW u \in SUBSET K, Cardinality(u) = n + 1 PROVE F[u] = Cardinality(Of(u))
    OBVIOUS
  <2>1. n \in Nat /\ u # {}
    BY CardTurn
  <2>2. PICK x \in u : u \ {x} \in SUBSET K /\ F[u] = count[x] + F[u \ {x}]
    BY <2>1, SumTurn
  <2>3. Cardinality(u \ {x}) = n
    BY <2>1, CardLess
  <2>4. F[u \ {x}] = Cardinality(Of(u \ {x}))
    BY <2>2, <2>3
  <2> DEFINE A == {i \in D : kind[i] = x}
             B == Of(u \ {x})
  <2>5. A \in SUBSET D /\ B \in SUBSET D /\ A \cup B = Of(u) /\ A \cap B = {}
    OBVIOUS
  <2>6. F[u] = Cardinality(A) + Cardinality(B)
    BY <1>0, <2>2, <2>4
  <2> HIDE DEF A, B, Of
  <2>7. IsFiniteSet(A) /\ IsFiniteSet(B)
    BY <2>5, FS_Subset
  <2>8. Cardinality(A) \in Nat /\ Cardinality(B) \in Nat
    BY <2>7, FS_CardinalityType
  <2>9. Cardinality(Of(u)) = Cardinality(A) + Cardinality(B) - 0
    BY <2>5, <2>7, FS_Union, FS_EmptySet
  <2> QED BY <2>6, <2>8, <2>9
<1> HIDE DEF P
<1>3. P = Nat
  BY <1>1, <1>2, Induction DEF P
<1>4. Of(K) = D
  BY <1>0
<1> QED BY <1>3, <1>4, CardTurn DEF P

\* An average of items that are no more than b.
LEMMA DivBound ==
    ASSUME NEW total \in Nat, NEW n \in Nat \ {0}, NEW b \in Nat, total <= n * b
    PROVE  total \div n \in Nat /\ total \div n <= b
OBVIOUS

\* Sums over the same set of the same sizes.
LEMMA SumSame ==
    ASSUME NEW S, IsFiniteSet(S), NEW f, NEW g, NEW F, IsSum(F, S, f), NEW G, IsSum(G, S, g),
           NEW s \in SUBSET S, \A x \in s : f[x] = g[x]
    PROVE  F[s] = G[s]
<1> DEFINE P == {n \in Nat : \A u \in SUBSET s : Cardinality(u) = n => F[u] = G[u]}
<1>1. 0 \in P
  <2>1. ASSUME NEW u \in SUBSET s, Cardinality(u) = 0 PROVE F[u] = G[u]
    <3>1. u \in SUBSET S /\ u = {}
      BY <2>1, CardTurn
    <3> QED BY <3>1, SumTurn
  <2> QED BY <2>1
<1>2. ASSUME NEW n \in P PROVE n + 1 \in P
  <2> SUFFICES ASSUME NEW u \in SUBSET s, Cardinality(u) = n + 1 PROVE F[u] = G[u]
    OBVIOUS
  <2>1. n \in Nat /\ u # {} /\ u \in SUBSET S
    BY CardTurn
  <2>2. PICK x \in u : x = (CHOOSE y \in u : TRUE) /\ F[u] = f[x] + F[u \ {x}]
    BY <2>1, SumTurn
  <2>3. G[u] = g[x] + G[u \ {x}]
    <3>1. \E z \in u : z = (CHOOSE y \in u : TRUE) /\ G[u] = g[z] + G[u \ {z}]
      BY <2>1, SumTurn
    <3> QED BY <2>2, <3>1, Zenon
  <2>4. u \ {x} \in SUBSET s /\ Cardinality(u \ {x}) = n
    BY <2>1, CardTurn
  <2>5. F[u \ {x}] = G[u \ {x}] /\ f[x] = g[x]
    BY <2>4
  <2> QED BY <2>2, <2>3, <2>5
<1> HIDE DEF P
<1>3. P = Nat
  BY <1>1, <1>2, Induction DEF P
<1> QED BY <1>3, CardTurn DEF P

\* A sum is one item and the sum of the others.
LEMMA SumWithout ==
    ASSUME NEW S, IsFiniteSet(S), NEW f \in [S -> Int], NEW k \in S
    PROVE  \E F : /\ IsSum(F, S, f) /\ SumFunction(f) = F[S]
                 /\ F[S] = f[k] + F[S \ {k}] /\ F[S \ {k}] \in Int
<1>1. PICK F : IsSum(F, S, f) /\ SumOver(f, S) = F[S]
  BY SumOfMap
<1>2. SumFunction(f) = SumOver(f, S)
  <2>1. DOMAIN f = S
    OBVIOUS
  <2> QED BY <2>1 DEF SumOver, SumFunction, SumFunctionOnSet, FoldFunctionOnSet, MapThenSumSet
<1>3. \A x \in S : f[x] \in Int
  OBVIOUS
<1>4. ASSUME NEW s \in SUBSET S, NEW y \in s PROVE F[s] = f[y] + F[s \ {y}]
  BY <1>1, <1>3, SumTake
<1>5. S \in SUBSET S /\ S \ {k} \in SUBSET S
  OBVIOUS
<1>6. F[S] = f[k] + F[S \ {k}]
  BY <1>4, <1>5, Zenon
<1>7. F[S \ {k}] \in Int
  BY <1>1, <1>3, <1>5, SumInt
<1> QED BY <1>1, <1>2, <1>6, <1>7

LEMMA SumIsInt ==
    ASSUME NEW S, IsFiniteSet(S), NEW f \in [S -> Int]
    PROVE  SumFunction(f) \in Int
<1>1. PICK F : IsSum(F, S, f) /\ SumOver(f, S) = F[S]
  BY SumOfMap
<1>2. SumFunction(f) = SumOver(f, S)
  <2>1. DOMAIN f = S
    OBVIOUS
  <2> QED BY <2>1 DEF SumOver, SumFunction, SumFunctionOnSet, FoldFunctionOnSet, MapThenSumSet
<1>3. S \in SUBSET S /\ \A x \in S : f[x] \in Int
  OBVIOUS
<1>4. F[S] \in Int
  BY <1>1, <1>3, SumInt
<1> QED BY <1>1, <1>2, <1>4

\* A sum of which one item changes.
LEMMA SumChange ==
    ASSUME NEW S, IsFiniteSet(S), NEW f \in [S -> Int], NEW g \in [S -> Int], NEW k \in S,
           \A x \in S \ {k} : f[x] = g[x]
    PROVE  /\ SumFunction(f) \in Int /\ SumFunction(g) \in Int
           /\ SumFunction(f) - SumFunction(g) = f[k] - g[k]
<1>1. PICK F : /\ IsSum(F, S, f) /\ SumFunction(f) = F[S]
               /\ F[S] = f[k] + F[S \ {k}] /\ F[S \ {k}] \in Int
  BY SumWithout, Zenon
<1>2. PICK G : /\ IsSum(G, S, g) /\ SumFunction(g) = G[S]
               /\ G[S] = g[k] + G[S \ {k}] /\ G[S \ {k}] \in Int
  BY SumWithout, Zenon
<1>3. S \ {k} \in SUBSET S
  OBVIOUS
<1>4. F[S \ {k}] = G[S \ {k}]
  BY <1>1, <1>2, <1>3, SumSame
<1>5. f[k] \in Int /\ g[k] \in Int
  OBVIOUS
<1> QED BY <1>1, <1>2, <1>4, <1>5

-----------------------------------------------------------------------------
(* Flattening.                                                               *)

FlatStep(f, ss, n) == IF n = 1 THEN ss[n] ELSE f[n - 1] \o ss[n]

Flat(f, ss, m) == f = [n \in 1 .. m |-> FlatStep(f, ss, n)]

LEMMA FlatExists ==
    ASSUME NEW ss, NEW m \in Nat
    PROVE  \E f : Flat(f, ss, m)
<1> DEFINE P == {k \in Nat : \E f : Flat(f, ss, k)}
<1>1. 0 \in P
  <2>1. Flat([n \in 1 .. 0 |-> <<>>], ss, 0)
    BY DEF Flat
  <2> QED BY <2>1
<1>2. ASSUME NEW j \in P PROVE j + 1 \in P
  <2>1. PICK g : Flat(g, ss, j)
    OBVIOUS
  <2> DEFINE k == j + 1
             f == [n \in 1 .. k |-> IF n = k THEN FlatStep(g, ss, k) ELSE g[n]]
  <2>2. j \in Nat /\ k \in Nat /\ k # 0
    OBVIOUS
  <2>3. \A n \in 1 .. j : f[n] = g[n]
    BY <2>2
  <2>4. ASSUME NEW n \in 1 .. k PROVE f[n] = FlatStep(f, ss, n)
    <3>1. CASE n = k
      <4>1. k = 1 \/ k - 1 \in 1 .. j
        BY <2>2
      <4> QED BY <2>2, <2>3, <3>1, <4>1 DEF FlatStep
    <3>2. CASE n # k
      <4>1. n \in 1 .. j /\ (n = 1 \/ n - 1 \in 1 .. j)
        BY <2>2, <3>2
      <4>2. g[n] = FlatStep(g, ss, n)
        BY <2>1, <4>1 DEF Flat
      <4> QED BY <2>2, <2>3, <4>1, <4>2 DEF FlatStep
    <3> QED BY <3>1, <3>2
  <2>5. Flat(f, ss, k)
    BY <2>4 DEF Flat
  <2> QED BY <2>2, <2>5
<1> HIDE DEF P
<1>3. P = Nat
  BY <1>1, <1>2, Induction DEF P
<1> QED BY <1>3 DEF P

\* The items of a flattened sequence are items of its parts.
LEMMA FlattenPlaces ==
    ASSUME NEW S, NEW ss \in Seq(Seq(S))
    PROVE  /\ FlattenSeq(ss) \in Seq(S)
           /\ \A k \in DOMAIN FlattenSeq(ss) :
                \E i \in DOMAIN ss : \E j \in DOMAIN ss[i] : FlattenSeq(ss)[k] = ss[i][j]
<1>0. Len(ss) \in Nat /\ DOMAIN ss = 1 .. Len(ss) /\ \A i \in DOMAIN ss : ss[i] \in Seq(S)
  OBVIOUS
<1>1. CASE Len(ss) = 0
  <2>1. FlattenSeq(ss) = ss /\ ss = <<>>
    BY <1>1 DEF FlattenSeq
  <2> QED BY <2>1
<1>2. CASE Len(ss) # 0
  <2>1. \E f : Flat(f, ss, Len(ss))
    BY <1>0, FlatExists
  <2>2. PICK f : Flat(f, ss, Len(ss)) /\ FlattenSeq(ss) = f[Len(ss)]
    BY <1>2, <2>1 DEF FlattenSeq, Flat, FlatStep
  <2> DEFINE From(p) == \A k \in DOMAIN p : \E i \in DOMAIN ss : \E j \in DOMAIN ss[i] : p[k] = ss[i][j]
             P == {n \in Nat : n + 1 <= Len(ss) => f[n + 1] \in Seq(S) /\ From(f[n + 1])}
  <2>3. 0 \in P
    <3>1. 1 \in 1 .. Len(ss) /\ 0 + 1 = 1
      BY <1>0, <1>2
    <3>2. f[1] = ss[1]
      BY <2>2, <3>1 DEF Flat, FlatStep
    <3> QED BY <1>0, <3>1, <3>2
  <2>4. ASSUME NEW n \in P PROVE n + 1 \in P
    <3> DEFINE m == n + 1
    <3> SUFFICES ASSUME m + 1 <= Len(ss) PROVE f[m + 1] \in Seq(S) /\ From(f[m + 1])
      OBVIOUS
    <3>1. m \in Nat /\ m + 1 \in 1 .. Len(ss) /\ m + 1 # 1 /\ (m + 1) - 1 = m /\ m <= Len(ss)
      BY <1>0
    <3>2. f[m] \in Seq(S) /\ From(f[m])
      BY <3>1
    <3>3. f[m + 1] = f[m] \o ss[m + 1]
      <4>1. f[m + 1] = FlatStep(f, ss, m + 1)
        BY <2>2, <3>1 DEF Flat
      <4> QED BY <3>1, <4>1 DEF FlatStep
    <3> HIDE DEF m
    <3> DEFINE p == f[m]
               q == ss[m + 1]
    <3>4. p \in Seq(S) /\ q \in Seq(S) /\ From(p) /\ m + 1 \in DOMAIN ss
      BY <1>0, <3>1, <3>2
    <3>5. f[m + 1] = p \o q
      BY <3>3
    <3>6. ASSUME NEW k \in DOMAIN (p \o q)
          PROVE  \E i \in DOMAIN ss : \E j \in DOMAIN ss[i] : (p \o q)[k] = ss[i][j]
      <4>1. CASE k \in DOMAIN p
        <5>1. (p \o q)[k] = p[k]
          BY <3>4, <4>1
        <5> QED BY <3>4, <4>1, <5>1
      <4>2. CASE k \notin DOMAIN p
        <5> HIDE DEF p, q
        <5>1. k - Len(p) \in DOMAIN q /\ (p \o q)[k] = q[k - Len(p)]
          BY <3>4, <3>6, <4>2
        <5> QED BY <3>4, <5>1 DEF q
      <4> QED BY <4>1, <4>2
    <3>7. p \o q \in Seq(S)
      BY <3>4
    <3>8. From(p \o q)
      BY <3>6
    <3> HIDE DEF p, q, From
    <3> QED BY <3>5, <3>7, <3>8
  <2> HIDE DEF P, From
  <2>5. P = Nat
    BY <2>3, <2>4, Induction DEF P
  <2>6. Len(ss) - 1 \in P /\ (Len(ss) - 1) + 1 = Len(ss)
    BY <1>0, <1>2, <2>5
  <2>7. f[Len(ss)] \in Seq(S) /\ From(f[Len(ss)])
    BY <1>0, <2>6 DEF P
  <2> QED BY <2>2, <2>7 DEF From
<1> QED BY <1>1, <1>2
-----------------------------------------------------------------------------
(* Beginnings of sequences.                                                  *)

\* The first n items.
Prefix(s, n) == [k \in 1 .. n |-> s[k]]

LEMMA PrefixTurn ==
    ASSUME NEW S, NEW s \in Seq(S)
    PROVE  /\ Prefix(s, 0) = <<>>
           /\ Prefix(s, Len(s)) = s
           /\ \A n \in Nat : n <= Len(s) => Prefix(s, n) \in Seq(S) /\ Len(Prefix(s, n)) = n
           /\ \A n \in Nat : n + 1 <= Len(s) =>
                s[n + 1] \in S /\ Prefix(s, n + 1) = Append(Prefix(s, n), s[n + 1])
<1>1. Prefix(s, 0) = <<>> /\ Prefix(s, Len(s)) = s
  BY DEF Prefix
<1>2. ASSUME NEW n \in Nat, n <= Len(s)
      PROVE  Prefix(s, n) \in Seq(S) /\ Len(Prefix(s, n)) = n
  BY <1>2 DEF Prefix
<1>3. ASSUME NEW n \in Nat, n + 1 <= Len(s)
      PROVE  s[n + 1] \in S /\ Prefix(s, n + 1) = Append(Prefix(s, n), s[n + 1])
  <2>1. n <= Len(s) /\ n + 1 \in DOMAIN s
    BY <1>3
  <2>2. Prefix(s, n) \in Seq(S) /\ Len(Prefix(s, n)) = n
    BY <1>2, <2>1
  <2>3. Prefix(s, n + 1) \in Seq(S) /\ Len(Prefix(s, n + 1)) = n + 1
    BY <1>2, <1>3
  <2>4. \A k \in 1 .. n + 1 : Prefix(s, n + 1)[k] = Append(Prefix(s, n), s[n + 1])[k]
    BY <2>1, <2>2 DEF Prefix
  <2> QED BY <2>1, <2>2, <2>3, <2>4
<1> QED BY <1>1, <1>2, <1>3

\* Two sequences agree on the first m items.
Agree(s, t, m) == \A n \in 1 .. m : s[n] = t[n]

LEMMA FlatSame ==
    ASSUME NEW ss, NEW tt, NEW m \in Nat, NEW k \in Nat, m <= k, Agree(ss, tt, m),
           NEW f, Flat(f, ss, m), NEW g, Flat(g, tt, k)
    PROVE  Agree(f, g, m)
<1> DEFINE P == {n \in Nat : n + 1 <= m => f[n + 1] = g[n + 1]}
<1>1. ASSUME NEW n \in 1 .. m PROVE f[n] = FlatStep(f, ss, n) /\ g[n] = FlatStep(g, tt, n)
  <2>1. n \in 1 .. k
    OBVIOUS
  <2> QED BY <2>1 DEF Flat
<1>2. 0 \in P
  <2>1. CASE 1 <= m
    <3>1. 1 \in 1 .. m
      BY <2>1
    <3>2. f[1] = ss[1] /\ g[1] = tt[1] /\ ss[1] = tt[1]
      BY <1>1, <3>1 DEF FlatStep, Agree
    <3> QED BY <3>2
  <2> QED BY <2>1
<1>3. ASSUME NEW n \in P PROVE n + 1 \in P
  <2>1. CASE n + 2 <= m
    <3>1. n + 2 \in 1 .. m /\ n + 2 # 1 /\ (n + 2) - 1 = n + 1 /\ n + 1 <= m /\ (n + 1) + 1 = n + 2
      BY <2>1
    <3>2. f[n + 1] = g[n + 1]
      BY <3>1
    <3>3. f[n + 2] = FlatStep(f, ss, n + 2) /\ g[n + 2] = FlatStep(g, tt, n + 2)
      BY <1>1, <3>1
    <3>4. f[n + 2] = f[n + 1] \o ss[n + 2] /\ g[n + 2] = g[n + 1] \o tt[n + 2]
      BY <3>1, <3>3 DEF FlatStep
    <3>5. ss[n + 2] = tt[n + 2]
      BY <3>1 DEF Agree
    <3>6. f[n + 2] = g[n + 2]
      BY <3>2, <3>4, <3>5
    <3> QED BY <3>1, <3>6
  <2> QED BY <2>1
<1> HIDE DEF P
<1>4. P = Nat
  BY <1>2, <1>3, Induction DEF P
<1>5. ASSUME NEW n \in 1 .. m PROVE f[n] = g[n]
  <2>1. n - 1 \in P /\ (n - 1) + 1 = n /\ n <= m
    BY <1>4
  <2> QED BY <2>1 DEF P
<1> QED BY <1>5 DEF Agree

\* Flattening one sequence more.
LEMMA FlattenAppend ==
    ASSUME NEW S, NEW ss \in Seq(Seq(S)), NEW t \in Seq(S)
    PROVE  FlattenSeq(Append(ss, t)) = FlattenSeq(ss) \o t
<1> DEFINE m == Len(ss)
           tt == Append(ss, t)
<1>1. /\ m \in Nat /\ tt \in Seq(Seq(S)) /\ Len(tt) = m + 1 /\ tt[m + 1] = t
      /\ \A n \in 1 .. m : ss[n] = tt[n]
  OBVIOUS
<1>2. PICK g : Flat(g, tt, m + 1) /\ FlattenSeq(tt) = g[m + 1]
  <2>2. Len(tt) = m + 1 /\ m + 1 # 0 /\ m + 1 \in Nat
    BY <1>1
  <2> HIDE DEF tt, m
  <2>1. \E f : Flat(f, tt, m + 1)
    BY <2>2, FlatExists
  <2> QED BY <2>1, <2>2 DEF FlattenSeq, Flat, FlatStep
<1>3. CASE m = 0
  <2>1. ss = <<>> /\ FlattenSeq(ss) = <<>>
    BY <1>3 DEF FlattenSeq
  <2>2. g[1] = t
    BY <1>1, <1>2, <1>3 DEF Flat, FlatStep
  <2> QED BY <1>2, <1>3, <2>1, <2>2
<1>4. CASE m # 0
  <2>1. PICK f : Flat(f, ss, m) /\ FlattenSeq(ss) = f[m]
    <3>1. \E f : Flat(f, ss, m)
      BY <1>1, FlatExists
    <3> QED BY <1>4, <3>1 DEF FlattenSeq, Flat, FlatStep
  <2> HIDE DEF tt, m
  <2>2. f[m] = g[m]
    <3>1. m <= m + 1 /\ m + 1 \in Nat /\ m \in 1 .. m
      BY <1>1, <1>4
    <3>2. Agree(f, g, m)
      <4>1. m \in Nat /\ Agree(ss, tt, m)
        BY <1>1 DEF Agree
      <4>2. Flat(f, ss, m) /\ Flat(g, tt, m + 1)
        BY <1>2, <2>1
      <4> QED BY <3>1, <4>1, <4>2, FlatSame
    <3> QED BY <3>1, <3>2 DEF Agree
  <2>3. g[m + 1] = g[m] \o tt[m + 1]
    <3>1. m + 1 \in 1 .. m + 1 /\ m + 1 # 1 /\ (m + 1) - 1 = m
      BY <1>1, <1>4
    <3>2. g[m + 1] = FlatStep(g, tt, m + 1)
      BY <1>2, <3>1 DEF Flat
    <3> QED BY <3>1, <3>2 DEF FlatStep
  <2>4. FlattenSeq(tt) = FlattenSeq(ss) \o t
    BY <1>1, <1>2, <2>1, <2>2, <2>3
  <2> QED BY <2>4 DEF tt
<1> QED BY <1>3, <1>4

LEMMA FlattenNone == FlattenSeq(<<>>) = <<>>
BY DEF FlattenSeq

\* One turn of a loop that appends to its result.
LEMMA FlattenTurn ==
    ASSUME NEW S, NEW ss \in Seq(Seq(S))
    PROVE  /\ FlattenSeq(Prefix(ss, 0)) = <<>>
           /\ FlattenSeq(Prefix(ss, Len(ss))) = FlattenSeq(ss)
           /\ \A n \in Nat : n <= Len(ss) => FlattenSeq(Prefix(ss, n)) \in Seq(S)
           /\ \A n \in Nat : n + 1 <= Len(ss) =>
                /\ ss[n + 1] \in Seq(S)
                /\ FlattenSeq(Prefix(ss, n + 1)) = FlattenSeq(Prefix(ss, n)) \o ss[n + 1]
<1>1. FlattenSeq(Prefix(ss, 0)) = <<>> /\ FlattenSeq(Prefix(ss, Len(ss))) = FlattenSeq(ss)
  <2>1. Prefix(ss, 0) = <<>> /\ Prefix(ss, Len(ss)) = ss
    BY PrefixTurn
  <2> QED BY <2>1, FlattenNone
<1>2. ASSUME NEW n \in Nat, n <= Len(ss) PROVE FlattenSeq(Prefix(ss, n)) \in Seq(S)
  <2>1. Prefix(ss, n) \in Seq(Seq(S))
    BY <1>2, PrefixTurn
  <2> QED BY <2>1, FlattenPlaces
<1>3. ASSUME NEW n \in Nat, n + 1 <= Len(ss)
      PROVE  /\ ss[n + 1] \in Seq(S)
             /\ FlattenSeq(Prefix(ss, n + 1)) = FlattenSeq(Prefix(ss, n)) \o ss[n + 1]
  <2>1. ss[n + 1] \in Seq(S) /\ Prefix(ss, n + 1) = Append(Prefix(ss, n), ss[n + 1])
    BY <1>3, PrefixTurn
  <2>2. Prefix(ss, n) \in Seq(Seq(S))
    <3>1. n <= Len(ss)
      BY <1>3
    <3> QED BY <3>1, PrefixTurn
  <2> QED BY <2>1, <2>2, FlattenAppend
<1> QED BY <1>1, <1>2, <1>3
LEMMA SeqDomain ==
    ASSUME NEW S, NEW s \in Seq(S)
    PROVE  DOMAIN s = 1 .. Len(s) /\ Len(s) \in Nat /\ \A n \in 1 .. Len(s) : s[n] \in S
OBVIOUS

LEMMA ConcatItems ==
    ASSUME NEW S, NEW q \in Seq(S), NEW r \in Seq(S)
    PROVE  /\ q \o r \in Seq(S) /\ Len(q \o r) = Len(q) + Len(r)
           /\ \A n \in 1 .. Len(q) : (q \o r)[n] = q[n]
           /\ \A n \in 1 .. Len(r) : (q \o r)[Len(q) + n] = r[n]
OBVIOUS

LEMMA AppendItems ==
    ASSUME NEW S, NEW q \in Seq(S), NEW x \in S, NEW y \in S
    PROVE  /\ <<x>> \in Seq(S) /\ q \o <<x>> = Append(q, x) /\ Append(q, x) \in Seq(S)
           /\ <<x>> \o <<y>> \in Seq(S) /\ q \o (<<x>> \o <<y>>) = Append(Append(q, x), y)
<1>1. <<x>> \in Seq(S) /\ q \o <<x>> = Append(q, x) /\ Append(q, x) \in Seq(S)
  OBVIOUS
<1>2. <<x>> \o <<y>> = Append(<<x>>, y)
  OBVIOUS
<1>3. Append(q \o <<x>>, y) = q \o Append(<<x>>, y) /\ Append(<<x>>, y) \in Seq(S)
  BY <1>1, AppendConcat
<1> QED BY <1>1, <1>2, <1>3

LEMMA AppendLast ==
    ASSUME NEW S, NEW s \in Seq(S), NEW x \in S
    PROVE  /\ Append(s, x) \in Seq(S) /\ Append(s, x) # <<>>
           /\ Append(s, x)[Len(Append(s, x))] = x
OBVIOUS

LEMMA FrontLast ==
    ASSUME NEW S, NEW s \in Seq(S), NEW x \in S
    PROVE  Front(Append(s, x)) = s /\ Last(Append(s, x)) = x
BY DEF Front, Last

LEMMA FrontItems ==
    ASSUME NEW S, NEW s \in Seq(S), Len(s) > 1
    PROVE  /\ Front(s) \in Seq(S) /\ Len(Front(s)) = Len(s) - 1
           /\ \A n \in 1 .. Len(s) - 1 : Front(s)[n] = s[n]
BY DEF Front

LEMMA NotEmpty ==
    ASSUME NEW S, NEW s \in Seq(S)
    PROVE  Len(s) \in Nat /\ (s # <<>> <=> Len(s) > 0)
OBVIOUS

LEMMA ConcatConcat ==
    ASSUME NEW S, NEW a \in Seq(S), NEW b \in Seq(S), NEW c \in Seq(S)
    PROVE  a \o (b \o c) = (a \o b) \o c
<1>1. /\ a \o b \in Seq(S) /\ Len(a \o b) = Len(a) + Len(b)
      /\ b \o c \in Seq(S) /\ Len(b \o c) = Len(b) + Len(c)
      /\ Len(a) \in Nat /\ Len(b) \in Nat /\ Len(c) \in Nat
      /\ \A n \in 1 .. Len(a) : (a \o b)[n] = a[n]
      /\ \A n \in 1 .. Len(b) : (a \o b)[Len(a) + n] = b[n] /\ (b \o c)[n] = b[n]
      /\ \A n \in 1 .. Len(c) : (b \o c)[Len(b) + n] = c[n]
  <2>1. /\ a \o b \in Seq(S) /\ Len(a \o b) = Len(a) + Len(b)
        /\ \A n \in 1 .. Len(a) : (a \o b)[n] = a[n]
        /\ \A n \in 1 .. Len(b) : (a \o b)[Len(a) + n] = b[n]
    BY ConcatItems
  <2>2. /\ b \o c \in Seq(S) /\ Len(b \o c) = Len(b) + Len(c)
        /\ \A n \in 1 .. Len(b) : (b \o c)[n] = b[n]
        /\ \A n \in 1 .. Len(c) : (b \o c)[Len(b) + n] = c[n]
    BY ConcatItems
  <2>3. Len(a) \in Nat /\ Len(b) \in Nat /\ Len(c) \in Nat
    OBVIOUS
  <2> QED BY <2>1, <2>2, <2>3, Zenon
<1> DEFINE u == a \o b
           v == b \o c
           l == a \o v
           r == u \o c
<1>2. /\ u \in Seq(S) /\ Len(u) = Len(a) + Len(b) /\ v \in Seq(S) /\ Len(v) = Len(b) + Len(c)
      /\ \A n \in 1 .. Len(a) : u[n] = a[n]
      /\ \A n \in 1 .. Len(b) : u[Len(a) + n] = b[n] /\ v[n] = b[n]
      /\ \A n \in 1 .. Len(c) : v[Len(b) + n] = c[n]
  BY <1>1
<1> HIDE DEF u, v
<1>t. u \in Seq(S) /\ v \in Seq(S)
  BY <1>2
<1>3. /\ l \in Seq(S) /\ Len(l) = Len(a) + Len(v)
      /\ \A n \in 1 .. Len(a) : l[n] = a[n]
      /\ \A n \in 1 .. Len(v) : l[Len(a) + n] = v[n]
  BY <1>t, ConcatItems
<1>4. /\ r \in Seq(S) /\ Len(r) = Len(u) + Len(c)
      /\ \A n \in 1 .. Len(u) : r[n] = u[n]
      /\ \A n \in 1 .. Len(c) : r[Len(u) + n] = c[n]
  BY <1>t, ConcatItems
<1> HIDE DEF l, r
<1>5. ASSUME NEW n \in 1 .. Len(a) + Len(b) + Len(c) PROVE l[n] = r[n]
  <2>1. CASE n \in 1 .. Len(a)
    <3>1. n \in 1 .. Len(u)
      BY <1>1, <1>2, <2>1
    <3> QED BY <1>2, <1>3, <1>4, <2>1, <3>1
  <2>2. CASE n \in Len(a) + 1 .. Len(a) + Len(b)
    <3>1. n - Len(a) \in 1 .. Len(b) /\ Len(a) + (n - Len(a)) = n /\ n \in 1 .. Len(u)
          /\ n - Len(a) \in 1 .. Len(v)
      BY <1>1, <1>2, <2>2
    <3>2. l[n] = v[n - Len(a)] /\ r[n] = u[n]
      BY <1>3, <1>4, <3>1
    <3>3. v[n - Len(a)] = b[n - Len(a)] /\ u[n] = b[n - Len(a)]
      BY <1>2, <3>1
    <3> QED BY <3>2, <3>3
  <2>3. CASE n \in Len(a) + Len(b) + 1 .. Len(a) + Len(b) + Len(c)
    <3> DEFINE k == n - (Len(a) + Len(b))
    <3>1. k \in 1 .. Len(c) /\ Len(u) + k = n /\ Len(a) + (Len(b) + k) = n /\ Len(b) + k \in 1 .. Len(v)
      BY <1>1, <1>2, <2>3
    <3> HIDE DEF k
    <3>2. l[n] = v[Len(b) + k] /\ r[n] = c[k]
      BY <1>3, <1>4, <3>1
    <3>3. v[Len(b) + k] = c[k]
      BY <1>2, <3>1
    <3> QED BY <3>2, <3>3
  <2> QED BY <1>1, <2>1, <2>2, <2>3
<1>6. l = r
  <2>1. l \in Seq(S) /\ r \in Seq(S)
    BY <1>3, <1>4
  <2>2. Len(l) = Len(a) + Len(b) + Len(c) /\ Len(r) = Len(a) + Len(b) + Len(c)
    BY <1>1, <1>2, <1>3, <1>4
  <2>3. \A n \in 1 .. Len(l) : l[n] = r[n]
    BY <1>5, <2>2
  <2> QED BY <2>1, <2>2, <2>3
<1> QED BY <1>6 DEF l, r, u, v

ListOver(q, S) == q \in Seq(S)

LEMMA ConcatAssociates ==
    ASSUME NEW S, NEW a, NEW b, NEW c, ListOver(a, S), ListOver(b, S), ListOver(c, S)
    PROVE  a \o (b \o c) = (a \o b) \o c /\ ListOver(a \o b, S)
<1>1. a \in Seq(S) /\ b \in Seq(S) /\ c \in Seq(S)
  BY DEF ListOver
<1>2. a \o (b \o c) = (a \o b) \o c
  BY <1>1, ConcatConcat
<1> QED BY <1>1, <1>2 DEF ListOver

Even(f, c, h, g) == f \o c = h \o g

LEMMA ConcatAround ==
    ASSUME NEW S, NEW f, NEW c, NEW h, NEW g, NEW a, NEW d, Even(f, c, h, g),
           ListOver(f, S), ListOver(c, S), ListOver(h, S), ListOver(g, S), ListOver(a, S),
           ListOver(d, S)
    PROVE  Even(f \o (c \o a), d, h, g \o (a \o d))
<1>1. f \o (c \o a) = (f \o c) \o a /\ ListOver(f \o c, S)
  BY ConcatAssociates
<1>2. (f \o c) \o (a \o d) = ((f \o c) \o a) \o d /\ ListOver((f \o c) \o a, S)
  BY <1>1, ConcatAssociates
<1>3. a \o (d \o d) = (a \o d) \o d /\ ListOver(a \o d, S)
  BY ConcatAssociates
<1>4. h \o (g \o (a \o d)) = (h \o g) \o (a \o d) /\ ListOver(h \o g, S)
  BY <1>3, ConcatAssociates
<1> QED BY <1>1, <1>2, <1>4, Zenon DEF Even

\* What stands before each item and the item; each item and what stands behind it.
Before(b, s) == [q \in DOMAIN s |-> b[q - 1] \o <<s[q]>>]
After(b, s) == [q \in DOMAIN s |-> <<s[q]>> \o b[q]]

LEMMA BeforeAfterType ==
    ASSUME NEW S, NEW s \in Seq(S), NEW b \in [Nat -> Seq(S)]
    PROVE  /\ Before(b, s) \in Seq(Seq(S)) /\ Len(Before(b, s)) = Len(s)
           /\ After(b, s) \in Seq(Seq(S)) /\ Len(After(b, s)) = Len(s)
           /\ \A q \in 1 .. Len(s) : /\ Before(b, s)[q] = b[q - 1] \o <<s[q]>>
                                     /\ After(b, s)[q] = <<s[q]>> \o b[q]
<1>1. ASSUME NEW q \in 1 .. Len(s)
      PROVE  b[q - 1] \o <<s[q]>> \in Seq(S) /\ <<s[q]>> \o b[q] \in Seq(S)
  <2>1. s[q] \in S /\ q \in Nat /\ q - 1 \in Nat
    OBVIOUS
  <2>2. b[q] \in Seq(S) /\ b[q - 1] \in Seq(S) /\ <<s[q]>> \in Seq(S)
    BY <2>1
  <2>3. \A u, v \in Seq(S) : u \o v \in Seq(S)
    OBVIOUS
  <2> QED BY <2>2, <2>3, Zenon
<1>2. DOMAIN s = 1 .. Len(s) /\ Len(s) \in Nat
  OBVIOUS
<1> DEFINE B(q) == b[q - 1] \o <<s[q]>>
           A(q) == <<s[q]>> \o b[q]
<1>3. \A q \in 1 .. Len(s) : B(q) \in Seq(S) /\ A(q) \in Seq(S)
  BY <1>1
<1>4. Before(b, s) = [q \in 1 .. Len(s) |-> B(q)] /\ After(b, s) = [q \in 1 .. Len(s) |-> A(q)]
  BY <1>2 DEF Before, After
<1> HIDE DEF A, B
<1>5. /\ Before(b, s) \in Seq(Seq(S)) /\ Len(Before(b, s)) = Len(s)
      /\ \A q \in 1 .. Len(s) : Before(b, s)[q] = B(q)
  BY <1>2, <1>3, <1>4
<1>6. /\ After(b, s) \in Seq(Seq(S)) /\ Len(After(b, s)) = Len(s)
      /\ \A q \in 1 .. Len(s) : After(b, s)[q] = A(q)
  BY <1>2, <1>3, <1>4
<1> QED BY <1>5, <1>6 DEF A, B

LEMMA Shifted ==
    ASSUME NEW S, NEW s \in Seq(S), NEW b \in [Nat -> Seq(S)]
    PROVE  FlattenSeq(Before(b, s)) \o b[Len(s)] = b[0] \o FlattenSeq(After(b, s))
<1> DEFINE F(n) == FlattenSeq(Prefix(Before(b, s), n))
           G(n) == FlattenSeq(Prefix(After(b, s), n))
           Good(n) == F(n) \o b[n] = b[0] \o G(n)
           P == {n \in Nat : n <= Len(s) => Good(n)}
<1>0. Len(s) \in Nat /\ \A n \in Nat : b[n] \in Seq(S)
  OBVIOUS
<1>t. /\ Before(b, s) \in Seq(Seq(S)) /\ Len(Before(b, s)) = Len(s)
      /\ After(b, s) \in Seq(Seq(S)) /\ Len(After(b, s)) = Len(s)
      /\ \A q \in 1 .. Len(s) : /\ Before(b, s)[q] = b[q - 1] \o <<s[q]>>
                                /\ After(b, s)[q] = <<s[q]>> \o b[q]
  BY BeforeAfterType
<1>f. /\ F(0) = <<>> /\ F(Len(s)) = FlattenSeq(Before(b, s))
      /\ \A n \in Nat : n <= Len(s) => F(n) \in Seq(S)
      /\ \A n \in Nat : n + 1 <= Len(s) => F(n + 1) = F(n) \o Before(b, s)[n + 1]
  BY <1>t, FlattenTurn
<1>g. /\ G(0) = <<>> /\ G(Len(s)) = FlattenSeq(After(b, s))
      /\ \A n \in Nat : n <= Len(s) => G(n) \in Seq(S)
      /\ \A n \in Nat : n + 1 <= Len(s) => G(n + 1) = G(n) \o After(b, s)[n + 1]
  BY <1>t, FlattenTurn
<1> HIDE DEF F, G
<1>1. 0 \in P
  <2>1. \A v \in Seq(S) : <<>> \o v = v /\ v \o <<>> = v
    OBVIOUS
  <2>2. F(0) = <<>> /\ G(0) = <<>> /\ b[0] \in Seq(S)
    BY <1>0, <1>f, <1>g
  <2>3. Good(0)
    BY <2>1, <2>2
  <2> HIDE DEF Good
  <2> QED BY <2>3
<1>2. ASSUME NEW n \in P PROVE n + 1 \in P
  <2> DEFINE x == s[n + 1]
             a == <<x>>
             m == n + 1
  <2> HIDE DEF Good
  <2> SUFFICES ASSUME m <= Len(s) PROVE Good(m)
    OBVIOUS
  <2>1. n \in Nat /\ m \in Nat /\ n + 1 <= Len(s) /\ m \in 1 .. Len(s) /\ n <= Len(s) /\ m - 1 = n
    BY <1>0
  <2>2. x \in S
    BY <2>1
  <2>3. a \in Seq(S)
    BY <2>2
  <2>4. Good(n)
    BY <2>1
  <2>5. Before(b, s)[m] = b[n] \o a /\ After(b, s)[m] = a \o b[m]
    BY <1>t, <2>1
  <2>6. F(m) = F(n) \o (b[n] \o a) /\ G(m) = G(n) \o (a \o b[m])
    BY <1>f, <1>g, <2>1, <2>5
  <2>7. F(n) \in Seq(S) /\ G(n) \in Seq(S) /\ b[n] \in Seq(S) /\ b[m] \in Seq(S) /\ b[0] \in Seq(S)
    BY <1>0, <1>f, <1>g, <2>1
  <2> HIDE DEF a, m, P
  <2> DEFINE f == F(n)
             g == G(n)
             c == b[n]
             d == b[m]
             h == b[0]
  <2>8. /\ f \in Seq(S) /\ g \in Seq(S) /\ c \in Seq(S) /\ d \in Seq(S) /\ h \in Seq(S)
        /\ f \o c = h \o g /\ F(m) = f \o (c \o a) /\ G(m) = g \o (a \o d)
    BY <2>4, <2>6, <2>7 DEF Good
  <2> HIDE DEF f, g, c, d, h, a
  <2>9. (f \o (c \o a)) \o d = h \o (g \o (a \o d))
    <3>1. /\ ListOver(f, S) /\ ListOver(c, S) /\ ListOver(h, S) /\ ListOver(g, S)
          /\ ListOver(a, S) /\ ListOver(d, S) /\ Even(f, c, h, g)
      BY <2>3, <2>8 DEF ListOver, Even
    <3>2. Even(f \o (c \o a), d, h, g \o (a \o d))
      BY <3>1, ConcatAround, Zenon
    <3> QED BY <3>2, Zenon DEF Even
  <2>13. F(m) \o d = h \o G(m)
    BY <2>8, <2>9
  <2> QED BY <2>13 DEF Good, d, h
<1> HIDE DEF P, Good
<1>3. P = Nat
  BY <1>1, <1>2, Induction DEF P
<1>4. Good(Len(s))
  <2>1. Len(s) \in P /\ Len(s) <= Len(s)
    BY <1>0, <1>3
  <2> QED BY <2>1 DEF P
<1> QED BY <1>4, <1>f, <1>g DEF Good

\* Each item behind one item more.
LEMMA BeforeMore ==
    ASSUME NEW S, NEW s \in Seq(S), NEW b \in [Nat -> Seq(S)], NEW x \in S
    PROVE  Before(b, Append(s, x)) = Append(Before(b, s), b[Len(s)] \o <<x>>)
<1> DEFINE more == Append(s, x)
           last == b[Len(s)] \o <<x>>
           one == Before(b, more)
           two == Append(Before(b, s), last)
<1>1. /\ more \in Seq(S) /\ Len(more) = Len(s) + 1 /\ more[Len(s) + 1] = x /\ Len(s) \in Nat
      /\ \A q \in 1 .. Len(s) : more[q] = s[q]
  OBVIOUS
<1> HIDE DEF more
<1>2. /\ one \in Seq(Seq(S)) /\ Len(one) = Len(more)
      /\ \A q \in 1 .. Len(more) : one[q] = b[q - 1] \o <<more[q]>>
  BY <1>1, BeforeAfterType
<1>3. /\ Before(b, s) \in Seq(Seq(S)) /\ Len(Before(b, s)) = Len(s)
      /\ \A q \in 1 .. Len(s) : Before(b, s)[q] = b[q - 1] \o <<s[q]>>
  BY BeforeAfterType
<1>4. last \in Seq(S)
  <2>1. b[Len(s)] \in Seq(S) /\ <<x>> \in Seq(S)
    BY <1>1
  <2>2. \A u, v \in Seq(S) : u \o v \in Seq(S)
    OBVIOUS
  <2> QED BY <2>1, <2>2, Zenon
<1> HIDE DEF last, one
<1>5. /\ two \in Seq(Seq(S)) /\ Len(two) = Len(s) + 1 /\ two[Len(s) + 1] = last
      /\ \A q \in 1 .. Len(s) : two[q] = Before(b, s)[q]
  <2>1. \A v \in Seq(Seq(S)), y \in Seq(S) :
            /\ Append(v, y) \in Seq(Seq(S)) /\ Len(Append(v, y)) = Len(v) + 1
            /\ Append(v, y)[Len(v) + 1] = y
            /\ \A q \in 1 .. Len(v) : Append(v, y)[q] = v[q]
    OBVIOUS
  <2> DEFINE v == Before(b, s)
  <2>2. v \in Seq(Seq(S)) /\ Len(v) = Len(s)
    BY <1>3
  <2> HIDE DEF v
  <2>3. /\ Append(v, last) \in Seq(Seq(S)) /\ Len(Append(v, last)) = Len(v) + 1
        /\ Append(v, last)[Len(v) + 1] = last
        /\ \A q \in 1 .. Len(v) : Append(v, last)[q] = v[q]
    BY <1>4, <2>1, <2>2, Zenon
  <2> QED BY <2>2, <2>3 DEF v
<1> HIDE DEF two
<1>6. ASSUME NEW q \in 1 .. Len(s) + 1 PROVE one[q] = two[q]
  <2>1. CASE q \in 1 .. Len(s)
    <3>1. q \in 1 .. Len(more)
      BY <1>1
    <3> QED BY <1>1, <1>2, <1>3, <1>5, <2>1, <3>1
  <2>2. CASE q \notin 1 .. Len(s)
    <3>1. q = Len(s) + 1 /\ q - 1 = Len(s) /\ q \in 1 .. Len(more)
      BY <1>1, <2>2
    <3>2. one[q] = b[Len(s)] \o <<x>>
      BY <1>1, <1>2, <3>1
    <3> QED BY <1>5, <3>1, <3>2 DEF last
  <2> QED BY <2>1, <2>2
<1>7. one = two
  <2>1. Len(one) = Len(s) + 1 /\ Len(two) = Len(s) + 1
    BY <1>1, <1>2, <1>5
  <2>2. one \in Seq(Seq(S)) /\ two \in Seq(Seq(S))
    BY <1>2, <1>5
  <2>3. \A q \in 1 .. Len(one) : one[q] = two[q]
    BY <1>6, <2>1
  <2> QED BY <2>1, <2>2, <2>3
<1> QED BY <1>7 DEF one, two, last, more

\* Two lists of what stands between are the same as far as it is looked at.
LEMMA BeforeSame ==
    ASSUME NEW S, NEW s \in Seq(S), NEW b, NEW c, \A q \in Nat : q < Len(s) => b[q] = c[q]
    PROVE  Before(b, s) = Before(c, s)
<1>1. \A q \in DOMAIN s : q - 1 \in Nat /\ q - 1 < Len(s)
  OBVIOUS
<1> QED BY <1>1 DEF Before

\* A set of numbers up to n, without and with the next.
LEMMA OneMore ==
    ASSUME NEW n \in Nat, NEW A \in SUBSET (1 .. n)
    PROVE  /\ Cardinality(A) \in Nat
           /\ Cardinality(A \cup {n + 1}) = Cardinality(A) + 1
<1>1. IsFiniteSet(1 .. n)
  BY FS_Interval
<1>2. IsFiniteSet(A) /\ n + 1 \notin A
  <2>1. n + 1 \notin 1 .. n
    OBVIOUS
  <2>2. IsFiniteSet(A)
    BY <1>1, FS_Subset
  <2> QED BY <2>1, <2>2
<1> QED BY <1>2, FS_AddElement, FS_CardinalityType
=============================================================================
