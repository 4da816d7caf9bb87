------------------------------ MODULE FoldFacts ------------------------------
(***************************************************************************)
(* What a fold over a sequence computes, for every step: instantiated with  *)
(* the step, the theorems give what folding nothing, one element more, or   *)
(* all elements in turn does.  TLAPS cannot take an operator as the         *)
(* parameter of a theorem, but it can as the parameter of a module.         *)
(***************************************************************************)
EXTENDS Integers, Sequences, SequencesExt, FiniteSetsExt, NaturalsInduction, WellFoundedInduction, TLAPS

CONSTANT Op(_, _)

\* A set of naturals has a least member.
LEMMA Least ==
    ASSUME NEW T \in SUBSET Nat, T # {}
    PROVE  \E n \in T : \A m \in T : n <= m
<1> DEFINE R == OpToRel(<, Nat)
<1>1. PICK n \in T : \A m \in T : <<m, n>> \notin R
  <2> HIDE DEF R
  <2>1. IsWellFoundedOn(R, Nat)
    BY NatLessThanWellFounded DEF R
  <2>2. QED
    BY <2>1, WFMin
<1>2. ASSUME NEW m \in T, m < n PROVE FALSE
  <2>1. <<m, n>> \in Nat \X Nat /\ <<m, n>>[1] = m /\ <<m, n>>[2] = n
    OBVIOUS
  <2>2. <<m, n>> \in R
    BY <1>2, <2>1 DEF OpToRel
  <2>3. QED
    BY <1>1, <2>2
<1>3. QED
  BY <1>2

\* A set of positions has a greatest one, which is what Max picks.
LEMMA MaxOfPositions ==
    ASSUME NEW n \in Nat, NEW t \in SUBSET (1 .. n), t # {}
    PROVE  Max(t) \in t /\ \A k \in t : k <= Max(t)
<1> DEFINE T == {m \in Nat : \A k \in t : k <= m}
<1>1. n \in T
  OBVIOUS
<1>2. PICK m \in T : \A k \in T : m <= k
  <2> HIDE DEF T
  <2>1. T \in SUBSET Nat /\ T # {}
    BY <1>1 DEF T
  <2>2. QED
    BY <2>1, Least
<1>3. m \in t
  <2> SUFFICES ASSUME m \notin t PROVE FALSE
    OBVIOUS
  <2>1. m # 0 /\ \A k \in t : k <= m - 1
    <3>1. PICK k \in t : TRUE
      OBVIOUS
    <3>2. \A j \in t : j \in 1 .. n /\ j <= m /\ j # m
      OBVIOUS
    <3>3. QED
      BY <3>1, <3>2
  <2>2. m - 1 \in T
    BY <2>1
  <2>3. QED
    BY <1>2, <2>2
<1>4. QED
  BY <1>3 DEF Max

\* t is folded by f from base over s.
IsFold(f, base, s, D) ==
    f = [t \in SUBSET D |-> IF t = {} THEN base ELSE Op(f[t \ {Max(t)}], s[Max(t)])]

\* There are such folds, over the first n positions and so over all.
LEMMA FoldExists ==
    ASSUME NEW base, NEW s, NEW n \in Nat
    PROVE  \E f : IsFold(f, base, s, 1 .. n)
<1> DEFINE Bad == {m \in Nat : ~ \E f : IsFold(f, base, s, 1 .. m)}
<1>1. ASSUME Bad # {} PROVE FALSE
  <2>1. PICK m \in Bad : \A k \in Bad : m <= k
    <3> HIDE DEF Bad
    <3>1. Bad \in SUBSET Nat
      BY DEF Bad
    <3>2. QED
      BY <1>1, <3>1, Least
  <2>2. m # 0
    <3> DEFINE f == [t \in SUBSET (1 .. 0) |-> base]
    <3>1. 1 .. 0 = {}
      OBVIOUS
    <3>2. IsFold(f, base, s, 1 .. 0)
      BY <3>1 DEF IsFold
    <3>3. QED
      BY <3>2
  <2>3. m - 1 \in Nat /\ m - 1 \notin Bad
    BY <2>1, <2>2
  <2>4. PICK f : IsFold(f, base, s, 1 .. m - 1)
    BY <2>3
  <2> DEFINE g == [t \in SUBSET (1 .. m) |-> IF m \in t THEN Op(f[t \ {m}], s[m]) ELSE f[t]]
  <2>5. ASSUME NEW t \in SUBSET (1 .. m)
        PROVE  g[t] = IF t = {} THEN base ELSE Op(g[t \ {Max(t)}], s[Max(t)])
    <3>1. m \in Nat
      OBVIOUS
    <3>2. CASE m \in t
      <4>1. Max(t) = m
        <5>1. Max(t) \in t /\ m <= Max(t)
          BY <3>1, <3>2, MaxOfPositions
        <5>2. \A k \in t : k \in Nat /\ k <= m
          BY <3>1
        <5> DEFINE k == Max(t)
        <5>3. k \in Nat /\ k <= m /\ m <= k
          BY <5>1, <5>2
        <5> HIDE DEF Bad, k
        <5>4. k = m
          BY <3>1, <5>3
        <5>5. QED
          BY <5>4 DEF k
      <4>2. t \ {m} \in SUBSET (1 .. m) /\ m \notin t \ {m}
        OBVIOUS
      <4>3. g[t] = Op(f[t \ {m}], s[m]) /\ g[t \ {m}] = f[t \ {m}]
        BY <3>2, <4>2
      <4> HIDE DEF g
      <4>4. QED
        BY <3>2, <4>1, <4>3
    <3>3. CASE m \notin t
      <4>1. t \in SUBSET (1 .. m - 1) /\ \A u \in SUBSET t : u \in SUBSET (1 .. m) /\ m \notin u
        BY <3>3
      <4>2. f[t] = IF t = {} THEN base ELSE Op(f[t \ {Max(t)}], s[Max(t)])
        BY <2>4, <4>1 DEF IsFold
      <4>3. \A u \in SUBSET t : g[u] = f[u]
        BY <4>1
      <4>4. t \ {Max(t)} \in SUBSET t /\ t \in SUBSET t
        OBVIOUS
      <4> HIDE DEF g
      <4>5. QED
        BY <4>2, <4>3, <4>4
    <3>4. QED
      BY <3>2, <3>3
  <2>6. IsFold(g, base, s, 1 .. m)
    BY <2>5 DEF IsFold
  <2>7. QED
    BY <2>6
<1>2. QED
  BY <1>1

Folded(base, s) == FoldLeft(Op, base, s)

\* A fold takes the elements one after the other.
LEMMA FoldTrace ==
    ASSUME NEW base, NEW S, NEW s \in Seq(S)
    PROVE  \E g : /\ g[0] = base /\ g[Len(s)] = Folded(base, s)
                  /\ \A n \in 1 .. Len(s) : g[n] = Op(g[n - 1], s[n])
<1>1. Len(s) \in Nat /\ DOMAIN s = 1 .. Len(s)
  OBVIOUS
<1> DEFINE f == CHOOSE h : IsFold(h, base, s, DOMAIN s)
<1>2. IsFold(f, base, s, 1 .. Len(s))
  BY <1>1, FoldExists
<1>3. Folded(base, s) = f[DOMAIN s]
  BY DEF Folded, FoldLeft, MapThenFoldSet, IsFold
<1> HIDE DEF f
<1> DEFINE g == [n \in 0 .. Len(s) |-> f[1 .. n]]
<1>4. g[0] = base
  <2>1. 1 .. 0 = {} /\ {} \in SUBSET (1 .. Len(s)) /\ 0 \in 0 .. Len(s)
    BY <1>1
  <2>2. f[{}] = base
    BY <1>2, <2>1 DEF IsFold
  <2>3. QED
    BY <2>1, <2>2
<1>5. g[Len(s)] = Folded(base, s)
  BY <1>1, <1>3
<1>6. ASSUME NEW n \in 1 .. Len(s) PROVE g[n] = Op(g[n - 1], s[n])
  <2> DEFINE k == Len(s)
  <2> HIDE DEF k
  <2>7. k \in Nat /\ n \in 1 .. k
    BY <1>1 DEF k
  <2>8. 1 .. n \in SUBSET (1 .. k) /\ 1 .. n # {} /\ n \in Nat /\ n \in 1 .. n
    <3>1. n \in Nat /\ n \in 1 .. n /\ \A i \in 1 .. n : i \in 1 .. k
      BY <2>7
    <3>2. QED
      BY <3>1, Zenon
  <2>1. 1 .. n \in SUBSET (1 .. Len(s)) /\ 1 .. n # {} /\ n \in Nat /\ n \in 1 .. n
    BY <2>8 DEF k
  <2>2. Max(1 .. n) = n
    <3>1. Max(1 .. n) \in 1 .. n /\ n <= Max(1 .. n)
      BY <2>1, MaxOfPositions
    <3>2. QED
      BY <2>1, <3>1
  <2>3. (1 .. n) \ {n} = 1 .. n - 1
    BY <2>1
  <2>4. f[1 .. n] = Op(f[(1 .. n) \ {Max(1 .. n)}], s[Max(1 .. n)])
    BY <1>2, <2>1 DEF IsFold
  <2>5. n \in 0 .. Len(s) /\ n - 1 \in 0 .. Len(s)
    BY <1>1
  <2>6. QED
    BY <2>2, <2>3, <2>4, <2>5
<1> HIDE DEF g
<1>7. QED
  BY <1>4, <1>5, <1>6

\* And only so.
LEMMA FoldOfTrace ==
    ASSUME NEW base, NEW S, NEW s \in Seq(S), NEW g, g[0] = base,
           \A n \in 1 .. Len(s) : g[n] = Op(g[n - 1], s[n])
    PROVE  g[Len(s)] = Folded(base, s)
<1>1. PICK h : /\ h[0] = base /\ h[Len(s)] = Folded(base, s)
               /\ \A n \in 1 .. Len(s) : h[n] = Op(h[n - 1], s[n])
  BY FoldTrace
<1>2. Len(s) \in Nat
  OBVIOUS
<1> DEFINE Bad == {n \in 0 .. Len(s) : g[n] # h[n]}
<1>3. ASSUME Bad # {} PROVE FALSE
  <2>1. PICK m \in Bad : \A k \in Bad : m <= k
    <3> HIDE DEF Bad
    <3>1. Bad \in SUBSET Nat
      BY <1>2 DEF Bad
    <3>2. QED
      BY <1>3, <3>1, Least
  <2>2. m # 0
    BY <1>1
  <2>3. m \in 1 .. Len(s) /\ m - 1 \in 0 .. Len(s) /\ m - 1 \notin Bad
    BY <1>2, <2>1, <2>2
  <2>4. g[m - 1] = h[m - 1]
    BY <2>3
  <2>5. QED
    BY <1>1, <2>3, <2>4
<1>4. Len(s) \in 0 .. Len(s) /\ Len(s) \notin Bad
  BY <1>2, <1>3
<1>5. QED
  BY <1>1, <1>4

\* Nothing is folded to the base.
LEMMA FoldNothing ==
    ASSUME NEW base, NEW S, NEW s \in Seq(S)
    PROVE  Len(s) = 0 => Folded(base, s) = base
<1>1. PICK g : /\ g[0] = base /\ g[Len(s)] = Folded(base, s)
               /\ \A n \in 1 .. Len(s) : g[n] = Op(g[n - 1], s[n])
  BY FoldTrace
<1>2. QED
  BY <1>1

\* One element more is one step more.
LEMMA FoldAppend ==
    ASSUME NEW base, NEW S, NEW s \in Seq(S), NEW e \in S
    PROVE  Folded(base, Append(s, e)) = Op(Folded(base, s), e)
<1>1. PICK g : /\ g[0] = base /\ g[Len(s)] = Folded(base, s)
               /\ \A n \in 1 .. Len(s) : g[n] = Op(g[n - 1], s[n])
  BY FoldTrace
<1>2. Len(s) \in Nat
  OBVIOUS
<1> DEFINE t == Append(s, e)
           h == [n \in 0 .. Len(s) + 1 |-> IF n = Len(s) + 1 THEN Op(g[Len(s)], e) ELSE g[n]]
<1>3. t \in Seq(S) /\ Len(t) = Len(s) + 1 /\ t[Len(s) + 1] = e /\ \A n \in 1 .. Len(s) : t[n] = s[n]
  OBVIOUS
<1> HIDE DEF t
<1>4. h[0] = base /\ h[Len(s) + 1] = Op(g[Len(s)], e) /\ \A n \in 0 .. Len(s) : h[n] = g[n]
  <2> DEFINE k == Len(s)
  <2>1. /\ k \in Nat /\ k + 1 \in 0 .. k + 1 /\ 0 \in 0 .. k
        /\ \A n \in 0 .. k : n \in 0 .. k + 1 /\ n # k + 1
    BY <1>2
  <2>2. h = [n \in 0 .. k + 1 |-> IF n = k + 1 THEN Op(g[k], e) ELSE g[n]]
    OBVIOUS
  <2> HIDE DEF h, k
  <2>3. h[k + 1] = Op(g[k], e) /\ \A n \in 0 .. k : h[n] = g[n]
    BY <2>1, <2>2
  <2>4. QED
    BY <1>1, <2>1, <2>3 DEF k
<1> HIDE DEF h
<1>5. ASSUME NEW n \in 1 .. Len(t) PROVE h[n] = Op(h[n - 1], t[n])
  <2>1. CASE n = Len(s) + 1
    <3>1. n - 1 = Len(s) /\ n - 1 \in 0 .. Len(s)
      BY <1>2, <2>1
    <3>2. QED
      BY <1>3, <1>4, <2>1, <3>1
  <2>2. CASE n # Len(s) + 1
    <3>1. n \in 1 .. Len(s) /\ n \in 0 .. Len(s) /\ n - 1 \in 0 .. Len(s)
      BY <1>2, <1>3, <2>2
    <3>2. QED
      BY <1>1, <1>3, <1>4, <3>1
  <2>3. QED
    BY <2>1, <2>2
<1>6. h[Len(t)] = Folded(base, t)
  BY <1>3, <1>4, <1>5, FoldOfTrace
<1>7. QED
  BY <1>1, <1>3, <1>4, <1>6 DEF t
=============================================================================
