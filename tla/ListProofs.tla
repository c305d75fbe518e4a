------------------------------ MODULE ListProofs ------------------------------
(***************************************************************************)
(* Induction without an induction theorem, whose parameter no installed    *)
(* prover can instantiate: a set of natural numbers that is not empty has  *)
(* a least member.  A fact P(n) is proved from the set of its exceptions.  *)
(* And what follows of the operators of module Lists.                      *)
(***************************************************************************)
EXTENDS Lists, SequenceTheorems, FiniteSetTheorems, WellFoundedInduction, TLAPS

LEMMA LeastNatural ==
  ASSUME NEW T \in SUBSET Nat, T # {}
  PROVE  \E n \in T : \A m \in T : n <= m
<1> DEFINE R == OpToRel(<, Nat)
<1>1. IsWellFoundedOn(R, Nat)
  BY NatLessThanWellFounded
<1>2. \A x, y \in Nat : <<x, y>> \in R <=> x < y
  BY DEF OpToRel
<1> HIDE DEF R
<1>3. PICK n \in T : \A m \in T : ~(<<m, n>> \in R)
  BY <1>1, WFMin
<1>4. ASSUME NEW m \in T PROVE n <= m
  <2>1. m \in Nat /\ n \in Nat /\ ~(m < n)
    BY <1>2, <1>3
  <2> QED
    BY <2>1
<1> QED
  BY <1>4

\* A set that has 0 and with every number below n the next one has all up to n.
LEMMA UpTo ==
  ASSUME NEW n \in Nat, NEW T, 0 \in T, \A i \in 0..(n - 1) : i \in T => i + 1 \in T
  PROVE  0..n \subseteq T
<1> DEFINE U == (0..n) \ T
<1> SUFFICES ASSUME U # {} PROVE FALSE
  OBVIOUS
<1>1. U \in SUBSET Nat
  OBVIOUS
<1>2. PICK k \in U : \A m \in U : k <= m
  BY <1>1, LeastNatural
<1>3. k \in 1..n
  BY <1>2
<1>4. k - 1 \in 0..(n - 1) /\ ~(k <= k - 1)
  BY <1>3
<1>5. k - 1 \in T
  BY <1>2, <1>4
<1>6. (k - 1) + 1 \in T
  BY <1>4, <1>5
<1> QED
  BY <1>2, <1>3, <1>6

-----------------------------------------------------------------------------
\* The steps of Only over the first k members of s.
Steps(f, s, kept, k) ==
  f = [i \in 0..k |-> IF i = 0 THEN <<>>
                      ELSE IF s[i] \in kept THEN Append(f[i - 1], s[i]) ELSE f[i - 1]]

LEMMA StepsExist ==
  ASSUME NEW n \in Nat, NEW s, NEW kept
  PROVE  \E f : Steps(f, s, kept, n)
<1> DEFINE T == {k \in 0..n : \E f : Steps(f, s, kept, k)}
<1>1. 0 \in T
  <2> DEFINE f == [i \in 0..0 |-> <<>>]
  <2>1. Steps(f, s, kept, 0)
    BY DEF Steps
  <2> QED
    BY <2>1
<1>2. ASSUME NEW k \in 0..(n - 1), k \in T PROVE k + 1 \in T
  <2>1. PICK f : Steps(f, s, kept, k)
    BY <1>2
  <2> DEFINE last == IF s[k + 1] \in kept THEN Append(f[k], s[k + 1]) ELSE f[k]
             g == [i \in 0..(k + 1) |-> IF i = k + 1 THEN last ELSE f[i]]
  <2>2. g = [i \in 0..(k + 1) |-> IF i = 0 THEN <<>>
               ELSE IF s[i] \in kept THEN Append(g[i - 1], s[i]) ELSE g[i - 1]]
    <3> SUFFICES ASSUME NEW i \in 0..(k + 1)
                 PROVE  g[i] = IF i = 0 THEN <<>>
                               ELSE IF s[i] \in kept THEN Append(g[i - 1], s[i]) ELSE g[i - 1]
      OBVIOUS
    <3>1. CASE i = k + 1
      <4>1. i - 1 = k /\ k \in 0..(k + 1) /\ k # k + 1
        BY <3>1
      <4> QED
        BY <3>1, <4>1
    <3>2. CASE i # k + 1
      <4>1. i \in 0..k /\ g[i] = f[i]
        BY <3>2
      <4>2. f[i] = IF i = 0 THEN <<>>
                   ELSE IF s[i] \in kept THEN Append(f[i - 1], s[i]) ELSE f[i - 1]
        BY <2>1, <4>1 DEF Steps
      <4>3. i # 0 => i - 1 \in 0..(k + 1) /\ i - 1 # k + 1
        BY <4>1
      <4> QED
        BY <4>1, <4>2, <4>3
    <3> QED
      BY <3>1, <3>2
  <2>3. Steps(g, s, kept, k + 1)
    BY <2>2 DEF Steps
  <2> QED
    BY <2>3
<1> HIDE DEF T
<1>3. n \in T
  BY <1>1, <1>2, UpTo
<1> QED
  BY <1>3 DEF T

\* What Only does, step by step.
LEMMA OnlyHasSteps ==
  ASSUME NEW S, NEW s \in Seq(S), NEW kept
  PROVE  \E f : Steps(f, s, kept, Len(s)) /\ Only(s, kept) = f[Len(s)]
<1> DEFINE f == CHOOSE f : Steps(f, s, kept, Len(s))
<1>1. Steps(f, s, kept, Len(s))
  BY StepsExist
<1>2. Only(s, kept) = f[Len(s)]
  BY DEF Only, Steps
<1> QED
  BY <1>1, <1>2

\* t has the members of the first k of s that are kept, each once and in their order; h says where they were.
Picks(h, t, s, kept, k) ==
  /\ h \in [1..Len(t) -> 1..k]
  /\ \A j \in 1..Len(t) : t[j] = s[h[j]] /\ t[j] \in kept
  /\ \A i, j \in 1..Len(t) : i < j => h[i] < h[j]
  /\ \A i \in 1..k : s[i] \in kept => \E j \in 1..Len(t) : h[j] = i

\* One more member is kept, or left out.
LEMMA PicksMore ==
  ASSUME NEW S, NEW t \in Seq(S), NEW k \in Nat, NEW h, NEW s, NEW kept,
         Picks(h, t, s, kept, k), s[k + 1] \in S, s[k + 1] \in kept
  PROVE  \E g : Picks(g, Append(t, s[k + 1]), s, kept, k + 1)
<1>1. PICK m \in Nat : m = Len(t)
  BY LenProperties
<1>2. PICK u : u = Append(t, s[k + 1])
  OBVIOUS
<1>3. /\ Len(u) = m + 1 /\ u[m + 1] = s[k + 1]
      /\ \A j \in 1..m : u[j] = t[j]
  BY <1>1, <1>2, AppendProperties
<1> DEFINE g == [j \in 1..(m + 1) |-> IF j = m + 1 THEN k + 1 ELSE h[j]]
<1>4. /\ h \in [1..m -> 1..k] /\ \A j \in 1..m : t[j] = s[h[j]] /\ t[j] \in kept
      /\ \A i, j \in 1..m : i < j => h[i] < h[j]
      /\ \A i \in 1..k : s[i] \in kept => \E j \in 1..m : h[j] = i
  BY <1>1 DEF Picks
<1>5. g \in [1..(m + 1) -> 1..(k + 1)]
  BY <1>4
<1>6. ASSUME NEW j \in 1..(m + 1) PROVE u[j] = s[g[j]] /\ u[j] \in kept
  BY <1>3, <1>4
<1>7. ASSUME NEW i \in 1..(m + 1), NEW j \in 1..(m + 1), i < j PROVE g[i] < g[j]
  <2>1. i \in 1..m /\ g[i] = h[i] /\ h[i] \in 1..k
    BY <1>4, <1>7
  <2>2. CASE j = m + 1
    BY <2>1, <2>2
  <2>3. CASE j # m + 1
    BY <1>4, <1>7, <2>1, <2>3
  <2> QED
    BY <2>2, <2>3
<1>8. ASSUME NEW i \in 1..(k + 1), s[i] \in kept PROVE \E j \in 1..(m + 1) : g[j] = i
  <2>1. CASE i = k + 1
    BY <2>1
  <2>2. CASE i # k + 1
    <3>1. i \in 1..k
      BY <2>2
    <3>2. PICK j \in 1..m : h[j] = i
      BY <1>4, <1>8, <3>1
    <3> QED
      BY <3>2
  <2> QED
    BY <2>1, <2>2
<1> HIDE DEF g
<1>9. Picks(g, u, s, kept, k + 1)
  BY <1>3, <1>5, <1>6, <1>7, <1>8 DEF Picks
<1> QED
  BY <1>2, <1>9

LEMMA PicksSame ==
  ASSUME NEW S, NEW t \in Seq(S), NEW k \in Nat, NEW h, NEW s, NEW kept,
         Picks(h, t, s, kept, k), s[k + 1] \notin kept
  PROVE  Picks(h, t, s, kept, k + 1)
<1>1. h \in [1..Len(t) -> 1..(k + 1)]
  BY DEF Picks
<1>2. ASSUME NEW i \in 1..(k + 1), s[i] \in kept PROVE \E j \in 1..Len(t) : h[j] = i
  <2>1. i \in 1..k
    BY <1>2
  <2> QED
    BY <1>2, <2>1 DEF Picks
<1> QED
  BY <1>1, <1>2 DEF Picks

LEMMA StepsPick ==
  ASSUME NEW S, NEW n \in Nat, NEW s \in [1..n -> S], NEW kept, NEW f, Steps(f, s, kept, n)
  PROVE  f[n] \in Seq(S) /\ \E h : Picks(h, f[n], s, kept, n)
<1>1. \A i \in 0..n : f[i] = IF i = 0 THEN <<>>
                             ELSE IF s[i] \in kept THEN Append(f[i - 1], s[i]) ELSE f[i - 1]
  BY DEF Steps
<1> DEFINE T == {k \in 0..n : f[k] \in Seq(S) /\ \E h : Picks(h, f[k], s, kept, k)}
<1>2. 0 \in T
  <2>1. f[0] = <<>>
    BY <1>1
  <2>2. Picks(<<>>, <<>>, s, kept, 0)
    BY DEF Picks
  <2>3. <<>> \in Seq(S) /\ 0 \in 0..n
    OBVIOUS
  <2>4. \E h : Picks(h, f[0], s, kept, 0)
    BY <2>1, <2>2
  <2> QED
    BY <2>1, <2>3, <2>4
<1>3. ASSUME NEW k \in 0..(n - 1), k \in T PROVE k + 1 \in T
  <2>1. f[k] \in Seq(S) /\ k + 1 \in 1..n /\ k + 1 \in 0..n /\ k \in Nat /\ s[k + 1] \in S
    BY <1>3
  <2>2. PICK h : Picks(h, f[k], s, kept, k)
    BY <1>3
  <2>3. f[k + 1] = IF s[k + 1] \in kept THEN Append(f[k], s[k + 1]) ELSE f[k]
    BY <1>1, <2>1
  <2>4. \E g : Picks(g, f[k + 1], s, kept, k + 1)
    BY <2>1, <2>2, <2>3, PicksMore, PicksSame
  <2>5. f[k + 1] \in Seq(S)
    BY <2>1, <2>3, AppendProperties
  <2> QED
    BY <2>1, <2>4, <2>5
<1> HIDE DEF T
<1>4. 0..n \subseteq T
  BY <1>2, <1>3, UpTo
<1>5. n \in T
  BY <1>4
<1> QED
  BY <1>5 DEF T

LEMMA OnlyPicks ==
  ASSUME NEW S, NEW s \in Seq(S), NEW kept
  PROVE  Only(s, kept) \in Seq(S) /\ \E h : Picks(h, Only(s, kept), s, kept, Len(s))
<1>1. PICK n \in Nat : n = Len(s) /\ s \in [1..n -> S]
  BY LenProperties
<1>2. PICK f : Steps(f, s, kept, n) /\ Only(s, kept) = f[n]
  BY <1>1, OnlyHasSteps
<1> QED
  BY <1>1, <1>2, StepsPick

\* What grows takes as many values as it has arguments.
LEMMA GrowingFits ==
  ASSUME NEW m \in Nat, NEW n \in Nat, NEW h \in [1..m -> 1..n],
         \A i, j \in 1..m : i < j => h[i] < h[j]
  PROVE  m <= n
<1> SUFFICES ASSUME n < m PROVE FALSE
  OBVIOUS
<1>1. /\ IsFiniteSet(1..m) /\ Cardinality(1..m) = m
      /\ IsFiniteSet(1..n) /\ Cardinality(1..n) = n
  BY FS_Interval
<1>2. \E i, j \in 1..m : i # j /\ h[i] = h[j]
  BY <1>1, FS_PigeonHole
<1>3. PICK i \in 1..m, j \in 1..m : i # j /\ h[i] = h[j]
  BY <1>2
<1>4. h[i] \in 1..n /\ h[j] \in 1..n /\ (i < j \/ j < i)
  BY <1>3
<1>5. h[i] < h[j] \/ h[j] < h[i]
  BY <1>4
<1> QED
  BY <1>3, <1>4, <1>5

\* The form in which it is used: the members, and no more of them.
LEMMA OnlyIs ==
  ASSUME NEW S, NEW s \in Seq(S), NEW kept
  PROVE  /\ Only(s, kept) \in Seq(S) /\ Len(Only(s, kept)) \in 0..Len(s)
         /\ \A e : (\E j \in 1..Len(Only(s, kept)) : Only(s, kept)[j] = e)
                     <=> (e \in kept /\ \E i \in 1..Len(s) : s[i] = e)
<1>1. PICK t : t = Only(s, kept)
  OBVIOUS
<1>2. PICK h : Picks(h, t, s, kept, Len(s))
  BY <1>1, OnlyPicks
<1>3. t \in Seq(S) /\ Len(t) \in Nat /\ Len(s) \in Nat
  BY <1>1, OnlyPicks, LenProperties
<1>4. Len(t) <= Len(s)
  BY <1>2, <1>3, GrowingFits DEF Picks
<1>5. ASSUME NEW e
      PROVE  (\E j \in 1..Len(t) : t[j] = e) <=> (e \in kept /\ \E i \in 1..Len(s) : s[i] = e)
  BY <1>2 DEF Picks
<1> QED
  BY <1>1, <1>3, <1>4, <1>5

-----------------------------------------------------------------------------
\* Finitely many natural numbers have a bound, and a greatest one.
LEMMA FiniteHasBound ==
  ASSUME NEW S \in SUBSET Nat, IsFiniteSet(S)
  PROVE  \E b \in Nat : \A s \in S : s <= b
<1> DEFINE Bounded(R) == \E b \in Nat : \A s \in R : s <= b
           T == {k \in 0..Cardinality(S) :
                   \A R \in SUBSET Nat : IsFiniteSet(R) /\ Cardinality(R) = k => Bounded(R)}
<1>1. PICK n \in Nat : n = Cardinality(S)
  BY FS_CardinalityType
<1>2. 0 \in T
  <2>1. \A R \in SUBSET Nat : IsFiniteSet(R) /\ Cardinality(R) = 0 => R = {}
    BY FS_EmptySet
  <2> QED
    BY <1>1, <2>1
<1>3. ASSUME NEW i \in 0..(n - 1), i \in T PROVE i + 1 \in T
  <2> SUFFICES ASSUME NEW R \in SUBSET Nat, IsFiniteSet(R), Cardinality(R) = i + 1
               PROVE  Bounded(R)
    BY <1>1
  <2>1. R # {}
    BY FS_EmptySet
  <2>2. PICK x \in R : TRUE
    BY <2>1
  <2>3. IsFiniteSet(R \ {x}) /\ Cardinality(R \ {x}) = i
    <3>1. /\ IsFiniteSet(R \ {x})
          /\ Cardinality(R \ {x}) = IF x \in R THEN Cardinality(R) - 1 ELSE Cardinality(R)
      BY FS_RemoveElement, Zenon
    <3> QED
      BY <2>2, <3>1
  <2>4. PICK b \in Nat : \A s \in R \ {x} : s <= b
    <3>1. \A Q \in SUBSET Nat : IsFiniteSet(Q) /\ Cardinality(Q) = i => Bounded(Q)
      BY <1>3
    <3>2. R \ {x} \in SUBSET Nat
      OBVIOUS
    <3> QED
      BY <2>3, <3>1, <3>2
  <2>5. b + x \in Nat /\ \A s \in R : s <= b + x
    <3>1. x \in Nat /\ b \in Nat /\ b <= b + x /\ x <= b + x
      BY <2>2
    <3>2. ASSUME NEW s \in R PROVE s <= b + x
      <4>1. s \in Nat /\ (s = x \/ s <= b)
        BY <2>4
      <4> QED
        BY <3>1, <4>1
    <3> QED
      BY <3>1, <3>2
  <2> QED
    BY <2>5
<1> HIDE DEF T
<1>4. 0..n \subseteq T
  BY <1>2, <1>3, UpTo
<1> QED
  BY <1>1, <1>4 DEF T

LEMMA MaxIs ==
  ASSUME NEW S \in SUBSET Nat, IsFiniteSet(S), S # {}
  PROVE  Max(S) \in S /\ \A s \in S : s <= Max(S)
<1> DEFINE B == {b \in Nat : \A s \in S : s <= b}
<1>1. B # {} /\ B \in SUBSET Nat
  BY FiniteHasBound
<1>2. PICK m \in B : \A b \in B : m <= b
  BY <1>1, LeastNatural
<1>3. m \in S
  <2> SUFFICES ASSUME m \notin S PROVE FALSE
    OBVIOUS
  <2>1. \A s \in S : s < m
    BY <1>2
  <2>2. m \in Nat \ {0}
    <3>1. PICK s \in S : s \in Nat /\ s < m
      BY <2>1
    <3> QED
      BY <1>2, <3>1
  <2>3. m - 1 \in Nat /\ \A s \in S : s <= m - 1
    <3>1. m - 1 \in Nat
      BY <2>2
    <3>2. ASSUME NEW s \in S PROVE s <= m - 1
      <4>1. s \in Nat /\ s < m
        BY <2>1
      <4> QED
        BY <2>2, <4>1
    <3> QED
      BY <3>1, <3>2
  <2>4. \A b \in Nat : (\A s \in S : s <= b) => m <= b
    BY <1>2
  <2> QED
    BY <2>2, <2>3, <2>4
<1>4. \A s \in S : m >= s
  BY <1>2
<1> QED
  BY <1>3, <1>4 DEF Max

\* Sorted: every number once, in increasing order.
LEMMA InOrderIs ==
  ASSUME NEW S \in SUBSET (Nat \ {0}), IsFiniteSet(S)
  PROVE  /\ InOrder(S) \in Seq(S)
         /\ \A e : (\E j \in 1..Len(InOrder(S)) : InOrder(S)[j] = e) <=> e \in S
         /\ \A i, j \in 1..Len(InOrder(S)) : i < j => InOrder(S)[i] < InOrder(S)[j]
<1>1. PICK n : n = Max(S \cup {0})
  OBVIOUS
<1>2. n \in Nat /\ \A s \in S : s <= n
  <2>1. PICK U : U = S \cup {0}
    OBVIOUS
  <2>2. U \in SUBSET Nat /\ IsFiniteSet(U) /\ U # {}
    BY <2>1, FS_AddElement
  <2>3. Max(U) \in U /\ \A s \in U : s <= Max(U)
    BY <2>2, MaxIs
  <2> QED
    BY <1>1, <2>1, <2>2, <2>3
<1>3. PICK s : s = [k \in 1 .. n |-> k]
  OBVIOUS
<1>4. s \in Seq(1..n) /\ Len(s) = n /\ \A i \in 1..n : s[i] = i
  BY <1>2, <1>3
<1>5. PICK t : t = InOrder(S) /\ t = Only(s, S)
  BY <1>1, <1>3 DEF InOrder
<1>6. PICK h : Picks(h, t, s, S, Len(s))
  BY <1>4, <1>5, OnlyPicks
<1>7. t \in Seq(1..n) /\ Len(t) \in Nat /\ t \in [1..Len(t) -> 1..n]
  BY <1>4, <1>5, OnlyPicks, LenProperties
<1>8. \A j \in 1..Len(t) : t[j] = h[j] /\ t[j] \in S
  BY <1>4, <1>6 DEF Picks
<1>9. t \in Seq(S)
  BY <1>7, <1>8
<1>10. \A i, j \in 1..Len(t) : i < j => t[i] < t[j]
  BY <1>6, <1>8 DEF Picks
<1>11. ASSUME NEW e \in S PROVE \E j \in 1..Len(t) : t[j] = e
  <2>1. e \in 1..n /\ s[e] = e
    BY <1>2, <1>4
  <2> QED
    BY <1>4, <1>6, <1>8, <2>1 DEF Picks
<1> QED
  BY <1>5, <1>8, <1>9, <1>10, <1>11

\* sorted() leaves out nothing.
LEMMA InOrderLength ==
  ASSUME NEW S \in SUBSET (Nat \ {0}), IsFiniteSet(S)
  PROVE  Len(InOrder(S)) = Cardinality(S)
<1>1. PICK t \in Seq(S) : t = InOrder(S)
  BY InOrderIs
<1>2. PICK m \in Nat : m = Len(t) /\ t \in [1..m -> S]
  BY <1>1, LenProperties
<1>3. /\ \A e : (\E j \in 1..m : t[j] = e) <=> e \in S
      /\ \A i, j \in 1..m : i < j => t[i] < t[j]
  BY <1>1, <1>2, InOrderIs
<1>4. \A i, j \in 1..m : i # j => t[i] # t[j]
  <2> SUFFICES ASSUME NEW i \in 1..m, NEW j \in 1..m, i # j, t[i] = t[j] PROVE FALSE
    OBVIOUS
  <2>1. t[i] \in Nat /\ t[j] \in Nat
    BY <1>2
  <2> QED
    BY <1>3, <2>1
<1>5. t \in Bijection(1..m, S)
  BY <1>2, <1>3, <1>4 DEF Bijection, Injection, Surjection, IsInjective
<1>6. Cardinality(S) = m
  BY <1>5, FS_CountingElements DEF ExistsBijection
<1> QED
  BY <1>1, <1>2, <1>6
-----------------------------------------------------------------------------
(* Dictionaries. *)

\* The functions to R from some keys of H.
Partial(H, R) == UNION {[K -> R] : K \in SUBSET H}

LEMMA PartialIs ==
  ASSUME NEW H, NEW R, NEW f \in Partial(H, R)
  PROVE  f \in [DOMAIN f -> R] /\ DOMAIN f \subseteq H
  BY DEF Partial

LEMMA PartialBy ==
  ASSUME NEW H, NEW R, NEW K \in SUBSET H, NEW f \in [K -> R]
  PROVE  f \in Partial(H, R)
  BY DEF Partial

LEMMA PartialGrows ==
  ASSUME NEW H, NEW G, NEW R, NEW S, H \subseteq G, R \subseteq S, NEW f \in Partial(H, R)
  PROVE  f \in Partial(G, S)
<1>1. f \in [DOMAIN f -> R] /\ DOMAIN f \subseteq H
  BY PartialIs
<1>2. f \in [DOMAIN f -> S] /\ DOMAIN f \in SUBSET G
  BY <1>1
<1> QED
  BY <1>2, PartialBy

\* One more key.
LEMMA PartialPut ==
  ASSUME NEW H, NEW R, NEW f \in Partial(H, R), NEW k \in H, NEW r \in R
  PROVE  /\ Noted(f, k, r) \in Partial(H, R)
         /\ DOMAIN Noted(f, k, r) = {k} \cup DOMAIN f
         /\ Noted(f, k, r)[k] = r
         /\ \A j \in DOMAIN f : j # k => Noted(f, k, r)[j] = f[j]
<1> DEFINE g == Noted(f, k, r)
<1>1. f \in [DOMAIN f -> R] /\ DOMAIN f \subseteq H
  BY PartialIs
<1>2. g = [x \in {k} \cup DOMAIN f |-> IF x = k THEN r ELSE f[x]]
  BY DEF Noted
<1>3. g \in [({k} \cup DOMAIN f) -> R]
  BY <1>1, <1>2
<1>4. g \in Partial(H, R)
  BY <1>1, <1>3, PartialBy, {k} \cup DOMAIN f \in SUBSET H
<1> QED
  BY <1>2, <1>4

LEMMA PartialCut ==
  ASSUME NEW H, NEW R, NEW f \in Partial(H, R), NEW K \in SUBSET DOMAIN f
  PROVE  /\ Restrict(f, K) \in Partial(H, R)
         /\ DOMAIN Restrict(f, K) = K
         /\ \A k \in K : Restrict(f, K)[k] = f[k]
<1>1. f \in [DOMAIN f -> R] /\ DOMAIN f \subseteq H
  BY PartialIs
<1>2. Restrict(f, K) \in [K -> R]
  BY <1>1 DEF Restrict
<1>3. Restrict(f, K) \in Partial(H, R)
  BY <1>1, <1>2, PartialBy, K \in SUBSET H
<1> QED
  BY <1>3 DEF Restrict
-----------------------------------------------------------------------------
(* Sorting. *)

\* A strict total order on a set, as pairs.
Orders(R, S) ==
  /\ \A x \in S : <<x, x>> \notin R
  /\ \A x, y \in S : x # y => <<x, y>> \in R \/ <<y, x>> \in R
  /\ \A x, y, z \in S : <<x, y>> \in R /\ <<y, z>> \in R => <<x, z>> \in R

\* How many come before each.
LEMMA RanksAre ==
  ASSUME NEW S, IsFiniteSet(S), NEW R, Orders(R, S), NEW n \in Nat, n = Cardinality(S),
         NEW f, f = [x \in S |-> Cardinality({y \in S : <<y, x>> \in R})]
  PROVE  /\ f \in [S -> 0..(n - 1)]
         /\ \A x, y \in S : <<x, y>> \in R => f[x] < f[y]
         /\ \A i \in 0..(n - 1) : \E x \in S : f[x] = i
<1> DEFINE under(x) == {y \in S : <<y, x>> \in R}
<1>1. ASSUME NEW x \in S
      PROVE  /\ under(x) \in SUBSET (S \ {x}) /\ IsFiniteSet(under(x)) /\ Cardinality(under(x)) \in Nat
             /\ f[x] = Cardinality(under(x))
  <2>1. under(x) \in SUBSET (S \ {x})
    BY Zenon DEF Orders
  <2>2. under(x) \in SUBSET S
    OBVIOUS
  <2> QED
    BY <2>1, <2>2, FS_Subset, FS_CardinalityType
<1>2. ASSUME NEW x \in S PROVE f[x] \in 0..(n - 1)
  <2>1. IsFiniteSet(S \ {x}) /\ Cardinality(S \ {x}) = n - 1
    BY FS_RemoveElement
  <2>2. Cardinality(under(x)) <= Cardinality(S \ {x})
    BY <1>1, <2>1, FS_Subset
  <2>3. f[x] <= n - 1 /\ f[x] \in Nat
    BY <1>1, <2>1, <2>2, Zenon
  <2> QED
    BY <2>3
<1>3. f \in [S -> 0..(n - 1)]
  BY <1>2
<1>4. ASSUME NEW x \in S, NEW y \in S, <<x, y>> \in R PROVE f[x] < f[y]
  <2>1. x \notin under(x) /\ under(x) \cup {x} \in SUBSET under(y)
    BY <1>4, Zenon DEF Orders
  <2>2. Cardinality(under(x) \cup {x}) = Cardinality(under(x)) + 1
    BY <1>1, <2>1, FS_AddElement
  <2>3. Cardinality(under(x) \cup {x}) <= Cardinality(under(y))
    BY <1>1, <2>1, FS_Subset
  <2>4. f[x] + 1 <= f[y]
    BY <1>1, <2>2, <2>3, Zenon
  <2>5. f[x] \in Nat /\ f[y] \in Nat
    BY <1>2
  <2> QED
    BY <2>4, <2>5
<1>5. f \in Injection(S, 0..(n - 1))
  <2>1. ASSUME NEW x \in S, NEW y \in S, f[x] = f[y] PROVE x = y
    <3>1. f[x] \in Nat
      BY <1>2
    <3>2. ~(f[x] < f[y]) /\ ~(f[y] < f[x])
      BY <2>1, <3>1
    <3> QED
      BY <1>4, <3>2, Zenon DEF Orders
  <2>2. DOMAIN f = S
    BY <1>3
  <2>3. IsInjective(f)
    BY <2>1, <2>2, Zenon DEF IsInjective
  <2> QED
    BY <1>3, <2>3, Zenon DEF Injection
<1>6. IsFiniteSet(0..(n - 1)) /\ Cardinality(0..(n - 1)) = n
  <2>1. 0 \in Int /\ n - 1 \in Int /\ (0 > n - 1 => n = 0)
    OBVIOUS
  <2>2. IsFiniteSet(0..(n - 1)) /\ Cardinality(0..(n - 1)) = IF 0 > n - 1 THEN 0 ELSE (n - 1) - 0 + 1
    BY <2>1, FS_Interval
  <2> QED
    BY <2>1, <2>2
<1>7. f \in Surjection(S, 0..(n - 1))
  BY <1>5, <1>6, FS_Injection
<1> QED
  BY <1>3, <1>4, <1>7 DEF Surjection

\* What is sorted has each member once, in the order.
LEMMA SortedIs ==
  ASSUME NEW S, IsFiniteSet(S), NEW R, Orders(R, S), NEW s, s = Sorted(S, R)
  PROVE  /\ s \in Seq(S) /\ Len(s) = Cardinality(S) /\ DOMAIN s = 1..Len(s)
         /\ \A x \in S : \E i \in 1..Len(s) : s[i] = x
         /\ \A i, j \in 1..Len(s) : i < j => <<s[i], s[j]>> \in R
<1>1. PICK n \in Nat : n = Cardinality(S)
  BY FS_CardinalityType
<1>2. PICK f : f = [x \in S |-> Cardinality({y \in S : <<y, x>> \in R})]
  OBVIOUS
<1>3. /\ f \in [S -> 0..(n - 1)]
      /\ \A x, y \in S : <<x, y>> \in R => f[x] < f[y]
      /\ \A i \in 0..(n - 1) : \E x \in S : f[x] = i
  BY <1>1, <1>2, RanksAre
<1>4. s = [i \in 1..n |-> CHOOSE x \in S : f[x] = i - 1]
  <2>1. \A x \in S : f[x] = Cardinality({y \in S : <<y, x>> \in R})
    BY <1>2
  <2>2. \A i \in 1..n : (CHOOSE x \in S : Cardinality({y \in S : <<y, x>> \in R}) = i - 1)
                          = CHOOSE x \in S : f[x] = i - 1
    BY <2>1
  <2>3. s = [i \in 1..n |-> CHOOSE x \in S : Cardinality({y \in S : <<y, x>> \in R}) = i - 1]
    BY <1>1, Zenon DEF Sorted
  <2> QED
    BY <2>2, <2>3, Zenon
<1>5. ASSUME NEW i \in 1..n PROVE s[i] \in S /\ f[s[i]] = i - 1
  <2>1. s[i] = CHOOSE x \in S : f[x] = i - 1
    BY <1>4
  <2>2. i - 1 \in 0..(n - 1)
    OBVIOUS
  <2> QED
    BY <1>3, <2>1, <2>2
<1>6. s \in [1..n -> S]
  BY <1>4, <1>5
<1>7. s \in Seq(S) /\ Len(s) = n /\ DOMAIN s = 1..n
  BY <1>6
<1>8. ASSUME NEW x \in S, NEW y \in S, f[x] = f[y] PROVE x = y
  <2>1. f[x] \in Nat
    BY <1>3
  <2>2. ~(f[x] < f[y]) /\ ~(f[y] < f[x])
    BY <1>8, <2>1
  <2> QED
    BY <1>3, <2>2, Zenon DEF Orders
<1>9. ASSUME NEW x \in S PROVE \E i \in 1..n : s[i] = x
  <2>1. PICK i \in 1..n : f[x] = i - 1
    <3>1. f[x] \in 0..(n - 1)
      BY <1>3
    <3>2. f[x] + 1 \in 1..n /\ f[x] = (f[x] + 1) - 1
      BY <3>1
    <3> QED
      BY <3>2
  <2> QED
    BY <1>5, <1>8, <2>1, Zenon
<1>10. ASSUME NEW i \in 1..n, NEW j \in 1..n, i < j PROVE <<s[i], s[j]>> \in R
  <2>1. f[s[i]] < f[s[j]] /\ ~(f[s[j]] < f[s[i]]) /\ s[i] # s[j]
    BY <1>5, <1>10
  <2> QED
    BY <1>3, <1>5, <2>1, Zenon DEF Orders
<1> QED
  BY <1>1, <1>7, <1>9, <1>10
=============================================================================
