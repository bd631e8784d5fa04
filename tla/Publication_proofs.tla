------------------------- MODULE Publication_proofs -------------------------
(***************************************************************************)
(* The drafts of any number of signers, roles, programs and entries, and   *)
(* the contract an agent makes of one.                                      *)
(***************************************************************************)
EXTENDS Publication, FiniteSetTheorems, SequenceTheorems, WellFoundedInduction, TLAPS

-----------------------------------------------------------------------------
(* Induction and folds. The library states induction for an operator, which *)
(* the provers do not take; that a set of numbers has a least element says  *)
(* the same. A fold is described by the function of its prefixes.           *)

LEMMA LeastNat ==
    ASSUME NEW T \in SUBSET Nat, T # {}
    PROVE  \E n \in T : \A k \in T : n <= k
<1>. DEFINE U == {1..n : n \in T}
<1>1. IsWellFoundedOn(StrictSubsetOrdering(Nat), FiniteSubsetsOf(Nat))
  BY FS_StrictSubsetOrderingWellFounded
<1>2. U \subseteq FiniteSubsetsOf(Nat) /\ U # {}
  <2>1. U \subseteq FiniteSubsetsOf(Nat)
    BY FS_Interval DEF FiniteSubsetsOf
  <2>. QED BY <2>1
<1>3. \E x \in U : \A y \in U : ~ (<<y, x>> \in StrictSubsetOrdering(Nat))
  <2>. HIDE DEF U
  <2>. QED BY <1>1, <1>2, WFMin
<1>4. PICK n \in T : \A k \in T : ~ (<<1..k, 1..n>> \in StrictSubsetOrdering(Nat))
  BY <1>3
<1>5. ASSUME NEW k \in T, k < n PROVE FALSE
  <2>1. 1..k \subseteq 1..n /\ n \in 1..n /\ n \notin 1..k /\ 1..n \subseteq Nat
    BY <1>5
  <2>2. <<1..k, 1..n>> \in StrictSubsetOrdering(Nat)
    BY <2>1 DEF StrictSubsetOrdering
  <2>. QED BY <2>2, <1>4
<1>. QED BY <1>5


LEMMA MaxIs ==
    ASSUME NEW n \in Nat, NEW u \in SUBSET (1..n), u # {}
    PROVE  Max(u) \in u /\ \A y \in u : y <= Max(u)
<1>. DEFINE T == {n - x : x \in u}
<1>1. T \in SUBSET Nat /\ T # {}
  <2>1. \A x \in u : x \in 1..n /\ n - x \in Nat
    OBVIOUS
  <2>. QED
    BY <2>1
<1>2. PICK m \in T : \A k \in T : m <= k
  <2>. HIDE DEF T
  <2>. QED  BY <1>1, LeastNat
<1>3. PICK x \in u : m = n - x
  OBVIOUS
<1>4. ASSUME NEW y \in u PROVE x >= y
  <2>1. n - y \in T /\ n - x <= n - y
    BY <1>2, <1>3
  <2>. QED
    BY <2>1
<1>5. \E z \in u : \A y \in u : z >= y
  BY <1>4
<1>6. Max(u) \in u /\ \A y \in u : Max(u) >= y
  BY <1>5 DEF Max
<1>. QED
  BY <1>6

\* G folds the subsets of 1..n from the base, the greatest number last.
Folds(G, step, base, n) ==
    /\ G[{}] = base
    /\ \A u \in SUBSET (1..n) : u # {} => G[u] = step[<<Max(u), G[u \ {Max(u)}]>>]

LEMMA FoldsExist ==
    ASSUME NEW D, NEW base \in D, NEW n \in Nat, NEW step \in [(1..n) \X D -> D]
    PROVE  \E G \in [SUBSET (1..n) -> D] : Folds(G, step, base, n)
<1>. DEFINE Has(k) == \E G \in [SUBSET (1..k) -> D] : Folds(G, step, base, k)
            T == {k \in 0..n : ~Has(k)}
<1>1. SUFFICES ASSUME T # {} PROVE FALSE
  <2>1. n \in 0..n
    OBVIOUS
  <2>2. T = {} => Has(n)
    <3>. HIDE DEF Has
    <3>. QED  BY <2>1
  <2>. QED
    BY <2>2
<1>2. PICK m \in T : \A k \in T : m <= k
  <2>1. T \in SUBSET Nat
    OBVIOUS
  <2>. HIDE DEF T
  <2>. QED  BY <1>1, <2>1, LeastNat
<1>3. m # 0
  <2>1. SUFFICES ASSUME m = 0 PROVE FALSE
    OBVIOUS
  <2>2. SUBSET (1..0) = {{}}
    OBVIOUS
  <2>3. [u \in SUBSET (1..0) |-> base] \in [SUBSET (1..0) -> D]
    OBVIOUS
  <2>4. Folds([u \in SUBSET (1..0) |-> base], step, base, 0)
    BY <2>2 DEF Folds
  <2>. QED
    BY <1>2, <2>1, <2>3, <2>4
<1>4. m \in 1..n /\ m - 1 \in 0..n /\ m - 1 < m
  BY <1>2, <1>3
<1>5. PICK G \in [SUBSET (1..(m - 1)) -> D] : Folds(G, step, base, m - 1)
  <2>1. m - 1 \notin T
    <3>. HIDE DEF T
    <3>. QED  BY <1>2, <1>4
  <2>2. Has(m - 1)
    <3>. HIDE DEF Has
    <3>. QED  BY <2>1, <1>4
  <2>. QED
    BY <2>2
<1>. DEFINE H == [u \in SUBSET (1..m) |->
                     IF m \in u THEN step[<<m, G[u \ {m}]>>] ELSE G[u]]
<1>6. \A u \in SUBSET (1..m) : u \ {m} \in SUBSET (1..(m - 1))
  BY <1>4
<1>7. H \in [SUBSET (1..m) -> D]
  <2>1. ASSUME NEW u \in SUBSET (1..m)
        PROVE  (IF m \in u THEN step[<<m, G[u \ {m}]>>] ELSE G[u]) \in D
    <3>1. G[u \ {m}] \in D
      BY <1>6
    <3>2. CASE m \in u
      BY <3>1, <3>2, <1>4
    <3>3. CASE m \notin u
      <4>1. u \ {m} = u
        BY <3>3
      <4>. QED
        BY <3>1, <3>3, <4>1
    <3>. QED
      BY <3>2, <3>3
  <2>. QED
    BY <2>1
<1>8. Folds(H, step, base, m)
  <2>1. H[{}] = base
    BY <1>5 DEF Folds
  <2>2. ASSUME NEW u \in SUBSET (1..m), u # {}
        PROVE  H[u] = step[<<Max(u), H[u \ {Max(u)}]>>]
    <3>0. m \in Nat
      BY <1>4
    <3>1. Max(u) \in u /\ \A y \in u : y <= Max(u)
      <4>. HIDE DEF T, H
      <4>. QED  BY <2>2, <3>0, MaxIs
    <3>2. CASE m \in u
      <4>1. Max(u) = m
        <5>1. m <= Max(u) /\ Max(u) \in 1..m
          BY <3>1, <3>2
        <5>. QED
          BY <5>1, <3>0
      <4>2. H[u] = step[<<m, G[u \ {m}]>>]
        BY <3>2
      <4>3. H[u \ {m}] = G[u \ {m}]
        OBVIOUS
      <4>. QED
        BY <4>1, <4>2, <4>3
    <3>3. CASE m \notin u
      <4>1. u \in SUBSET (1..(m - 1)) /\ Max(u) \in 1..(m - 1)
        <5>1. \A y \in u : y \in 1..m /\ y # m
          BY <3>3
        <5>2. \A y \in u : y \in 1..(m - 1)
          BY <5>1, <3>0
        <5>. QED
          BY <5>2, <3>1
      <4>2. H[u] = G[u] /\ H[u \ {Max(u)}] = G[u \ {Max(u)}]
        BY <3>3
      <4>. QED
        BY <4>1, <4>2, <2>2, <1>5 DEF Folds
    <3>. QED
      BY <3>2, <3>3
  <2>. QED
    BY <2>1, <2>2 DEF Folds
<1>. QED
  BY <1>2, <1>4, <1>7, <1>8

\* P holds what the fold is after each element.
Steps(P, step, base, D, n) ==
    /\ P \in [0..n -> D]
    /\ P[0] = base
    /\ \A k \in 1..n : P[k] = step[<<k, P[k - 1]>>]

\* A function does what the fold does as long as it stays in D.
Follows(h, step, base, D, n) ==
    /\ base \in D /\ n \in Nat /\ step \in [(1..n) \X D -> D]
    /\ h[{}] = base
    /\ \A u \in SUBSET (1..n) : u # {} /\ h[u \ {Max(u)}] \in D =>
         h[u] = step[<<Max(u), h[u \ {Max(u)}]>>]

LEMMA PrefixSteps ==
    ASSUME NEW D, NEW base, NEW n, NEW step, NEW h, Follows(h, step, base, D, n)
    PROVE  \E P : Steps(P, step, base, D, n) /\ P[n] = h[1..n]
<1>. USE DEF Follows
<1>. DEFINE T == {k \in 0..n : h[1..k] \notin D}
<1>0. ASSUME NEW k \in 1..n
      PROVE  /\ k - 1 \in 0..n /\ Max(1..k) = k /\ (1..k) \ {k} = 1..(k - 1)
             /\ 1..k \in SUBSET (1..n) /\ 1..k # {}
  <2>1. 1..k \in SUBSET (1..n) /\ 1..k # {} /\ k \in 1..k
    OBVIOUS
  <2>2. Max(1..k) \in 1..k /\ \A y \in 1..k : y <= Max(1..k)
    BY <2>1, MaxIs
  <2>. QED
    BY <2>1, <2>2
<1>1. T = {}
  <2>1. SUFFICES ASSUME T # {} PROVE FALSE
    OBVIOUS
  <2>2. PICK m \in T : \A k \in T : m <= k
    <3>1. T \in SUBSET Nat
      OBVIOUS
    <3>. HIDE DEF T
    <3>. QED  BY <2>1, <3>1, LeastNat
  <2>3. 1..0 = {}
    OBVIOUS
  <2>4. m \in 1..n
    BY <2>2, <2>3
  <2>5. h[1..(m - 1)] \in D
    BY <2>2, <2>4
  <2>6. h[1..m] = step[<<m, h[1..(m - 1)]>>]
    BY <1>0, <2>4, <2>5
  <2>. QED
    BY <2>2, <2>4, <2>5, <2>6
<1>2. \A k \in 0..n : h[1..k] \in D
  BY <1>1
<1>3. \A k \in 1..n : h[1..k] = step[<<k, h[1..(k - 1)]>>]
  BY <1>0, <1>2
<1>4. h[1..0] = base
  <2>1. 1..0 = {}
    OBVIOUS
  <2>. QED
    BY <2>1
<1>. DEFINE F == [k \in 0..n |-> h[1..k]]
<1>5. F \in [0..n -> D]
  BY <1>2
<1>6. F[0] = base
  BY <1>4
<1>7. \A k \in 1..n : F[k] = step[<<k, F[k - 1]>>]
  BY <1>3
<1>8. Steps(F, step, base, D, n)
  <2>. HIDE DEF F
  <2>. QED  BY <1>5, <1>6, <1>7 DEF Steps
<1>9. F[n] = h[1..n]
  OBVIOUS
<1>10. Steps(F, step, base, D, n) /\ F[n] = h[1..n]
  BY <1>8, <1>9
<1>. HIDE DEF F
<1>. QED
  BY <1>10

-----------------------------------------------------------------------------
(* The filter *)

\* P holds what is kept of each prefix.
Filters(P, s, S, kept) ==
    /\ P \in [0..Len(s) -> Seq(S)]
    /\ P[0] = <<>>
    /\ \A k \in 1..Len(s) :
         P[k] = IF s[k] \in kept THEN Append(P[k - 1], s[k]) ELSE P[k - 1]
    /\ Filter(s, kept) = P[Len(s)]

LEMMA FilterSteps ==
    ASSUME NEW S, NEW s \in Seq(S), NEW kept
    PROVE  \E P : Filters(P, s, S, kept)
<1>. DEFINE n == Len(s)
            D == Seq(S)
            next(a, k) == IF s[k] \in kept THEN Append(a, s[k]) ELSE a
            step == [x \in (1..n) \X D |-> next(x[2], x[1])]
            Is(g) == g = [u \in SUBSET DOMAIN s |->
                            IF u = {} THEN <<>> ELSE next(g[u \ {Max(u)}], Max(u))]
            h == CHOOSE g : Is(g)
<1>1. n \in Nat /\ DOMAIN s = 1..n /\ \A k \in 1..n : s[k] \in S
  OBVIOUS
<1>2. Filter(s, kept) = h[DOMAIN s]
  BY DEF Filter, FoldLeft, MapThenFoldSet
<1>3. step \in [(1..n) \X D -> D] /\ <<>> \in D
  BY <1>1
<1>4. \A k \in 1..n, a \in D : step[<<k, a>>] = next(a, k)
  OBVIOUS
<1>. HIDE DEF n, step, D
<1>5. PICK G \in [SUBSET (1..n) -> D] : Folds(G, step, <<>>, n)
  BY <1>1, <1>3, FoldsExist
<1>6. Is(G)
  <2>1. ASSUME NEW u \in SUBSET (1..n), u # {}
        PROVE  G[u] = next(G[u \ {Max(u)}], Max(u))
    <3>1. Max(u) \in 1..n /\ G[u \ {Max(u)}] \in D
      BY <1>1, <2>1, MaxIs
    <3>2. G[u] = step[<<Max(u), G[u \ {Max(u)}]>>]
      BY <1>5, <2>1 DEF Folds
    <3>. QED
      BY <3>1, <3>2, <1>4
  <2>2. G[{}] = <<>>
    BY <1>5 DEF Folds
  <2>3. G = [u \in SUBSET (1..n) |-> G[u]]
    OBVIOUS
  <2>. HIDE DEF next
  <2>. QED
    BY <1>1, <2>1, <2>2, <2>3
<1>7. Is(h)
  <2>. HIDE DEF Is
  <2>. QED  BY <1>6
<1>8. Follows(h, step, <<>>, D, n)
  <2>. HIDE DEF h, next
  <2>1. h[{}] = <<>>
    BY <1>7
  <2>2. ASSUME NEW u \in SUBSET (1..n), u # {}, h[u \ {Max(u)}] \in D
        PROVE  h[u] = step[<<Max(u), h[u \ {Max(u)}]>>]
    <3>1. h[u] = next(h[u \ {Max(u)}], Max(u))
      BY <1>1, <1>7, <2>2
    <3>2. Max(u) \in 1..n
      BY <1>1, <2>2, MaxIs
    <3>. QED
      BY <3>1, <3>2, <2>2, <1>4
  <2>. QED
    BY <1>1, <1>3, <2>1, <2>2 DEF Follows
<1>9. PICK P : Steps(P, step, <<>>, D, n) /\ P[n] = h[1..n]
  <2>. HIDE DEF h
  <2>. QED  BY <1>8, PrefixSteps
<1>10. P[n] = Filter(s, kept)
  BY <1>1, <1>2, <1>9
<1>11. \A k \in 1..n : P[k] = next(P[k - 1], k)
  <2>1. ASSUME NEW k \in 1..n PROVE P[k] = next(P[k - 1], k)
    <3>1. k - 1 \in 0..n
      BY <1>1
    <3>2. P[k - 1] \in D /\ P[k] = step[<<k, P[k - 1]>>]
      BY <3>1, <1>9 DEF Steps
    <3>. HIDE DEF next
    <3>. QED
      BY <3>2, <1>4
  <2>. QED
    BY <2>1
<1>. QED
  BY <1>9, <1>10, <1>11 DEF n, Steps, D, Filters

\* f gives for each place of r, the places of s that are kept, in their order.
Picks(f, s, r, n, kept) ==
    /\ f \in [1..Len(r) -> 1..n]
    /\ \A i \in 1..Len(r) : r[i] = s[f[i]] /\ s[f[i]] \in kept
    /\ \A i, j \in 1..Len(r) : i < j => f[i] < f[j]
    /\ \A k \in 1..n : s[k] \in kept => \E i \in 1..Len(r) : f[i] = k

LEMMA FilterPicks ==
    ASSUME NEW S, NEW s \in Seq(S), NEW kept
    PROVE  /\ Filter(s, kept) \in Seq(S)
           /\ \E f : Picks(f, s, Filter(s, kept), Len(s), kept)
<1>. DEFINE n == Len(s)
<1>0. PICK P : Filters(P, s, S, kept)
  BY FilterSteps
<1>1. /\ P \in [0..n -> Seq(S)]
      /\ P[0] = <<>>
      /\ \A k \in 1..n :
           P[k] = IF s[k] \in kept THEN Append(P[k - 1], s[k]) ELSE P[k - 1]
      /\ Filter(s, kept) = P[n]
  BY <1>0 DEF Filters
<1>2. n \in Nat /\ \A k \in 1..n : s[k] \in S
  OBVIOUS
<1>. HIDE DEF n
<1>. DEFINE Has(k) == \E f : Picks(f, s, P[k], k, kept)
            T == {k \in 0..n : ~Has(k)}
<1>3. T = {}
  <2>1. SUFFICES ASSUME T # {} PROVE FALSE
    OBVIOUS
  <2>2. PICK m \in T : \A k \in T : m <= k
    <3>1. T \in SUBSET Nat
      OBVIOUS
    <3>. HIDE DEF T
    <3>. QED  BY <2>1, <3>1, LeastNat
  <2>3. Has(0)
    <3>. DEFINE f == [i \in 1..0 |-> i]
    <3>1. Len(P[0]) = 0 /\ 1..0 = {}
      BY <1>1
    <3>2. f \in [1..Len(P[0]) -> 1..0]
      BY <3>1
    <3>. HIDE DEF f
    <3>3. Picks(f, s, P[0], 0, kept)
      BY <3>1, <3>2 DEF Picks
    <3>. QED
      BY <3>3
  <2>4. m \in 1..n /\ m - 1 \in 0..n /\ m \in Nat
    <3>1. m \in 0..n /\ ~Has(m)
      OBVIOUS
    <3>. HIDE DEF Has, T
    <3>. QED
      BY <2>3, <3>1, <1>2
  <2>5. PICK f : Picks(f, s, P[m - 1], m - 1, kept)
    <3>1. m - 1 \notin T
      <4>. HIDE DEF T
      <4>. QED  BY <2>2, <2>4
    <3>2. Has(m - 1)
      <4>. HIDE DEF Has
      <4>. QED  BY <3>1, <2>4
    <3>. QED
      BY <3>2
  <2>6. P[m - 1] \in Seq(S) /\ s[m] \in S
    BY <2>4, <1>1, <1>2
  <2>. DEFINE a == P[m - 1]
              l == Len(P[m - 1])
  <2>7. l \in Nat
    BY <2>6
  <2>8. CASE s[m] \in kept
    <3>. DEFINE g == [i \in 1..(l + 1) |-> IF i = l + 1 THEN m ELSE f[i]]
    <3>1. P[m] = Append(a, s[m])
      BY <1>1, <2>4, <2>8
    <3>2. Len(P[m]) = l + 1 /\ P[m][l + 1] = s[m] /\ \A i \in 1..l : P[m][i] = a[i]
      BY <3>1, <2>6
    <3>3. \A i \in 1..l : f[i] \in 1..(m - 1)
      BY <2>5 DEF Picks
    <3>0. g = [i \in 1..(l + 1) |-> g[i]]
      OBVIOUS
    <3>4. /\ g[l + 1] = m
          /\ \A i \in 1..l : g[i] = f[i] /\ g[i] \in 1..(m - 1)
      BY <2>7, <3>3
    <3>. HIDE DEF g, l
    <3>5. \A i \in 1..(l + 1) : i = l + 1 \/ i \in 1..l
      BY <2>7
    <3>6. g \in [1..(l + 1) -> 1..m]
      <4>1. \A i \in 1..(l + 1) : g[i] \in 1..m
        <5>. HIDE DEF T
        <5>. QED  BY <3>4, <3>5, <2>4, <2>7
      <4>. QED
        BY <3>0, <4>1
    <3>7. \A i \in 1..(l + 1) : P[m][i] = s[g[i]] /\ s[g[i]] \in kept
      BY <3>2, <3>4, <3>5, <2>5, <2>8 DEF Picks, l
    <3>8. \A i, j \in 1..(l + 1) : i < j => g[i] < g[j]
      <4>1. \A i, j \in 1..l : i < j => g[i] < g[j]
        BY <3>4, <2>5 DEF Picks, l
      <4>2. \A i \in 1..l : g[i] < g[l + 1]
        <5>. HIDE DEF T
        <5>. QED  BY <3>4, <2>4, <2>7
      <4>. QED
        BY <4>1, <4>2, <3>5, <2>7
    <3>9. \A k \in 1..m : s[k] \in kept => \E i \in 1..(l + 1) : g[i] = k
      <4>1. \A k \in 1..m : k = m \/ k \in 1..(m - 1)
        BY <2>4
      <4>2. l + 1 \in 1..(l + 1) /\ \A i \in 1..l : i \in 1..(l + 1)
        BY <2>7
      <4>3. \A k \in 1..(m - 1) : s[k] \in kept => \E i \in 1..l : f[i] = k
        BY <2>5 DEF Picks, l
      <4>. QED
        BY <4>1, <4>2, <4>3, <3>4
    <3>10. Picks(g, s, P[m], m, kept)
      BY <3>2, <3>6, <3>7, <3>8, <3>9 DEF Picks
    <3>. QED
      BY <3>10, <2>2
  <2>9. CASE s[m] \notin kept
    <3>1. P[m] = a
      BY <1>1, <2>4, <2>9
    <3>2. \A k \in 1..m : k = m \/ k \in 1..(m - 1)
      BY <2>4
    <3>3. f \in [1..Len(a) -> 1..m]
      BY <2>5, <2>4 DEF Picks
    <3>4. Picks(f, s, P[m], m, kept)
      BY <3>1, <3>2, <3>3, <2>5, <2>9 DEF Picks
    <3>. QED
      BY <3>4, <2>2
  <2>. QED
    BY <2>8, <2>9
<1>4. Has(n)
  <2>1. n \in 0..n
    BY <1>2
  <2>. HIDE DEF Has
  <2>. QED
    BY <2>1, <1>3
<1>5. P[n] \in Seq(S)
  BY <1>1, <1>2
<1>. QED
  BY <1>1, <1>4, <1>5 DEF n

NoMoreThan(r, s) ==
    \A X : Cardinality({i \in DOMAIN r : r[i] \in X})
             <= Cardinality({i \in DOMAIN s : s[i] \in X})

\* What is kept is what was there and is to be kept; it stays distinct, and
\* no more of it is of any kind than there was.
LEMMA FilterIs ==
    ASSUME NEW S, NEW s \in Seq(S), NEW kept
    PROVE  LET r == Filter(s, kept) IN
           /\ r \in Seq(S)
           /\ ToSet(r) = ToSet(s) \cap kept
           /\ IsInjective(s) => IsInjective(r)
           /\ NoMoreThan(r, s)
<1>. DEFINE r == Filter(s, kept)
<1>1. r \in Seq(S)
  BY FilterPicks
<1>2. PICK f : Picks(f, s, r, Len(s), kept)
  BY FilterPicks
<1>3. /\ DOMAIN r = 1..Len(r) /\ DOMAIN s = 1..Len(s)
      /\ Len(r) \in Nat /\ Len(s) \in Nat
  BY <1>1
<1>. HIDE DEF r
<1>4. ToSet(r) = ToSet(s) \cap kept
  <2>1. ASSUME NEW i \in 1..Len(r) PROVE r[i] \in ToSet(s) \cap kept
    BY <1>2, <1>3, <2>1 DEF Picks, ToSet
  <2>2. ASSUME NEW k \in 1..Len(s), s[k] \in kept PROVE s[k] \in ToSet(r)
    BY <1>2, <1>3, <2>2 DEF Picks, ToSet
  <2>. QED
    BY <2>1, <2>2, <1>3 DEF ToSet
<1>5. \A i, j \in 1..Len(r) : f[i] = f[j] => i = j
  <2>1. SUFFICES ASSUME NEW i \in 1..Len(r), NEW j \in 1..Len(r), f[i] = f[j], i # j
                 PROVE  FALSE
    OBVIOUS
  <2>2. i < j \/ j < i
    BY <1>3, <2>1
  <2>3. f[i] \in 1..Len(s) /\ f[j] \in 1..Len(s)
    BY <1>2 DEF Picks
  <2>4. f[i] < f[j] \/ f[j] < f[i]
    BY <1>2, <2>2 DEF Picks
  <2>. QED
    BY <2>1, <2>3, <2>4
<1>6. IsInjective(s) => IsInjective(r)
  BY <1>2, <1>3, <1>5 DEF Picks, IsInjective
<1>7. ASSUME NEW X
      PROVE  Cardinality({i \in DOMAIN r : r[i] \in X})
                <= Cardinality({i \in DOMAIN s : s[i] \in X})
  <2>. DEFINE A == {i \in DOMAIN r : r[i] \in X}
              B == {i \in DOMAIN s : s[i] \in X}
              g == [i \in A |-> f[i]]
  <2>1. IsFiniteSet(B)
    <3>1. B \subseteq 1..Len(s) /\ IsFiniteSet(1..Len(s))
      BY <1>3, FS_Interval
    <3>. QED
      BY <3>1, FS_Subset
  <2>2. \A i \in A : f[i] \in B
    BY <1>2, <1>3 DEF Picks
  <2>3. g \in Injection(A, B)
    <3>1. g \in [A -> B]
      BY <2>2
    <3>2. \A i, j \in A : g[i] = g[j] => i = j
      BY <1>3, <1>5
    <3>. QED
      BY <3>1, <3>2 DEF Injection, IsInjective
  <2>. HIDE DEF A, B, g
  <2>4. Cardinality(A) <= Cardinality(B)
    BY <2>1, <2>3, FS_Injection
  <2>. QED
    BY <2>4 DEF A, B
<1>. QED
  BY <1>1, <1>4, <1>6, <1>7 DEF r, NoMoreThan

\* A set no larger than one of at most one element.
LEMMA OneOnly ==
    ASSUME NEW A, NEW B, IsFiniteSet(A), IsFiniteSet(B), Cardinality(A) <= Cardinality(B),
           \A k, l \in B : k = l
    PROVE  \A i, j \in A : i = j
<1>1. Cardinality(A) \in Nat /\ Cardinality(B) \in Nat
  BY FS_CardinalityType
<1>2. Cardinality(B) <= 1
  <2>1. CASE B = {}
    BY <2>1, FS_EmptySet
  <2>2. ASSUME NEW b \in B PROVE Cardinality(B) <= 1
    <3>1. B = {b}
      OBVIOUS
    <3>2. Cardinality({b}) = 1
      BY FS_Singleton
    <3>. QED
      BY <3>1, <3>2
  <2>. QED
    BY <2>1, <2>2
<1>3. ASSUME NEW i \in A, NEW j \in A, i # j PROVE FALSE
  <2>1. IsFiniteSet({i}) /\ Cardinality({i}) = 1
    BY FS_Singleton
  <2>2. Cardinality({i} \cup {j}) = 2 /\ IsFiniteSet({i} \cup {j})
    <3>1. j \notin {i}
      BY <1>3
    <3>2. /\ IsFiniteSet({i} \cup {j})
          /\ Cardinality({i} \cup {j}) = Cardinality({i}) + 1
      BY <2>1, <3>1, FS_AddElement, ZenonT(30)
    <3>. QED
      BY <2>1, <3>2
  <2>3. {i} \cup {j} \subseteq A
    OBVIOUS
  <2>4. Cardinality({i} \cup {j}) <= Cardinality(A)
    BY <2>3, FS_Subset
  <2>. QED
    BY <1>1, <1>2, <2>2, <2>4
<1>. QED
  BY <1>3

-----------------------------------------------------------------------------
(* Entries that are added and removed *)

LEMMA ConcatIs ==
    ASSUME NEW s, NEW t, IsSequence(s), IsSequence(t)
    PROVE  /\ IsSequence(s \o t)
           /\ Len(s \o t) = Len(s) + Len(t) /\ Len(s) \in Nat /\ Len(t) \in Nat
           /\ ToSet(s \o t) = ToSet(s) \cup ToSet(t)
           /\ \A k \in 1..Len(s) : (s \o t)[k] = s[k]
           /\ \A k \in 1..Len(t) : (s \o t)[Len(s) + k] = t[k]
           /\ \A k \in 1..(Len(s) + Len(t)) : k \in 1..Len(s) \/ k - Len(s) \in 1..Len(t)
           /\ DOMAIN s = 1..Len(s) /\ DOMAIN t = 1..Len(t)
           /\ DOMAIN (s \o t) = 1..(Len(s) + Len(t))
<1>. DEFINE A == ToSet(s) \cup ToSet(t)
<1>1. s \in Seq(A) /\ t \in Seq(A)
  <2>1. s \in Seq(ToSet(s)) /\ t \in Seq(ToSet(t)) /\ ToSet(s) \subseteq A /\ ToSet(t) \subseteq A
    BY DEF IsSequence
  <2>. HIDE DEF A
  <2>. QED  BY <2>1
<1>2. /\ s \o t \in Seq(A)
      /\ Len(s \o t) = Len(s) + Len(t) /\ Len(s) \in Nat /\ Len(t) \in Nat
      /\ \A k \in 1..(Len(s) + Len(t)) :
           (s \o t)[k] = IF k <= Len(s) THEN s[k] ELSE t[k - Len(s)]
  <2>. HIDE DEF A
  <2>. QED  BY <1>1, ConcatProperties
<1>3. /\ DOMAIN s = 1..Len(s) /\ DOMAIN t = 1..Len(t)
      /\ DOMAIN (s \o t) = 1..(Len(s) + Len(t))
  <2>. HIDE DEF A
  <2>. QED  BY <1>1, <1>2
<1>4. \A k \in 1..Len(s) : k \in 1..(Len(s) + Len(t)) /\ (s \o t)[k] = s[k]
  BY <1>2
<1>5. \A k \in 1..Len(t) : /\ Len(s) + k \in 1..(Len(s) + Len(t))
                           /\ (s \o t)[Len(s) + k] = t[k]
  <2>1. ASSUME NEW k \in 1..Len(t)
        PROVE  /\ Len(s) + k \in 1..(Len(s) + Len(t))
               /\ ~(Len(s) + k <= Len(s)) /\ (Len(s) + k) - Len(s) = k
    BY <1>2
  <2>. QED
    BY <2>1, <1>2
<1>6. \A k \in 1..(Len(s) + Len(t)) : k \in 1..Len(s) \/ k - Len(s) \in 1..Len(t)
  BY <1>2
<1>7. ToSet(s \o t) = A
  <2>1. ASSUME NEW k \in 1..(Len(s) + Len(t)) PROVE (s \o t)[k] \in A
    BY <1>2, <1>3, <1>6, <2>1 DEF ToSet
  <2>2. ASSUME NEW x \in A PROVE \E k \in 1..(Len(s) + Len(t)) : (s \o t)[k] = x
    BY <1>3, <1>4, <1>5 DEF ToSet
  <2>. QED
    BY <1>3, <2>1, <2>2 DEF ToSet
<1>. QED
  BY <1>2, <1>3, <1>4, <1>5, <1>6, <1>7 DEF IsSequence

LEMMA ConcatInjective ==
    ASSUME NEW s, NEW t, IsSequence(s), IsSequence(t), IsInjective(s), IsInjective(t),
           ToSet(s) \cap ToSet(t) = {}
    PROVE  IsInjective(s \o t)
<1>. DEFINE r == s \o t
            m == Len(s)
            n == Len(t)
<1>1. /\ m \in Nat /\ n \in Nat /\ DOMAIN s = 1..m /\ DOMAIN t = 1..n /\ DOMAIN r = 1..(m + n)
      /\ \A k \in 1..m : r[k] = s[k]
      /\ \A k \in 1..n : r[m + k] = t[k]
      /\ \A k \in 1..(m + n) : k \in 1..m \/ k - m \in 1..n
  BY ConcatIs
<1>2. \A k \in 1..m : s[k] \in ToSet(s)
  BY <1>1 DEF ToSet
<1>3. \A k \in 1..n : t[k] \in ToSet(t)
  BY <1>1 DEF ToSet
<1>. HIDE DEF r, m, n
<1>4. \A k \in 1..(m + n) : k - m \in 1..n => r[k] = t[k - m]
  <2>1. \A k \in 1..(m + n) : m + (k - m) = k
    BY <1>1
  <2>. QED
    BY <1>1, <2>1
<1>5. ASSUME NEW i \in 1..(m + n), NEW j \in 1..(m + n), r[i] = r[j] PROVE i = j
  <2>1. CASE i \in 1..m /\ j \in 1..m
    BY <1>1, <1>5, <2>1 DEF IsInjective
  <2>2. CASE i - m \in 1..n /\ j - m \in 1..n
    <3>1. i - m = j - m
      BY <1>1, <1>4, <1>5, <2>2 DEF IsInjective
    <3>. QED
      BY <1>1, <3>1
  <2>3. CASE i \in 1..m /\ j - m \in 1..n
    BY <1>1, <1>2, <1>3, <1>4, <1>5, <2>3
  <2>4. CASE j \in 1..m /\ i - m \in 1..n
    BY <1>1, <1>2, <1>3, <1>4, <1>5, <2>4
  <2>. QED
    BY <1>1, <2>1, <2>2, <2>3, <2>4
<1>. QED
  BY <1>1, <1>5 DEF IsInjective, r

\* One entry more.
LEMMA AppendIs ==
    ASSUME NEW s, NEW e, IsSequence(s)
    PROVE  /\ IsSequence(Append(s, e)) /\ ToSet(Append(s, e)) = ToSet(s) \cup {e}
           /\ Len(Append(s, e)) = Len(s) + 1 /\ Len(s) \in Nat
           /\ DOMAIN s = 1..Len(s) /\ DOMAIN Append(s, e) = 1..(Len(s) + 1)
           /\ \A k \in 1..Len(s) : Append(s, e)[k] = s[k]
           /\ Append(s, e)[Len(s) + 1] = e
           /\ IsInjective(s) /\ e \notin ToSet(s) => IsInjective(Append(s, e))
<1>1. IsSequence(<<e>>) /\ Len(<<e>>) = 1 /\ ToSet(<<e>>) = {e} /\ <<e>>[1] = e /\ 1 \in 1..1
  BY DEF IsSequence, ToSet
<1>2. IsInjective(<<e>>)
  BY DEF IsInjective
<1>3. s \in Seq(ToSet(s) \cup {e}) /\ e \in ToSet(s) \cup {e}
  <2>1. s \in Seq(ToSet(s)) /\ ToSet(s) \subseteq ToSet(s) \cup {e}
    BY DEF IsSequence
  <2>. QED
    BY <2>1
<1>4. Append(s, e) = s \o <<e>>
  BY <1>3, AppendIsConcat
<1>5. /\ IsSequence(s \o <<e>>) /\ ToSet(s \o <<e>>) = ToSet(s) \cup {e}
      /\ Len(s \o <<e>>) = Len(s) + 1 /\ Len(s) \in Nat
      /\ DOMAIN s = 1..Len(s) /\ DOMAIN (s \o <<e>>) = 1..(Len(s) + 1)
      /\ \A k \in 1..Len(s) : (s \o <<e>>)[k] = s[k]
      /\ (s \o <<e>>)[Len(s) + 1] = e
  <2>. DEFINE t == <<e>>
  <2>1. IsSequence(t) /\ Len(t) = 1 /\ ToSet(t) = {e} /\ t[1] = e /\ 1 \in 1..1
    BY <1>1
  <2>. HIDE DEF t
  <2>2. /\ IsSequence(s \o t) /\ ToSet(s \o t) = ToSet(s) \cup {e}
        /\ Len(s \o t) = Len(s) + 1 /\ Len(s) \in Nat
        /\ DOMAIN s = 1..Len(s) /\ DOMAIN (s \o t) = 1..(Len(s) + 1)
        /\ \A k \in 1..Len(s) : (s \o t)[k] = s[k]
        /\ (s \o t)[Len(s) + 1] = e
    BY <2>1, ConcatIs
  <2>. QED
    BY <2>2 DEF t
<1>6. IsInjective(s) /\ e \notin ToSet(s) => IsInjective(s \o <<e>>)
  <2>1. SUFFICES ASSUME IsInjective(s), e \notin ToSet(s) PROVE IsInjective(s \o <<e>>)
    OBVIOUS
  <2>2. ToSet(s) \cap ToSet(<<e>>) = {}
    BY <1>1, <2>1
  <2>. QED
    BY <1>1, <1>2, <2>1, <2>2, ConcatInjective
<1>. QED
  BY <1>4, <1>5, <1>6

\* Without its first e, a sequence that holds nothing twice holds all but e.
LEMMA RemoveFirstIs ==
    ASSUME NEW s, NEW e, IsSequence(s), IsInjective(s)
    PROVE  /\ IsSequence(RemoveFirst(s, e)) /\ IsInjective(RemoveFirst(s, e))
           /\ ToSet(RemoveFirst(s, e)) = ToSet(s) \ {e}
<1>. DEFINE n == Len(s)
<1>1. /\ n \in Nat /\ DOMAIN s = 1..n /\ s \in Seq(ToSet(s))
      /\ \A k \in 1..n : s[k] \in ToSet(s)
  BY DEF IsSequence, ToSet
<1>2. CASE ~ \E i \in 1..n : s[i] = e
  <2>1. RemoveFirst(s, e) = s /\ e \notin ToSet(s)
    BY <1>1, <1>2 DEF RemoveFirst, ToSet
  <2>. QED
    BY <2>1
<1>3. CASE \E i \in 1..n : s[i] = e
  <2>1. PICK i \in 1..n : s[i] = e
    BY <1>3
  <2>2. {k \in 1..n : s[k] = e} = {i}
    BY <1>1, <2>1 DEF IsInjective
  <2>3. Min({i}) = i
    <3>1. \A x \in {i} : x = i
      OBVIOUS
    <3>. QED
      BY <1>1, <2>1, <3>1 DEF Min
  <2>. DEFINE a == SubSeq(s, 1, i - 1)
              b == SubSeq(s, i + 1, n)
  <2>4. RemoveFirst(s, e) = a \o b
    <3>1. SelectInSeq(s, LAMBDA v : v = e) = i
      BY <2>2, <2>3 DEF SelectInSeq
    <3>. QED
      BY <1>3, <3>1 DEF RemoveFirst, RemoveAt
  <2>5. /\ a \in Seq(ToSet(s)) /\ Len(a) = i - 1
        /\ \A k \in 1..(i - 1) : a[k] = s[k]
    BY <1>1, <2>1, SubSeqProperties
  <2>6. /\ b \in Seq(ToSet(s)) /\ Len(b) = n - i
        /\ \A k \in 1..(n - i) : b[k] = s[i + k]
    <3>1. b = [k \in 1..(n - i) |-> s[i + k]]
      <4>1. b = [k \in 1..((n - (i + 1)) + 1) |-> s[((i + 1) + k) - 1]]
        BY <1>1, <2>1
      <4>2. (n - (i + 1)) + 1 = n - i /\ \A k \in 1..(n - i) : ((i + 1) + k) - 1 = i + k
        BY <1>1, <2>1
      <4>. HIDE DEF b, n
      <4>. QED
        BY <4>1, <4>2
    <3>2. n - i \in Nat /\ \A k \in 1..(n - i) : i + k \in 1..n
      BY <1>1, <2>1
    <3>. HIDE DEF b, n
    <3>. QED
      BY <1>1, <3>1, <3>2
  <2>. HIDE DEF a, b
  <2>7. DOMAIN a = 1..(i - 1) /\ DOMAIN b = 1..(n - i)
    BY <2>5, <2>6
  <2>8. IsSequence(a) /\ IsSequence(b)
    <3>1. \A k \in 1..(i - 1) : a[k] \in ToSet(a)
      BY <2>7 DEF ToSet
    <3>2. \A k \in 1..(n - i) : b[k] \in ToSet(b)
      BY <2>7 DEF ToSet
    <3>. QED
      BY <1>1, <2>5, <2>6, <2>7, <3>1, <3>2 DEF IsSequence
  <2>9. /\ \A k \in 1..(i - 1) : k \in 1..n /\ k # i
        /\ \A k \in 1..(n - i) : i + k \in 1..n /\ i + k > i
    BY <1>1, <2>1
  <2>10. IsInjective(a)
    BY <1>1, <2>5, <2>7, <2>9 DEF IsInjective
  <2>11. IsInjective(b)
    <3>1. ASSUME NEW j \in 1..(n - i), NEW k \in 1..(n - i), b[j] = b[k] PROVE j = k
      <4>1. i + j = i + k
        BY <1>1, <2>6, <2>9, <3>1 DEF IsInjective
      <4>. QED
        BY <1>1, <2>1, <4>1
    <3>. QED
      BY <2>7, <3>1 DEF IsInjective
  <2>12. ToSet(a) \cup ToSet(b) = ToSet(s) \ {e}
    <3>1. ASSUME NEW k \in 1..(i - 1) PROVE a[k] \in ToSet(s) \ {e}
      BY <1>1, <2>1, <2>5, <2>9, <3>1 DEF IsInjective
    <3>2. ASSUME NEW k \in 1..(n - i) PROVE b[k] \in ToSet(s) \ {e}
      <4>1. i + k \in 1..n /\ i + k # i
        BY <1>1, <2>1, <2>9
      <4>. QED
        BY <1>1, <2>1, <2>6, <4>1 DEF IsInjective
    <3>3. ASSUME NEW k \in 1..n, s[k] # e PROVE s[k] \in ToSet(a) \cup ToSet(b)
      <4>1. k # i
        BY <2>1, <3>3
      <4>2. k \in 1..(i - 1) \/ (k - i \in 1..(n - i) /\ i + (k - i) = k)
        BY <1>1, <2>1, <4>1
      <4>. QED
        BY <2>5, <2>6, <2>7, <4>2 DEF ToSet
    <3>. QED
      BY <1>1, <2>7, <3>1, <3>2, <3>3 DEF ToSet
  <2>13. ToSet(a) \cap ToSet(b) = {}
    <3>1. ASSUME NEW j \in 1..(i - 1), NEW k \in 1..(n - i) PROVE a[j] # b[k]
      <4>1. j \in 1..n /\ i + k \in 1..n /\ j # i + k
        BY <1>1, <2>1, <2>9
      <4>. QED
        BY <1>1, <2>5, <2>6, <4>1 DEF IsInjective
    <3>. QED
      BY <2>7, <3>1 DEF ToSet
  <2>. QED
    BY <2>4, <2>8, <2>10, <2>11, <2>12, <2>13, ConcatIs, ConcatInjective
<1>. QED
  BY <1>2, <1>3

-----------------------------------------------------------------------------
(* The sum of entries *)

Amounts(s) == IsSequence(s) /\ \A i \in DOMAIN s : s[i].amount \in Int

\* P holds the sum of each prefix.
Sums(P, s) ==
    /\ P \in [0..Len(s) -> Int]
    /\ P[0] = 0
    /\ \A k \in 1..Len(s) : P[k] = P[k - 1] + s[k].amount
    /\ GetPayTotal(s) = P[Len(s)]

LEMMA SumSteps ==
    ASSUME NEW s, Amounts(s)
    PROVE  \E P : Sums(P, s)
<1>. DEFINE n == Len(s)
            D == Int
            next(a, k) == a + s[k].amount
            step == [x \in (1..n) \X D |-> next(x[2], x[1])]
            Is(g) == g = [u \in SUBSET DOMAIN s |->
                            IF u = {} THEN 0 ELSE next(g[u \ {Max(u)}], Max(u))]
            h == CHOOSE g : Is(g)
<1>1. n \in Nat /\ DOMAIN s = 1..n /\ \A k \in 1..n : s[k].amount \in Int
  BY DEF Amounts, IsSequence
<1>2. GetPayTotal(s) = h[DOMAIN s]
  BY DEF GetPayTotal, FoldLeft, MapThenFoldSet
<1>3. step \in [(1..n) \X D -> D] /\ 0 \in D
  BY <1>1
<1>4. \A k \in 1..n, a \in D : step[<<k, a>>] = next(a, k)
  OBVIOUS
<1>. HIDE DEF n, step, D
<1>5. PICK G \in [SUBSET (1..n) -> D] : Folds(G, step, 0, n)
  BY <1>1, <1>3, FoldsExist
<1>6. Is(G)
  <2>1. ASSUME NEW u \in SUBSET (1..n), u # {}
        PROVE  G[u] = next(G[u \ {Max(u)}], Max(u))
    <3>1. Max(u) \in 1..n /\ G[u \ {Max(u)}] \in D
      BY <1>1, <2>1, MaxIs
    <3>2. G[u] = step[<<Max(u), G[u \ {Max(u)}]>>]
      BY <1>5, <2>1 DEF Folds
    <3>. QED
      BY <3>1, <3>2, <1>4
  <2>2. G[{}] = 0
    BY <1>5 DEF Folds
  <2>3. G = [u \in SUBSET (1..n) |-> G[u]]
    OBVIOUS
  <2>. HIDE DEF next
  <2>. QED
    BY <1>1, <2>1, <2>2, <2>3
<1>7. Is(h)
  <2>. HIDE DEF Is
  <2>. QED  BY <1>6
<1>8. Follows(h, step, 0, D, n)
  <2>. HIDE DEF h, next
  <2>1. h[{}] = 0
    BY <1>7
  <2>2. ASSUME NEW u \in SUBSET (1..n), u # {}, h[u \ {Max(u)}] \in D
        PROVE  h[u] = step[<<Max(u), h[u \ {Max(u)}]>>]
    <3>1. h[u] = next(h[u \ {Max(u)}], Max(u))
      BY <1>1, <1>7, <2>2
    <3>2. Max(u) \in 1..n
      BY <1>1, <2>2, MaxIs
    <3>. QED
      BY <3>1, <3>2, <2>2, <1>4
  <2>. QED
    BY <1>1, <1>3, <2>1, <2>2 DEF Follows
<1>9. PICK P : Steps(P, step, 0, D, n) /\ P[n] = h[1..n]
  <2>. HIDE DEF h
  <2>. QED  BY <1>8, PrefixSteps
<1>10. P[n] = GetPayTotal(s)
  BY <1>1, <1>2, <1>9
<1>11. \A k \in 1..n : P[k] = next(P[k - 1], k)
  <2>1. ASSUME NEW k \in 1..n PROVE P[k] = next(P[k - 1], k)
    <3>1. k - 1 \in 0..n
      BY <1>1
    <3>2. P[k - 1] \in D /\ P[k] = step[<<k, P[k - 1]>>]
      BY <3>1, <1>9 DEF Steps
    <3>. HIDE DEF next
    <3>. QED
      BY <3>2, <1>4
  <2>. QED
    BY <2>1
<1>. QED
  BY <1>9, <1>10, <1>11 DEF n, D, Steps, Sums

\* The sums of sequences that agree in their amounts up to a place agree there.
LEMMA SumsMatch ==
    ASSUME NEW s, NEW t, NEW P, NEW Q, Amounts(s), Amounts(t), Sums(P, s), Sums(Q, t),
           NEW m \in Nat, m <= Len(s), m <= Len(t),
           \A k \in 1..m : s[k].amount = t[k].amount
    PROVE  P[m] = Q[m]
<1>. DEFINE T == {k \in 0..m : P[k] # Q[k]}
<1>1. SUFFICES ASSUME T # {} PROVE FALSE
  OBVIOUS
<1>2. PICK k \in T : \A j \in T : k <= j
  <2>1. T \in SUBSET Nat
    OBVIOUS
  <2>. HIDE DEF T
  <2>. QED  BY <1>1, <2>1, LeastNat
<1>3. Len(s) \in Nat /\ Len(t) \in Nat
  BY DEF Amounts, IsSequence
<1>4. k # 0
  BY DEF Sums
<1>5. /\ k \in 1..m /\ k \in 1..Len(s) /\ k \in 1..Len(t) /\ k - 1 \in 0..m /\ k - 1 < k
  BY <1>3, <1>4
<1>6. P[k - 1] = Q[k - 1]
  BY <1>2, <1>5
<1>7. P[k] = Q[k]
  BY <1>5, <1>6 DEF Sums
<1>. QED
  BY <1>2, <1>7

LEMMA TotalSame ==
    ASSUME NEW s, NEW t, Amounts(s), Amounts(t), Len(s) = Len(t),
           \A k \in 1..Len(s) : s[k].amount = t[k].amount
    PROVE  GetPayTotal(s) = GetPayTotal(t)
<1>1. PICK P : Sums(P, s)
  BY SumSteps
<1>2. PICK Q : Sums(Q, t)
  BY SumSteps
<1>3. Len(s) \in Nat
  BY DEF Amounts, IsSequence
<1>4. P[Len(s)] = Q[Len(s)]
  BY <1>1, <1>2, <1>3, SumsMatch
<1>. QED
  BY <1>1, <1>2, <1>4 DEF Sums

LEMMA AmountsConcat ==
    ASSUME NEW s, NEW t, Amounts(s), Amounts(t)
    PROVE  /\ Amounts(s \o t)
           /\ Len(s \o t) = Len(s) + Len(t) /\ Len(s) \in Nat /\ Len(t) \in Nat
           /\ ToSet(s \o t) = ToSet(s) \cup ToSet(t)
           /\ \A k \in 1..Len(s) : (s \o t)[k] = s[k]
           /\ \A k \in 1..Len(t) : (s \o t)[Len(s) + k] = t[k]
<1>. DEFINE r == s \o t
<1>1. /\ IsSequence(r)
      /\ Len(r) = Len(s) + Len(t) /\ Len(s) \in Nat /\ Len(t) \in Nat
      /\ ToSet(r) = ToSet(s) \cup ToSet(t)
      /\ \A k \in 1..Len(s) : r[k] = s[k]
      /\ \A k \in 1..Len(t) : r[Len(s) + k] = t[k]
      /\ DOMAIN r = 1..(Len(s) + Len(t))
  BY ConcatIs DEF Amounts
<1>2. \A x \in ToSet(s) \cup ToSet(t) : x.amount \in Int
  BY DEF Amounts, ToSet
<1>3. \A k \in DOMAIN r : r[k] \in ToSet(r)
  BY DEF ToSet
<1>. HIDE DEF r
<1>4. Amounts(r)
  BY <1>1, <1>2, <1>3 DEF Amounts
<1>. QED
  BY <1>1, <1>4 DEF r

LEMMA TotalConcat ==
    ASSUME NEW s, NEW t, Amounts(s), Amounts(t)
    PROVE  /\ GetPayTotal(s \o t) = GetPayTotal(s) + GetPayTotal(t)
           /\ GetPayTotal(s) \in Int /\ GetPayTotal(t) \in Int
<1>. DEFINE r == s \o t
<1>1. /\ Amounts(r) /\ Len(r) = Len(s) + Len(t) /\ Len(s) \in Nat /\ Len(t) \in Nat
      /\ \A k \in 1..Len(s) : r[k] = s[k]
      /\ \A k \in 1..Len(t) : r[Len(s) + k] = t[k]
  BY AmountsConcat
<1>. HIDE DEF r
<1>2. PICK P : Sums(P, s)
  BY SumSteps
<1>3. PICK Q : Sums(Q, t)
  BY SumSteps
<1>4. PICK R : Sums(R, r)
  BY <1>1, SumSteps
<1>5. R[Len(s)] = P[Len(s)]
  BY <1>1, <1>2, <1>4, SumsMatch
<1>. DEFINE T == {k \in 0..Len(t) : R[Len(s) + k] # P[Len(s)] + Q[k]}
<1>6. T = {}
  <2>1. SUFFICES ASSUME T # {} PROVE FALSE
    OBVIOUS
  <2>2. PICK k \in T : \A j \in T : k <= j
    <3>1. T \in SUBSET Nat
      OBVIOUS
    <3>. HIDE DEF T
    <3>. QED  BY <2>1, <3>1, LeastNat
  <2>3. k # 0
    <3>1. P[Len(s)] \in Int /\ Q[0] = 0
      BY <1>1, <1>2, <1>3 DEF Sums
    <3>. QED
      BY <1>1, <1>5, <3>1
  <2>4. /\ k \in 1..Len(t) /\ k - 1 \in 0..Len(t) /\ k - 1 < k
        /\ Len(s) + k \in 1..Len(r) /\ (Len(s) + k) - 1 = Len(s) + (k - 1)
    BY <1>1, <2>3
  <2>5. R[Len(s) + (k - 1)] = P[Len(s)] + Q[k - 1]
    BY <2>2, <2>4
  <2>6. R[Len(s) + k] = R[(Len(s) + k) - 1] + r[Len(s) + k].amount
    BY <1>4, <2>4 DEF Sums
  <2>7. Q[k] = Q[k - 1] + t[k].amount /\ Q[k - 1] \in Int /\ t[k].amount \in Int
    <3>1. DOMAIN t = 1..Len(t)
      BY DEF Amounts, IsSequence
    <3>. QED
      BY <1>3, <2>4, <3>1 DEF Sums, Amounts
  <2>8. P[Len(s)] \in Int
    BY <1>1, <1>2 DEF Sums
  <2>9. R[Len(s) + k] = P[Len(s)] + Q[k]
    BY <1>1, <2>4, <2>5, <2>6, <2>7, <2>8
  <2>. QED
    BY <2>2, <2>9
<1>7. R[Len(s) + Len(t)] = P[Len(s)] + Q[Len(t)]
  BY <1>1, <1>6
<1>8. P[Len(s)] \in Int /\ Q[Len(t)] \in Int
  BY <1>1, <1>2, <1>3 DEF Sums
<1>9. /\ GetPayTotal(s) = P[Len(s)] /\ GetPayTotal(t) = Q[Len(t)]
      /\ GetPayTotal(r) = R[Len(s) + Len(t)]
  BY <1>1, <1>2, <1>3, <1>4 DEF Sums
<1>. QED
  BY <1>7, <1>8, <1>9 DEF r

-----------------------------------------------------------------------------
(* The sum of a bag of entries *)

Chosen(S) == CHOOSE x \in S : TRUE

TotalOf(c, S) == MapThenSumSet(LAMBDA out : out.amount * c[out], S)

\* g sums every subset of S, one chosen entry after the other.
IsTotal(g, c, S) ==
    g = [s \in SUBSET S |->
            IF s = {} THEN 0
            ELSE Chosen(s).amount * c[Chosen(s)] + g[s \ {Chosen(s)}]]

LEMMA TotalDefined == \A c, S : TotalOf(c, S) = (CHOOSE g : IsTotal(g, c, S))[S]
BY DEF TotalOf, MapThenSumSet, MapThenFoldSet, IsTotal, Chosen

\* Among subsets of a finite set there is one that contains none of the others.
LEMMA LeastSet ==
    ASSUME NEW F, IsFiniteSet(F), NEW T \in SUBSET (SUBSET F), T # {}
    PROVE  \E s \in T : \A t \in T : t \subseteq s => t = s
<1>1. IsWellFoundedOn(StrictSubsetOrdering(F), FiniteSubsetsOf(F))
  BY FS_StrictSubsetOrderingWellFounded
<1>2. T \subseteq FiniteSubsetsOf(F)
  BY FS_Subset DEF FiniteSubsetsOf
<1>3. PICK s \in T : \A t \in T : ~ (<<t, s>> \in StrictSubsetOrdering(F))
  BY <1>1, <1>2, WFMin
<1>. QED
  BY <1>3 DEF StrictSubsetOrdering

LEMMA TotalsAgree ==
    ASSUME NEW c, NEW A, NEW B, NEW g, NEW h, IsTotal(g, c, A), IsTotal(h, c, B),
           NEW S, IsFiniteSet(S), S \subseteq A, S \subseteq B
    PROVE  g[S] = h[S]
<1>. DEFINE T == {s \in SUBSET S : g[s] # h[s]}
            Part(x) == x.amount * c[x]
<1>1. SUFFICES ASSUME T # {} PROVE FALSE
  OBVIOUS
<1>2. PICK s \in T : \A t \in T : t \subseteq s => t = s
  <2>1. T \in SUBSET (SUBSET S)
    OBVIOUS
  <2>. HIDE DEF T
  <2>. QED  BY <1>1, <2>1, LeastSet
<1>3. /\ g[s] = IF s = {} THEN 0 ELSE Part(Chosen(s)) + g[s \ {Chosen(s)}]
      /\ h[s] = IF s = {} THEN 0 ELSE Part(Chosen(s)) + h[s \ {Chosen(s)}]
  BY DEF IsTotal
<1>4. s # {} => Chosen(s) \in s
  BY DEF Chosen
<1>5. s # {} => g[s \ {Chosen(s)}] = h[s \ {Chosen(s)}]
  BY <1>2, <1>4
<1>. HIDE DEF Part
<1>. QED
  BY <1>3, <1>5

LEMMA TotalsExist == ASSUME NEW c, NEW S, IsFiniteSet(S) PROVE \E g : IsTotal(g, c, S)
<1>. DEFINE T == {s \in SUBSET S : ~ \E g : IsTotal(g, c, s)}
            G(s) == CHOOSE g : IsTotal(g, c, s)
            Part(x) == x.amount * c[x]
<1>1. SUFFICES ASSUME T # {} PROVE FALSE
  OBVIOUS
<1>2. PICK s \in T : \A t \in T : t \subseteq s => t = s
  <2>1. T \in SUBSET (SUBSET S)
    OBVIOUS
  <2>. HIDE DEF T
  <2>. QED  BY <1>1, <2>1, LeastSet
<1>3. \A t \in (SUBSET s) \ {s} : IsTotal(G(t), c, t)
  BY <1>2
<1>4. \A t \in SUBSET s : IsFiniteSet(t)
  BY FS_Subset
<1>. DEFINE F(t) == Part(Chosen(t)) + G(t \ {Chosen(t)})[t \ {Chosen(t)}]
            h == [t \in SUBSET s |-> IF t = {} THEN 0 ELSE F(t)]
<1>5. ASSUME NEW t \in SUBSET s, t # s
      PROVE  G(t)[t] = IF t = {} THEN 0 ELSE F(t)
  <2>1. IsTotal(G(t), c, t)
    BY <1>3, <1>5
  <2>2. G(t)[t] = IF t = {} THEN 0 ELSE Part(Chosen(t)) + G(t)[t \ {Chosen(t)}]
    <3>. HIDE DEF G
    <3>. QED  BY <2>1 DEF IsTotal
  <2>3. t # {} => t \ {Chosen(t)} \in (SUBSET s) \ {s}
    BY DEF Chosen
  <2>4. t # {} => G(t)[t \ {Chosen(t)}] = G(t \ {Chosen(t)})[t \ {Chosen(t)}]
    <3>1. t # {} => IsTotal(G(t \ {Chosen(t)}), c, t \ {Chosen(t)})
      BY <2>3, <1>3
    <3>2. IsFiniteSet(t \ {Chosen(t)})
      BY <1>4
    <3>. HIDE DEF G
    <3>. QED  BY <2>1, <3>1, <3>2, TotalsAgree
  <2>. QED
    BY <2>2, <2>4
<1>6. ASSUME NEW t \in SUBSET s, t # {}
      PROVE  h[t \ {Chosen(t)}] = G(t \ {Chosen(t)})[t \ {Chosen(t)}]
  <2>. DEFINE u == t \ {Chosen(t)}
  <2>1. u \in SUBSET s /\ u # s
    BY <1>6 DEF Chosen
  <2>2. h[u] = IF u = {} THEN 0 ELSE F(u)
    <3>. HIDE DEF F, u
    <3>. QED  BY <2>1
  <2>. HIDE DEF u, F, G, h
  <2>3. h[u] = G(u)[u]
    BY <2>1, <2>2, <1>5
  <2>. QED
    BY <2>3 DEF u
<1>7. IsTotal(h, c, s)
  <2>1. \A t \in SUBSET s : t # {} => F(t) = Part(Chosen(t)) + h[t \ {Chosen(t)}]
    <3>. HIDE DEF h, G, Part
    <3>. QED  BY <1>6
  <2>2. h = [t \in SUBSET s |->
               IF t = {} THEN 0 ELSE Part(Chosen(t)) + h[t \ {Chosen(t)}]]
    <3>1. h = [t \in SUBSET s |-> IF t = {} THEN 0 ELSE F(t)]
      OBVIOUS
    <3>. HIDE DEF h, F, Part
    <3>. QED  BY <2>1, <3>1
  <2>. QED
    BY <2>2 DEF IsTotal
<1>. QED
  BY <1>2, <1>7

LEMMA TotalStep ==
    ASSUME NEW c
    PROVE  /\ TotalOf(c, {}) = 0
           /\ \A S : IsFiniteSet(S) /\ S # {} =>
                TotalOf(c, S) = Chosen(S).amount * c[Chosen(S)]
                                  + TotalOf(c, S \ {Chosen(S)})
<1>. DEFINE G(s) == CHOOSE g : IsTotal(g, c, s)
            Part(x) == x.amount * c[x]
<1>1. ASSUME NEW S, IsFiniteSet(S)
      PROVE  IsTotal(G(S), c, S) /\ TotalOf(c, S) = G(S)[S]
  BY <1>1, TotalsExist, TotalDefined
<1>. HIDE DEF G
<1>2. ASSUME NEW S, IsFiniteSet(S)
      PROVE  TotalOf(c, S) = IF S = {} THEN 0
                             ELSE Part(Chosen(S)) + G(S)[S \ {Chosen(S)}]
  BY <1>1, <1>2 DEF IsTotal
<1>3. ASSUME NEW S, IsFiniteSet(S)
      PROVE  G(S)[S \ {Chosen(S)}] = TotalOf(c, S \ {Chosen(S)})
  <2>1. IsFiniteSet(S \ {Chosen(S)})
    BY <1>3, FS_Subset
  <2>. QED
    BY <1>1, <1>3, <2>1, TotalsAgree
<1>4. \A S : IsFiniteSet(S) /\ S # {} =>
        TotalOf(c, S) = Part(Chosen(S)) + TotalOf(c, S \ {Chosen(S)})
  <2>. HIDE DEF Part
  <2>. QED  BY <1>2, <1>3
<1>5. TotalOf(c, {}) = 0
  BY <1>2, FS_EmptySet
<1>. QED
  BY <1>4, <1>5

LEMMA Distributes == \A a, b \in Int : a * (b + 1) = a * b + a
OBVIOUS

\* The bag d has one e more than c.
OneMore(S, c, d, e) ==
    /\ IsFiniteSet(S)
    /\ \A x \in S : /\ x.amount \in Int /\ c[x] \in Int
                    /\ d[x] = IF x = e THEN c[x] + 1 ELSE c[x]

\* One more of an entry adds its amount.
LEMMA TotalAdd ==
    ASSUME NEW S, NEW c, NEW d, NEW e, OneMore(S, c, d, e)
    PROVE  /\ TotalOf(c, S) \in Int
           /\ TotalOf(d, S) = TotalOf(c, S) + (IF e \in S THEN e.amount ELSE 0)
<1>. USE DEF OneMore
<1>. DEFINE Good(s) ==
              /\ TotalOf(c, s) \in Int
              /\ TotalOf(d, s) = TotalOf(c, s) + (IF e \in s THEN e.amount ELSE 0)
            T == {s \in SUBSET S : ~Good(s)}
<1>1. T = {}
  <2>1. SUFFICES ASSUME T # {} PROVE FALSE
    OBVIOUS
  <2>2. PICK s \in T : \A t \in T : t \subseteq s => t = s
    <3>1. T \in SUBSET (SUBSET S)
      OBVIOUS
    <3>. HIDE DEF T
    <3>. QED  BY <2>1, <3>1, LeastSet
  <2>3. IsFiniteSet(s) /\ s \subseteq S
    BY FS_Subset
  <2>4. s # {}
    <3>1. TotalOf(c, {}) = 0 /\ TotalOf(d, {}) = 0
      BY TotalStep
    <3>2. Good({})
      BY <3>1
    <3>3. s \in SUBSET S /\ ~Good(s)
      OBVIOUS
    <3>. HIDE DEF Good, T
    <3>. QED
      BY <3>2, <3>3
  <2>. DEFINE x == Chosen(s)
              u == s \ {x}
  <2>5. x \in s /\ x \in S /\ u \in SUBSET S /\ u \subseteq s /\ u # s
    BY <2>4 DEF Chosen
  <2>6. Good(u)
    <3>1. u \notin T
      <4>. HIDE DEF T, u
      <4>. QED  BY <2>2, <2>5
    <3>. HIDE DEF u, Good
    <3>. QED
      BY <3>1, <2>5
  <2>7. /\ TotalOf(c, s) = x.amount * c[x] + TotalOf(c, u)
        /\ TotalOf(d, s) = x.amount * d[x] + TotalOf(d, u)
    BY <2>3, <2>4, TotalStep
  <2>8. x.amount \in Int /\ c[x] \in Int /\ x.amount * c[x] \in Int
    <3>. HIDE DEF x
    <3>. QED  BY <2>5
  <2>9. CASE x = e
    <3>1. d[x] = c[x] + 1
      <4>. HIDE DEF x
      <4>. QED  BY <2>5, <2>9
    <3>2. x.amount * d[x] = x.amount * c[x] + x.amount
      <4>. HIDE DEF x
      <4>. QED  BY <3>1, <2>8, Distributes
    <3>3. e \notin u /\ e \in s
      BY <2>5, <2>9
    <3>. HIDE DEF x, u, T
    <3>4. TotalOf(c, u) \in Int /\ TotalOf(d, u) = TotalOf(c, u)
      BY <2>6, <3>3
    <3>5. Good(s)
      BY <2>7, <2>8, <2>9, <3>2, <3>3, <3>4
    <3>. QED
      BY <3>5, <2>2 DEF T
  <2>10. CASE x # e
    <3>1. d[x] = c[x]
      <4>. HIDE DEF x
      <4>. QED  BY <2>5, <2>10
    <3>2. e \in u <=> e \in s
      BY <2>10
    <3>3. e \in S => e.amount \in Int
      OBVIOUS
    <3>. HIDE DEF x, u, T
    <3>4. Good(s)
      <4>1. TotalOf(c, u) \in Int /\ TotalOf(c, s) \in Int
        BY <2>6, <2>7, <2>8
      <4>2. CASE e \in s
        <5>1. e.amount \in Int
          BY <4>2, <2>3
        <5>. QED
          BY <2>6, <2>7, <2>8, <3>1, <3>2, <4>1, <4>2, <5>1
      <4>3. CASE e \notin s
        BY <2>6, <2>7, <2>8, <3>1, <3>2, <4>1, <4>3
      <4>. QED
        BY <4>2, <4>3
    <3>. QED
      BY <3>4, <2>2 DEF T
  <2>. QED
    BY <2>9, <2>10
<1>2. Good(S)
  <2>. HIDE DEF Good
  <2>. QED  BY <1>1
<1>. QED
  BY <1>2

LEMMA TotalZero ==
    ASSUME NEW S, IsFiniteSet(S), \A x \in S : x.amount \in Int,
           NEW c, \A x \in S : c[x] = 0
    PROVE  TotalOf(c, S) = 0
<1>. DEFINE T == {s \in SUBSET S : TotalOf(c, s) # 0}
<1>1. SUFFICES ASSUME T # {} PROVE FALSE
  OBVIOUS
<1>2. PICK s \in T : \A t \in T : t \subseteq s => t = s
  <2>1. T \in SUBSET (SUBSET S)
    OBVIOUS
  <2>. HIDE DEF T
  <2>. QED  BY <1>1, <2>1, LeastSet
<1>3. IsFiniteSet(s) /\ s # {}
  <2>1. IsFiniteSet(s)
    BY FS_Subset
  <2>2. TotalOf(c, s) # 0
    OBVIOUS
  <2>. QED
    BY <2>1, <2>2, TotalStep
<1>4. Chosen(s) \in s
  BY <1>3 DEF Chosen
<1>5. TotalOf(c, s \ {Chosen(s)}) = 0
  BY <1>2, <1>4
<1>6. Chosen(s).amount * c[Chosen(s)] = 0
  <2>1. Chosen(s).amount \in Int /\ c[Chosen(s)] = 0
    BY <1>4
  <2>. QED
    BY <2>1
<1>7. TotalOf(c, s) = Chosen(s).amount * c[Chosen(s)] + TotalOf(c, s \ {Chosen(s)})
  BY <1>3, TotalStep
<1>. QED
  BY <1>5, <1>6, <1>7

\* How often an entry occurs in the first k places.
CountTo(s, k) == [e \in ToSet(s) |-> Cardinality({i \in 1..k : s[i] = e})]

LEMMA CountNext ==
    ASSUME NEW s, NEW k \in Nat, k # 0, NEW e \in ToSet(s)
    PROVE  /\ CountTo(s, k - 1)[e] \in Nat
           /\ CountTo(s, k)[e] = IF e = s[k] THEN CountTo(s, k - 1)[e] + 1
                                 ELSE CountTo(s, k - 1)[e]
<1>. DEFINE A == {i \in 1..(k - 1) : s[i] = e}
            B == {i \in 1..k : s[i] = e}
<1>1. IsFiniteSet(A)
  <2>1. IsFiniteSet(1..(k - 1)) /\ A \subseteq 1..(k - 1)
    BY FS_Interval
  <2>. QED
    BY <2>1, FS_Subset
<1>2. B = IF e = s[k] THEN A \cup {k} ELSE A
  <2>1. \A i : i \in 1..k <=> i = k \/ i \in 1..(k - 1)
    OBVIOUS
  <2>. QED
    BY <2>1
<1>3. k \notin A
  OBVIOUS
<1>4. CountTo(s, k - 1)[e] = Cardinality(A) /\ CountTo(s, k)[e] = Cardinality(B)
  BY DEF CountTo
<1>5. Cardinality(A) \in Nat /\ Cardinality(A \cup {k}) = Cardinality(A) + 1
  <2>. HIDE DEF A
  <2>. QED  BY <1>1, <1>3, FS_AddElement, FS_CardinalityType
<1>. HIDE DEF A, B
<1>. QED
  BY <1>2, <1>4, <1>5

\* The sum over the bag of a sequence is the sum over the sequence.
LEMMA BagTotal ==
    ASSUME NEW s, Amounts(s)
    PROVE  TotalOf(BagOf(s), ToSet(s)) = GetPayTotal(s)
<1>. DEFINE n == Len(s)
            S == ToSet(s)
<1>1. PICK P : Sums(P, s)
  BY SumSteps
<1>2. /\ n \in Nat /\ DOMAIN s = 1..n
      /\ \A k \in 1..n : s[k] \in S
      /\ \A x \in S : x.amount \in Int
  BY DEF Amounts, IsSequence, ToSet
<1>3. IsFiniteSet(S)
  <2>1. s \in [1..n -> S]
    BY DEF Amounts, IsSequence
  <2>2. S = Range(s)
    BY DEF ToSet, Range
  <2>3. IsFiniteSet(1..n)
    BY <1>2, FS_Interval
  <2>4. s \in Surjection(1..n, S)
    <3>1. \A x \in S : \E k \in 1..n : s[k] = x
      BY <1>2 DEF ToSet
    <3>. HIDE DEF S, n
    <3>. QED
      BY <2>1, <3>1 DEF Surjection
  <2>. HIDE DEF S, n
  <2>. QED
    BY <2>3, <2>4, FS_Surjection
<1>4. BagOf(s) = CountTo(s, n)
  BY <1>2 DEF BagOf, CountTo
<1>. DEFINE T == {k \in 0..n : TotalOf(CountTo(s, k), S) # P[k]}
<1>. HIDE DEF n
<1>5. T = {}
  <2>1. SUFFICES ASSUME T # {} PROVE FALSE
    OBVIOUS
  <2>2. PICK k \in T : \A j \in T : k <= j
    <3>1. T \in SUBSET Nat
      OBVIOUS
    <3>. HIDE DEF T
    <3>. QED  BY <2>1, <3>1, LeastNat
  <2>3. TotalOf(CountTo(s, 0), S) = 0 /\ P[0] = 0
    <3>1. \A x \in S : CountTo(s, 0)[x] = 0
      <4>1. 1..0 = {}
        OBVIOUS
      <4>. QED
        BY <4>1, FS_EmptySet DEF CountTo
    <3>2. TotalOf(CountTo(s, 0), S) = 0
      <4>. HIDE DEF S
      <4>. QED  BY <1>2, <1>3, <3>1, TotalZero
    <3>. QED
      BY <1>1, <3>2 DEF Sums
  <2>4. k \in 1..n /\ k - 1 \in 0..n /\ k - 1 < k /\ k \in Nat /\ k # 0
    <3>1. k \in 0..n /\ TotalOf(CountTo(s, k), S) # P[k]
      OBVIOUS
    <3>. HIDE DEF T
    <3>. QED
      BY <2>3, <3>1, <1>2
  <2>5. TotalOf(CountTo(s, k - 1), S) = P[k - 1]
    <3>1. k - 1 \notin T
      <4>. HIDE DEF T
      <4>. QED  BY <2>2, <2>4
    <3>. QED
      BY <3>1, <2>4
  <2>6. \A x \in S : /\ CountTo(s, k - 1)[x] \in Int
                     /\ CountTo(s, k)[x] = IF x = s[k] THEN CountTo(s, k - 1)[x] + 1
                                           ELSE CountTo(s, k - 1)[x]
    BY <2>4, CountNext
  <2>. DEFINE c == CountTo(s, k - 1)
              d == CountTo(s, k)
              e == s[k]
  <2>7. TotalOf(d, S) = TotalOf(c, S) + (IF e \in S THEN e.amount ELSE 0)
    <3>1. OneMore(S, c, d, e)
      <4>. HIDE DEF S, T
      <4>. QED  BY <1>2, <1>3, <2>6 DEF OneMore
    <3>. HIDE DEF S, c, d, e, T
    <3>. QED
      BY <3>1, TotalAdd
  <2>8. e \in S
    <3>. HIDE DEF S
    <3>. QED  BY <1>2, <2>4
  <2>9. P[k] = P[k - 1] + s[k].amount
    BY <1>1, <2>4 DEF Sums, n
  <2>10. TotalOf(CountTo(s, k), S) = P[k]
    <3>. HIDE DEF S, T
    <3>. QED  BY <2>5, <2>7, <2>8, <2>9
  <2>. QED
    BY <2>2, <2>10
<1>6. TotalOf(CountTo(s, n), S) = P[n]
  <2>1. n \in 0..n
    BY <1>2
  <2>. QED
    BY <2>1, <1>5
<1>. QED
  BY <1>1, <1>4, <1>6 DEF Sums, n

-----------------------------------------------------------------------------
(* The programs of a draft. Who holds a key of which terms is a set of      *)
(* pairs: a member that joins adds its own, and takes them when it leaves.  *)

KeysOf(terms, K) == {x.key : x \in {k \in K : k.terms = terms}}

LEMMA KeyIs ==
    ASSUME NEW terms, NEW K, NEW key
    PROVE  key \in KeysOf(terms, K) <=> \E k \in K : k.terms = terms /\ k.key = key
BY DEF KeysOf

OneEach(programs) ==
    \A i, j \in DOMAIN programs : programs[i].terms = programs[j].terms => i = j

\* The programs have the keys of K, once each, and one entry for the same terms.
ProgramsHold(programs, K) ==
    /\ IsSequence(programs)
    /\ \A i \in DOMAIN programs :
         /\ programs[i] = [terms |-> programs[i].terms, keys |-> programs[i].keys]
         /\ IsSequence(programs[i].keys)
         /\ EntriesAre(programs[i].keys, KeysOf(programs[i].terms, K))
    /\ OneEach(programs)
    /\ \A k \in K : \E i \in DOMAIN programs : programs[i].terms = k.terms

\* get_program_idx() finds the entry of the terms if there is one.
LEMMA ProgramIdx ==
    ASSUME NEW programs, NEW terms, IsSequence(programs), OneEach(programs)
    PROVE  LET idx == SelectInSeq(programs, LAMBDA e : e.terms = terms) IN
           /\ (~ \E i \in DOMAIN programs : programs[i].terms = terms) => idx = 0
           /\ \A i \in DOMAIN programs : programs[i].terms = terms => idx = i /\ idx # 0
<1>. DEFINE n == Len(programs)
            I == {i \in 1..n : programs[i].terms = terms}
            idx == SelectInSeq(programs, LAMBDA e : e.terms = terms)
<1>1. n \in Nat /\ DOMAIN programs = 1..n
  BY DEF IsSequence
<1>2. idx = IF I # {} THEN Min(I) ELSE 0
  BY DEF SelectInSeq
<1>3. ASSUME NEW i \in 1..n, programs[i].terms = terms PROVE idx = i /\ idx # 0
  <2>1. I = {i}
    BY <1>1, <1>3 DEF OneEach
  <2>2. Min({i}) = i
    <3>1. \A x \in {i} : x = i
      OBVIOUS
    <3>. QED
      BY <1>1, <3>1 DEF Min
  <2>. HIDE DEF I, idx
  <2>. QED
    BY <1>1, <1>2, <2>1, <2>2
<1>4. (~ \E i \in 1..n : programs[i].terms = terms) => I = {}
  OBVIOUS
<1>. HIDE DEF I, idx
<1>. QED
  BY <1>1, <1>2, <1>3, <1>4 DEF idx

\* A key that is added to the terms of a program.
LEMMA ProgramAdded ==
    ASSUME NEW programs, NEW K, NEW terms, NEW pub, ProgramsHold(programs, K),
           pub \notin KeysOf(terms, K)
    PROVE  ProgramsHold(AddProgram(programs, terms, pub),
                        K \cup {[terms |-> terms, key |-> pub]})
<1>. DEFINE k0 == [terms |-> terms, key |-> pub]
            L == K \cup {k0}
            idx == SelectInSeq(programs, LAMBDA e : e.terms = terms)
            n == Len(programs)
            e0 == [terms |-> terms, keys |-> <<pub>>]
<1>1. /\ n \in Nat /\ DOMAIN programs = 1..n
      /\ (~ \E i \in 1..n : programs[i].terms = terms) => idx = 0
      /\ \A i \in 1..n : programs[i].terms = terms => idx = i /\ idx # 0
  <2>1. n \in Nat /\ DOMAIN programs = 1..n
    BY DEF ProgramsHold, IsSequence
  <2>2. IsSequence(programs) /\ OneEach(programs)
    BY DEF ProgramsHold
  <2>3. /\ (~ \E i \in DOMAIN programs : programs[i].terms = terms) => idx = 0
        /\ \A i \in DOMAIN programs : programs[i].terms = terms => idx = i /\ idx # 0
    BY <2>2, ProgramIdx
  <2>. HIDE DEF n, idx
  <2>. QED
    BY <2>1, <2>3
<1>2. KeysOf(terms, L) = KeysOf(terms, K) \cup {pub}
  <2>1. k0.terms = terms /\ k0.key = pub
    OBVIOUS
  <2>2. \A k : k \in L <=> k \in K \/ k = k0
    OBVIOUS
  <2>. HIDE DEF k0, L
  <2>3. ASSUME NEW x PROVE x \in KeysOf(terms, L) <=> x \in KeysOf(terms, K) \/ x = pub
    BY <2>1, <2>2, KeyIs
  <2>. QED
    BY <2>3
<1>3. ASSUME NEW t, t # terms PROVE KeysOf(t, L) = KeysOf(t, K)
  <2>1. k0.terms = terms
    OBVIOUS
  <2>2. \A k : k \in L <=> k \in K \/ k = k0
    OBVIOUS
  <2>. HIDE DEF k0, L
  <2>3. ASSUME NEW x PROVE x \in KeysOf(t, L) <=> x \in KeysOf(t, K)
    BY <1>3, <2>1, <2>2, KeyIs
  <2>. QED
    BY <2>3
<1>4. AddProgram(programs, terms, pub) =
         IF idx = 0 THEN Append(programs, e0)
         ELSE [programs EXCEPT ![idx].keys = Append(@, pub)]
  BY DEF AddProgram
<1>5. k0.terms = terms /\ e0.terms = terms /\ e0.keys = <<pub>> /\ e0 = [terms |-> e0.terms, keys |-> e0.keys]
  OBVIOUS
<1>6. CASE \E i \in 1..n : programs[i].terms = terms
  <2>1. PICK i \in 1..n : programs[i].terms = terms
    BY <1>6
  <2>2. idx = i /\ idx # 0
    BY <1>1, <2>1
  <2>. DEFINE e1 == [terms |-> terms, keys |-> Append(programs[i].keys, pub)]
              r == [programs EXCEPT ![i] = e1]
  <2>3. programs[i] = [terms |-> terms, keys |-> programs[i].keys]
    BY <1>1, <2>1 DEF ProgramsHold
  <2>4. [programs[i] EXCEPT !.keys = Append(@, pub)] = e1
    <3>. DEFINE ks == programs[i].keys
    <3>1. [[terms |-> terms, keys |-> ks] EXCEPT !.keys = Append(@, pub)] = [terms |-> terms, keys |-> Append(ks, pub)]
      BY SMTT(30)
    <3>. QED
      BY <2>3, <3>1
  <2>5. AddProgram(programs, terms, pub) = r
    BY <1>4, <2>2, <2>4
  <2>6. /\ IsSequence(e1.keys) /\ EntriesAre(e1.keys, KeysOf(terms, L))
        /\ e1 = [terms |-> e1.terms, keys |-> e1.keys] /\ e1.terms = terms
    <3>. DEFINE ks == programs[i].keys
    <3>1. IsSequence(ks) /\ IsInjective(ks) /\ ToSet(ks) = KeysOf(terms, K)
      BY <1>1, <2>1 DEF ProgramsHold, EntriesAre
    <3>. HIDE DEF ks
    <3>2. IsSequence(Append(ks, pub)) /\ IsInjective(Append(ks, pub)) /\ ToSet(Append(ks, pub)) = KeysOf(terms, K) \cup {pub}
      BY <3>1, AppendIs
    <3>3. e1 = [terms |-> terms, keys |-> Append(ks, pub)]
      BY DEF ks
    <3>. HIDE DEF e1
    <3>. QED
      BY <1>2, <3>2, <3>3 DEF EntriesAre
  <2>7. DOMAIN r = 1..n /\ r[i] = e1 /\ \A j \in 1..n : j # i => r[j] = programs[j]
    BY <1>1
  <2>8. IsSequence(r)
    <3>1. r \in [1..n -> ToSet(r)]
      <4>1. \A j \in 1..n : r[j] \in ToSet(r)
        BY <2>7 DEF ToSet
      <4>2. r = [j \in 1..n |-> IF j = i THEN e1 ELSE programs[j]]
        BY <1>1
      <4>. HIDE DEF r
      <4>. QED
        BY <4>1, <4>2
    <3>. HIDE DEF r
    <3>. QED
      BY <1>1, <3>1 DEF IsSequence
  <2>. HIDE DEF e1, r, L, idx, n
  <2>9. \A j \in 1..n : r[j].terms = programs[j].terms
    BY <2>1, <2>6, <2>7
  <2>10. ASSUME NEW j \in 1..n
         PROVE  /\ r[j] = [terms |-> r[j].terms, keys |-> r[j].keys]
                /\ IsSequence(r[j].keys)
                /\ EntriesAre(r[j].keys, KeysOf(r[j].terms, L))
    <3>1. CASE j = i
      BY <2>6, <2>7, <3>1
    <3>2. CASE j # i
      <4>1. programs[j].terms # terms
        BY <1>1, <2>1, <3>2 DEF ProgramsHold, OneEach
      <4>2. r[j] = programs[j] /\ KeysOf(r[j].terms, L) = KeysOf(r[j].terms, K)
        BY <1>3, <2>7, <3>2, <4>1
      <4>. QED
        BY <1>1, <4>2 DEF ProgramsHold
    <3>. QED
      BY <3>1, <3>2
  <2>11. \A k \in L : \E j \in 1..n : r[j].terms = k.terms
    BY <1>1, <1>5, <2>1, <2>9 DEF L, ProgramsHold
  <2>12. \A j, k \in 1..n : r[j].terms = r[k].terms => j = k
    BY <1>1, <2>9 DEF ProgramsHold, OneEach
  <2>13. ProgramsHold(r, L)
    BY <2>7, <2>8, <2>10, <2>11, <2>12 DEF ProgramsHold, OneEach
  <2>. QED
    BY <2>5, <2>13 DEF L
<1>7. CASE ~ \E i \in 1..n : programs[i].terms = terms
  <2>. DEFINE r == Append(programs, e0)
  <2>. HIDE DEF e0
  <2>1. AddProgram(programs, terms, pub) = r
    BY <1>1, <1>4, <1>7
  <2>2. /\ IsSequence(r) /\ DOMAIN r = 1..(n + 1)
        /\ \A j \in 1..n : r[j] = programs[j]
        /\ r[n + 1] = e0
    BY AppendIs DEF ProgramsHold
  <2>3. KeysOf(terms, K) = {}
    BY <1>1, <1>7 DEF KeysOf, ProgramsHold
  <2>4. IsSequence(<<pub>>) /\ EntriesAre(<<pub>>, KeysOf(terms, L))
    <3>1. IsSequence(<<pub>>) /\ ToSet(<<pub>>) = {pub}
      BY DEF IsSequence, ToSet
    <3>2. IsInjective(<<pub>>)
      BY DEF IsInjective
    <3>. HIDE DEF L
    <3>. QED
      BY <1>2, <2>3, <3>1, <3>2 DEF EntriesAre
  <2>. HIDE DEF r, L, idx, n
  <2>5. \A j \in 1..(n + 1) : j \in 1..n \/ j = n + 1
    BY <1>1
  <2>6. ASSUME NEW j \in 1..(n + 1)
        PROVE  /\ r[j] = [terms |-> r[j].terms, keys |-> r[j].keys]
               /\ IsSequence(r[j].keys)
               /\ EntriesAre(r[j].keys, KeysOf(r[j].terms, L))
    <3>1. CASE j = n + 1
      BY <1>5, <2>2, <2>4, <3>1
    <3>2. CASE j \in 1..n
      <4>1. r[j] = programs[j] /\ KeysOf(r[j].terms, L) = KeysOf(r[j].terms, K)
        BY <1>3, <1>7, <2>2, <3>2
      <4>. QED
        BY <1>1, <3>2, <4>1 DEF ProgramsHold
    <3>. QED
      BY <2>5, <3>1, <3>2
  <2>7. \A k \in L : \E j \in 1..(n + 1) : r[j].terms = k.terms
    <3>1. n + 1 \in 1..(n + 1) /\ \A j \in 1..n : j \in 1..(n + 1)
      BY <1>1
    <3>2. \A k \in K : \E j \in 1..n : programs[j].terms = k.terms
      BY <1>1 DEF ProgramsHold
    <3>3. \A k \in L : k \in K \/ k.terms = terms
      BY <1>5 DEF L
    <3>. QED
      BY <1>5, <2>2, <3>1, <3>2, <3>3
  <2>8. \A j, k \in 1..(n + 1) : r[j].terms = r[k].terms => j = k
    BY <1>1, <1>5, <1>7, <2>2, <2>5 DEF ProgramsHold, OneEach
  <2>9. ProgramsHold(r, L)
    BY <2>2, <2>6, <2>7, <2>8 DEF ProgramsHold, OneEach
  <2>. QED
    BY <2>1, <2>9 DEF L
<1>. QED
  BY <1>6, <1>7

LEMMA ProgramTyped ==
    ASSUME NEW T, NEW X, NEW terms \in T, NEW pub \in X,
           NEW programs \in Seq([terms : T, keys : Seq(X)])
    PROVE  AddProgram(programs, terms, pub) \in Seq([terms : T, keys : Seq(X)])
<1>. DEFINE n == Len(programs)
            I == {i \in 1..n : programs[i].terms = terms}
            idx == SelectInSeq(programs, LAMBDA e : e.terms = terms)
            e0 == [terms |-> terms, keys |-> <<pub>>]
            E == [terms : T, keys : Seq(X)]
            Set(i) == [programs EXCEPT ![i].keys = Append(@, pub)]
<1>1. n \in Nat /\ DOMAIN programs = 1..n /\ \A i \in 1..n : programs[i] \in E
  <2>1. programs \in Seq(E)
    OBVIOUS
  <2>. HIDE DEF E
  <2>. QED  BY <2>1
<1>2. idx = IF I # {} THEN Min(I) ELSE 0
  BY DEF SelectInSeq
<1>3. I # {} => idx \in 1..n
  <2>1. SUFFICES ASSUME I # {} PROVE Min(I) \in I
    BY <1>2
  <2>2. PICK m \in I : \A k \in I : m <= k
    <3>1. I \in SUBSET Nat
      BY <1>1
    <3>. HIDE DEF I
    <3>. QED  BY <2>1, <3>1, LeastNat
  <2>. HIDE DEF I
  <2>. QED
    BY <2>2 DEF Min
<1>4. idx \in 0..n
  BY <1>1, <1>2, <1>3
<1>5. AddProgram(programs, terms, pub) =
         IF idx = 0 THEN Append(programs, e0)
         ELSE [programs EXCEPT ![idx].keys = Append(@, pub)]
  BY DEF AddProgram
<1>6. Append(programs, e0) \in Seq(E)
  <2>1. e0 \in E
    OBVIOUS
  <2>. HIDE DEF E, e0
  <2>2. programs \in Seq(E)
    BY DEF E
  <2>. QED
    BY <2>1, <2>2
<1>7. ASSUME NEW i \in 1..n PROVE Set(i) \in Seq(E)
  <2>. DEFINE e == [programs[i] EXCEPT !.keys = Append(@, pub)]
  <2>1. e \in E
    <3>1. programs[i] \in E
      BY <1>1
    <3>2. \A ks \in Seq(X) : Append(ks, pub) \in Seq(X)
      OBVIOUS
    <3>. QED
      BY <3>1, <3>2
  <2>2. Set(i) = [j \in 1..n |-> IF j = i THEN e ELSE programs[j]]
    BY <1>1
  <2>. HIDE DEF Set, E, n, e
  <2>3. Set(i) \in [1..n -> E]
    BY <1>1, <2>1, <2>2
  <2>. QED
    BY <1>1, <2>3
<1>8. AddProgram(programs, terms, pub) \in Seq(E)
  <2>. HIDE DEF idx, E, n, Set
  <2>1. idx = 0 \/ idx \in 1..n
    BY <1>1, <1>4
  <2>2. AddProgram(programs, terms, pub) = IF idx = 0 THEN Append(programs, e0) ELSE Set(idx)
    BY <1>5 DEF Set
  <2>. QED
    BY <1>6, <1>7, <2>1, <2>2
<1>. QED
  BY <1>8

OwnKeys(pub, terms) == {[terms |-> t, key |-> pub] : t \in terms}

\* A member's key is in the programs of its policy, after those who were there.
LEMMA ProgramsJoin ==
    ASSUME NEW programs, NEW K, NEW pub, NEW added, ProgramsHold(programs, K),
           IsSequence(added), IsInjective(added), \A t : pub \notin KeysOf(t, K)
    PROVE  ProgramsHold(FoldLeft(LAMBDA ps, terms : AddProgram(ps, terms, pub),
                                 programs, added),
                        K \cup OwnKeys(pub, ToSet(added)))
<1>. DEFINE n == Len(added)
            T == ToSet(added) \cup {programs[i].terms : i \in DOMAIN programs}
            X == {pub} \cup UNION {ToSet(programs[i].keys) : i \in DOMAIN programs}
            D == Seq([terms : T, keys : Seq(X)])
            next(a, k) == AddProgram(a, added[k], pub)
            step == [x \in (1..n) \X D |-> next(x[2], x[1])]
            Is(g) == g = [u \in SUBSET DOMAIN added |->
                            IF u = {} THEN programs ELSE next(g[u \ {Max(u)}], Max(u))]
            h == CHOOSE g : Is(g)
<1>1. /\ n \in Nat /\ DOMAIN added = 1..n
      /\ \A k \in 1..n : added[k] \in ToSet(added) /\ added[k] \in T
  BY DEF IsSequence, ToSet
<1>2. FoldLeft(LAMBDA ps, terms : AddProgram(ps, terms, pub), programs, added) = h[DOMAIN added]
  BY DEF FoldLeft, MapThenFoldSet
<1>3. programs \in D
  <2>1. programs \in [1..Len(programs) -> [terms : T, keys : Seq(X)]]
    <3>1. DOMAIN programs = 1..Len(programs) /\ programs = [i \in DOMAIN programs |-> programs[i]]
      BY DEF ProgramsHold, IsSequence
    <3>2. ASSUME NEW i \in DOMAIN programs PROVE programs[i] \in [terms : T, keys : Seq(X)]
      <4>1. programs[i].terms \in T
        OBVIOUS
      <4>2. programs[i].keys \in Seq(X)
        <5>1. programs[i].keys \in Seq(ToSet(programs[i].keys))
          BY DEF ProgramsHold, IsSequence
        <5>2. ToSet(programs[i].keys) \subseteq X
          OBVIOUS
        <5>. HIDE DEF X
        <5>. QED  BY <5>1, <5>2
      <4>3. programs[i] = [terms |-> programs[i].terms, keys |-> programs[i].keys]
        BY DEF ProgramsHold
      <4>. HIDE DEF T, X
      <4>. QED  BY <4>1, <4>2, <4>3
    <3>. HIDE DEF T, X
    <3>. QED  BY <3>1, <3>2
  <2>2. Len(programs) \in Nat
    BY DEF ProgramsHold, IsSequence
  <2>. DEFINE E == [terms : T, keys : Seq(X)]
  <2>. HIDE DEF E
  <2>3. programs \in [1..Len(programs) -> E]
    BY <2>1 DEF E
  <2>4. programs \in Seq(E)
    BY <2>2, <2>3
  <2>. QED  BY <2>4 DEF E
<1>4. step \in [(1..n) \X D -> D]
  <2>1. pub \in X
    OBVIOUS
  <2>2. ASSUME NEW k \in 1..n, NEW a \in D PROVE next(a, k) \in D
    <3>. HIDE DEF T, X
    <3>. QED  BY <1>1, <2>1, ProgramTyped
  <2>. HIDE DEF D, next
  <2>. QED  BY <2>2
<1>5. \A k \in 1..n, a \in D : step[<<k, a>>] = next(a, k)
  OBVIOUS
<1>. HIDE DEF n, step, D
<1>6. PICK G \in [SUBSET (1..n) -> D] : Folds(G, step, programs, n)
  BY <1>1, <1>3, <1>4, FoldsExist
<1>7. Is(G)
  <2>1. ASSUME NEW u \in SUBSET (1..n), u # {}
        PROVE  G[u] = next(G[u \ {Max(u)}], Max(u))
    <3>1. Max(u) \in 1..n /\ G[u \ {Max(u)}] \in D
      BY <1>1, <2>1, MaxIs
    <3>2. G[u] = step[<<Max(u), G[u \ {Max(u)}]>>]
      BY <1>6, <2>1 DEF Folds
    <3>. HIDE DEF next
    <3>. QED
      BY <3>1, <3>2, <1>5
  <2>2. G[{}] = programs
    BY <1>6 DEF Folds
  <2>3. G = [u \in SUBSET (1..n) |-> G[u]]
    OBVIOUS
  <2>. HIDE DEF next
  <2>. QED
    BY <1>1, <2>1, <2>2, <2>3
<1>8. Is(h)
  <2>. HIDE DEF Is
  <2>. QED  BY <1>7
<1>9. Follows(h, step, programs, D, n)
  <2>. HIDE DEF h, next
  <2>1. h[{}] = programs
    BY <1>8
  <2>2. ASSUME NEW u \in SUBSET (1..n), u # {}, h[u \ {Max(u)}] \in D
        PROVE  h[u] = step[<<Max(u), h[u \ {Max(u)}]>>]
    <3>1. h[u] = next(h[u \ {Max(u)}], Max(u))
      BY <1>1, <1>8, <2>2
    <3>2. Max(u) \in 1..n
      BY <1>1, <2>2, MaxIs
    <3>. QED
      BY <3>1, <3>2, <2>2, <1>5
  <2>. QED
    BY <1>1, <1>3, <1>4, <2>1, <2>2 DEF Follows
<1>10. PICK P : Steps(P, step, programs, D, n) /\ P[n] = h[1..n]
  <2>. HIDE DEF h
  <2>. QED  BY <1>9, PrefixSteps
<1>11. \A k \in 1..n : P[k] = next(P[k - 1], k)
  <2>1. ASSUME NEW k \in 1..n PROVE P[k] = next(P[k - 1], k)
    <3>1. k - 1 \in 0..n
      BY <1>1
    <3>2. P[k - 1] \in D /\ P[k] = step[<<k, P[k - 1]>>]
      BY <3>1, <1>10 DEF Steps
    <3>. HIDE DEF next
    <3>. QED
      BY <3>2, <1>5
  <2>. QED
    BY <2>1
<1>12. P[0] = programs
  BY <1>10 DEF Steps
<1>. DEFINE Keys(k) == K \cup OwnKeys(pub, {added[i] : i \in 1..k})
            U == {k \in 0..n : ~ProgramsHold(P[k], Keys(k))}
<1>. HIDE DEF h, T, X
<1>13. ProgramsHold(P[0], Keys(0))
  <2>1. 1..0 = {}
    OBVIOUS
  <2>2. Keys(0) = K
    BY <2>1 DEF OwnKeys
  <2>. QED
    BY <1>12, <2>2
<1>14. ASSUME NEW k \in 1..n, ProgramsHold(P[k - 1], Keys(k - 1)) PROVE ProgramsHold(P[k], Keys(k))
  <2>1. 1..k = (1..(k - 1)) \cup {k} /\ k \notin 1..(k - 1) /\ \A i \in 1..k : i \in 1..n
    BY <1>1
  <2>2. Keys(k) = Keys(k - 1) \cup {[terms |-> added[k], key |-> pub]}
    BY <2>1 DEF OwnKeys
  <2>3. pub \notin KeysOf(added[k], Keys(k - 1))
    <3>1. \A i \in 1..(k - 1) : added[i] # added[k]
      BY <1>1, <2>1 DEF IsInjective
    <3>2. ASSUME NEW x \in Keys(k - 1), x.terms = added[k], x.key = pub PROVE FALSE
      <4>1. x \notin K
        BY <3>2, KeyIs
      <4>2. x \in OwnKeys(pub, {added[i] : i \in 1..(k - 1)})
        BY <4>1
      <4>3. PICK i \in 1..(k - 1) : x = [terms |-> added[i], key |-> pub]
        BY <4>2 DEF OwnKeys
      <4>. QED
        BY <3>1, <3>2, <4>3
    <3>. HIDE DEF Keys
    <3>. QED
      BY <3>2, KeyIs
  <2>. HIDE DEF Keys
  <2>. QED
    BY <1>11, <1>14, <2>2, <2>3, ProgramAdded
<1>15. U = {}
  <2>1. SUFFICES ASSUME U # {} PROVE FALSE
    OBVIOUS
  <2>2. PICK m \in U : \A k \in U : m <= k
    <3>1. U \in SUBSET Nat
      OBVIOUS
    <3>. HIDE DEF U
    <3>. QED  BY <2>1, <3>1, LeastNat
  <2>. HIDE DEF Keys
  <2>3. m \in 1..n /\ m - 1 \in 0..n /\ m - 1 < m
    BY <1>13, <2>2, <1>1
  <2>4. ProgramsHold(P[m - 1], Keys(m - 1))
    BY <2>2, <2>3
  <2>. QED
    BY <1>14, <2>2, <2>3, <2>4
<1>16. ProgramsHold(P[n], Keys(n))
  <2>. HIDE DEF Keys
  <2>1. n \in 0..n
    BY <1>1
  <2>. QED
    BY <1>15, <2>1
<1>17. {added[i] : i \in 1..n} = ToSet(added)
  BY <1>1 DEF ToSet
<1>. QED
  BY <1>1, <1>2, <1>10, <1>16, <1>17

\* When a member leaves, its key goes from every program, and with it the
\* programs that nobody else has a key of.
LEMMA ProgramsLeave ==
    ASSUME NEW programs, NEW K, NEW pub, ProgramsHold(programs, K)
    PROVE  LET kept == Filter(programs, Joint(pub, programs)) IN
           ProgramsHold([i \in DOMAIN kept |-> [kept[i] EXCEPT !.keys = RemoveFirst(@, pub)]],
                        {k \in K : k.key # pub})
<1>. DEFINE kept == Filter(programs, Joint(pub, programs))
            r == [i \in DOMAIN kept |-> [kept[i] EXCEPT !.keys = RemoveFirst(@, pub)]]
            L == {k \in K : k.key # pub}
            n == Len(programs)
            m == Len(kept)
<1>1. /\ n \in Nat /\ DOMAIN programs = 1..n /\ programs \in Seq(ToSet(programs))
      /\ \A i \in 1..n :
           /\ programs[i] \in ToSet(programs)
           /\ programs[i] = [terms |-> programs[i].terms, keys |-> programs[i].keys]
           /\ IsSequence(programs[i].keys) /\ IsInjective(programs[i].keys)
           /\ ToSet(programs[i].keys) = KeysOf(programs[i].terms, K)
      /\ \A i, j \in 1..n : programs[i].terms = programs[j].terms => i = j
      /\ \A k \in K : \E i \in 1..n : programs[i].terms = k.terms
  <2>1. n \in Nat /\ DOMAIN programs = 1..n /\ programs \in Seq(ToSet(programs))
    BY DEF ProgramsHold, IsSequence
  <2>2. \A i \in 1..n : programs[i] \in ToSet(programs)
    BY <2>1 DEF ToSet
  <2>. HIDE DEF n
  <2>3. \A i \in 1..n :
           /\ programs[i] = [terms |-> programs[i].terms, keys |-> programs[i].keys]
           /\ IsSequence(programs[i].keys) /\ IsInjective(programs[i].keys)
           /\ ToSet(programs[i].keys) = KeysOf(programs[i].terms, K)
    BY <2>1 DEF ProgramsHold, EntriesAre
  <2>4. /\ \A i, j \in 1..n : programs[i].terms = programs[j].terms => i = j
        /\ \A k \in K : \E i \in 1..n : programs[i].terms = k.terms
    BY <2>1 DEF ProgramsHold, OneEach
  <2>. QED
    BY <2>1, <2>2, <2>3, <2>4
<1>2. PICK f : Picks(f, programs, kept, n, Joint(pub, programs))
  BY <1>1, FilterPicks
<1>3. m \in Nat /\ DOMAIN kept = 1..m
  <2>1. kept \in Seq(ToSet(programs))
    BY <1>1, FilterPicks
  <2>. HIDE DEF kept
  <2>. QED
    BY <2>1
<1>. HIDE DEF kept, n, m
<1>4. /\ f \in [1..m -> 1..n]
      /\ \A i \in 1..m : kept[i] = programs[f[i]]
      /\ \A i, j \in 1..m : i < j => f[i] < f[j]
      /\ \A k \in 1..n : programs[k] \in Joint(pub, programs) => \E i \in 1..m : f[i] = k
  BY <1>2 DEF Picks, m
<1>5. \A i, j \in 1..m : f[i] = f[j] => i = j
  <2>1. ASSUME NEW i \in 1..m, NEW j \in 1..m, f[i] = f[j], i < j PROVE FALSE
    <3>1. f[i] < f[j] /\ f[i] \in 1..n /\ f[j] \in 1..n
      BY <1>4, <2>1
    <3>. QED
      BY <2>1, <3>1, <1>1
  <2>2. \A i, j \in 1..m : i < j \/ j < i \/ i = j
    BY <1>3
  <2>. QED
    BY <2>1, <2>2
<1>6. ASSUME NEW i \in 1..m
      PROVE  /\ f[i] \in 1..n
             /\ r[i] = [terms |-> programs[f[i]].terms,
                        keys |-> RemoveFirst(programs[f[i]].keys, pub)]
             /\ r[i].terms = programs[f[i]].terms
             /\ r[i].keys = RemoveFirst(programs[f[i]].keys, pub)
  <2>. DEFINE e == programs[f[i]]
  <2>1. f[i] \in 1..n /\ kept[i] = e /\ e = [terms |-> e.terms, keys |-> e.keys]
    BY <1>1, <1>4
  <2>2. r[i] = [kept[i] EXCEPT !.keys = RemoveFirst(@, pub)]
    BY <1>3
  <2>3. [[terms |-> e.terms, keys |-> e.keys] EXCEPT !.keys = RemoveFirst(@, pub)]
           = [terms |-> e.terms, keys |-> RemoveFirst(e.keys, pub)]
    OBVIOUS
  <2>. HIDE DEF e, r
  <2>4. r[i] = [terms |-> e.terms, keys |-> RemoveFirst(e.keys, pub)]
    BY <2>1, <2>2, <2>3
  <2>. QED
    BY <2>1, <2>4 DEF e
<1>7. DOMAIN r = 1..m
  BY <1>3
<1>8. IsSequence(r)
  <2>1. \A i \in 1..m : r[i] \in ToSet(r)
    BY <1>7 DEF ToSet
  <2>2. r = [i \in 1..m |-> [kept[i] EXCEPT !.keys = RemoveFirst(@, pub)]]
    BY <1>3
  <2>3. r = [i \in 1..m |-> r[i]]
    BY <2>2
  <2>. HIDE DEF r
  <2>4. r \in [1..m -> ToSet(r)]
    BY <2>1, <2>3
  <2>. QED
    BY <1>3, <2>4 DEF IsSequence
<1>. HIDE DEF r
<1>9. \A t : KeysOf(t, L) = KeysOf(t, K) \ {pub}
  <2>1. ASSUME NEW t, NEW x PROVE x \in KeysOf(t, L) <=> x \in KeysOf(t, K) /\ x # pub
    <3>1. \A k : k \in L <=> k \in K /\ k.key # pub
      OBVIOUS
    <3>. HIDE DEF L
    <3>. QED
      BY <3>1, KeyIs
  <2>. QED
    BY <2>1
<1>. HIDE DEF L
<1>10. ASSUME NEW i \in 1..m
       PROVE  /\ r[i] = [terms |-> r[i].terms, keys |-> r[i].keys]
              /\ IsSequence(r[i].keys)
              /\ EntriesAre(r[i].keys, KeysOf(r[i].terms, L))
  <2>. DEFINE ks == programs[f[i]].keys
  <2>1. /\ IsSequence(ks) /\ IsInjective(ks) /\ ToSet(ks) = KeysOf(r[i].terms, K)
        /\ r[i].keys = RemoveFirst(ks, pub)
    <3>1. f[i] \in 1..n /\ r[i].terms = programs[f[i]].terms /\ r[i].keys = RemoveFirst(ks, pub)
      BY <1>6
    <3>2. \A j \in 1..n : /\ IsSequence(programs[j].keys) /\ IsInjective(programs[j].keys)
                          /\ ToSet(programs[j].keys) = KeysOf(programs[j].terms, K)
      BY <1>1
    <3>. QED
      BY <3>1, <3>2
  <2>. HIDE DEF ks
  <2>2. /\ IsSequence(RemoveFirst(ks, pub)) /\ IsInjective(RemoveFirst(ks, pub))
        /\ ToSet(RemoveFirst(ks, pub)) = ToSet(ks) \ {pub}
    BY <2>1, RemoveFirstIs
  <2>3. IsSequence(r[i].keys) /\ IsInjective(r[i].keys) /\ ToSet(r[i].keys) = KeysOf(r[i].terms, L)
    BY <1>9, <2>1, <2>2
  <2>. QED
    BY <1>6, <2>3 DEF EntriesAre
<1>11. OneEach(r)
  BY <1>1, <1>5, <1>6, <1>7 DEF OneEach
<1>12. ASSUME NEW k \in L PROVE \E i \in 1..m : r[i].terms = k.terms
  <2>1. k \in K /\ k.key # pub
    BY <1>12 DEF L
  <2>2. PICK j \in 1..n : programs[j].terms = k.terms
    BY <1>1, <2>1
  <2>. DEFINE ks == programs[j].keys
  <2>3. ~(Len(ks) = 1 /\ Contains(ks, pub))
    <3>1. SUFFICES ASSUME Len(ks) = 1, Contains(ks, pub) PROVE FALSE
      OBVIOUS
    <3>2. DOMAIN ks = {1}
      <4>1. DOMAIN ks = 1..1
        BY <1>1, <3>1 DEF IsSequence
      <4>. QED
        BY <4>1
    <3>3. \A x \in ToSet(ks) : x = ks[1]
      <4>. HIDE DEF ks
      <4>. QED  BY <3>2 DEF ToSet
    <3>4. pub \in ToSet(ks)
      <4>. HIDE DEF ks
      <4>. QED  BY <3>1, <3>2 DEF ToSet, Contains
    <3>5. k.key \in ToSet(ks)
      BY <1>1, <2>1, <2>2, KeyIs
    <3>. QED
      BY <2>1, <3>3, <3>4, <3>5
  <2>4. programs[j] \in Joint(pub, programs)
    BY <1>1, <2>3 DEF Joint
  <2>5. PICK i \in 1..m : f[i] = j
    BY <1>4, <2>4
  <2>. QED
    BY <1>6, <2>2, <2>5
<1>13. ProgramsHold(r, L)
  BY <1>7, <1>8, <1>10, <1>11, <1>12 DEF ProgramsHold
<1>. QED
  BY <1>13 DEF r, L, kept

-----------------------------------------------------------------------------
(* The proposal of a set of members *)

Members == [pub : Signers, pid : Roles]

OneSeat(M) == \A m, n \in M : m.pub = n.pub => m = n

PathsIn(M) == ToSet(Template.paths) \cup UNION {PathsOf(m) : m \in M}

PaymentsIn(M) ==
    ToSet(Template.payments) \cup {PaymentOf(m) : m \in {m \in M : Policy[m.pid].payment > 0}}

KeysIn(M) ==
    (UNION {OwnKeys(m.pub, ToSet(Policy[m.pid].programs)) : m \in M})
    \cup UNION {{[terms |-> e.terms, key |-> x] : x \in ToSet(e.keys)} :
                  e \in ToSet(Template.programs)}

ProposalIs(proposal, M) ==
    /\ proposal = [paths |-> proposal.paths, payments |-> proposal.payments,
                   programs |-> proposal.programs]
    /\ IsSequence(proposal.paths) /\ EntriesAre(proposal.paths, PathsIn(M))
    /\ IsSequence(proposal.payments) /\ PaymentsAre(proposal.payments, PaymentsIn(M))
    /\ ProgramsHold(proposal.programs, KeysIn(M))

\* Whose the entries are.
LEMMA PathWallet ==
    ASSUME NEW m \in Members, NEW e \in PathsOf(m)
    PROVE  /\ e.addr.wallet = m.pub /\ e.amount \in Int
           /\ \E i \in DOMAIN Policy[m.pid].paths : e.addr.idx = i - 1
<1>1. PICK i \in DOMAIN Policy[m.pid].paths :
        e = [label |-> Policy[m.pid].paths[i].label, amount |-> Policy[m.pid].paths[i].amount,
             addr |-> NewAddress(m.pub, i - 1)]
  BY DEF PathsOf
<1>2. e.amount = Policy[m.pid].paths[i].amount /\ e.addr = NewAddress(m.pub, i - 1)
  BY <1>1
<1>3. m.pid \in Roles
  BY DEF Members
<1>4. Policy[m.pid].paths[i].amount \in Int
  BY <1>3, PolicyAssumption
<1>. QED
  BY <1>2, <1>4 DEF NewAddress

LEMMA TemplateWallet ==
    ASSUME NEW e \in ToSet(Template.paths) \cup ToSet(Template.payments)
    PROVE  e.addr.wallet \notin Signers /\ e.amount \in Int
<1>1. CASE e \in ToSet(Template.paths)
  BY <1>1, TemplateAssumption DEF ToSet
<1>2. CASE e \in ToSet(Template.payments)
  BY <1>2, TemplateAssumption DEF ToSet
<1>. QED
  BY <1>1, <1>2

LEMMA PaymentWallet ==
    ASSUME NEW m \in Members
    PROVE  /\ PaymentOf(m).addr.wallet = m.pub
           /\ PaymentOf(m).addr.idx = Len(Policy[m.pid].paths) /\ Len(Policy[m.pid].paths) \in Nat
           /\ PaymentOf(m).amount = Policy[m.pid].payment /\ Policy[m.pid].payment \in Nat
BY PolicyAssumption DEF PaymentOf, NewAddress, Members, IsSequence

\* A payment left behind is one after paths.
LEMMA StrayIs ==
    /\ \A e \in Strays : e.addr.idx \in Nat /\ e.addr.idx > 0 /\ e.amount \in Int
    /\ \A m \in Members : Policy[m.pid].payment > 0 =>
         (PaymentOf(m) \in Strays <=> Len(Policy[m.pid].paths) > 0)
<1>1. ASSUME NEW e \in Strays
      PROVE  e.addr.idx \in Nat /\ e.addr.idx > 0 /\ e.amount \in Int
  <2>1. PICK p \in Signers, role \in Roles :
          e = PaymentOf([pub |-> p, pid |-> role]) /\ Policy[role].paths # <<>>
    BY DEF Strays
  <2>. DEFINE m == [pub |-> p, pid |-> role]
  <2>2. m \in Members /\ m.pid = role
    BY DEF Members
  <2>3. Len(Policy[role].paths) \in Nat /\ Len(Policy[role].paths) > 0
    <3>. DEFINE paths == Policy[role].paths
    <3>1. paths \in Seq(ToSet(paths)) /\ paths # <<>>
      BY <2>1, PolicyAssumption DEF IsSequence
    <3>. HIDE DEF paths
    <3>2. Len(paths) \in Nat /\ Len(paths) # 0
      BY <3>1, EmptySeq
    <3>. QED
      BY <3>2 DEF paths
  <2>. HIDE DEF m
  <2>4. e.addr.idx = Len(Policy[m.pid].paths) /\ e.amount \in Nat
    BY <2>1, <2>2, PaymentWallet DEF m
  <2>. QED
    BY <2>2, <2>3, <2>4
<1>2. ASSUME NEW m \in Members, Policy[m.pid].payment > 0, Len(Policy[m.pid].paths) > 0
      PROVE  PaymentOf(m) \in Strays
  <2>1. m = [pub |-> m.pub, pid |-> m.pid] /\ m.pub \in Signers /\ m.pid \in Roles
    BY DEF Members
  <2>2. Policy[m.pid].paths # <<>>
    BY <1>2
  <2>. QED
    BY <1>2, <2>1, <2>2 DEF Strays
<1>3. ASSUME NEW m \in Members, PaymentOf(m) \in Strays PROVE Len(Policy[m.pid].paths) > 0
  BY <1>1, <1>3, PaymentWallet
<1>. QED
  BY <1>1, <1>2, <1>3

\* The template is the proposal of nobody.
LEMMA TemplateIs == ProposalIs(Template, {})
<1>1. PathsIn({}) = ToSet(Template.paths)
  BY DEF PathsIn
<1>2. PaymentsIn({}) = ToSet(Template.payments)
  BY DEF PaymentsIn
<1>3. /\ Template = [paths |-> Template.paths, payments |-> Template.payments,
                     programs |-> Template.programs]
      /\ IsSequence(Template.paths) /\ IsInjective(Template.paths)
      /\ IsSequence(Template.payments) /\ IsInjective(Template.payments)
  BY TemplateAssumption
<1>4. ProgramsHold(Template.programs, KeysIn({}))
  <2>. DEFINE ps == Template.programs
              K == KeysIn({})
  <2>1. /\ IsSequence(ps) /\ OneEach(ps)
        /\ \A i \in DOMAIN ps : /\ ps[i] = [terms |-> ps[i].terms, keys |-> ps[i].keys]
                                /\ IsSequence(ps[i].keys) /\ IsInjective(ps[i].keys)
    BY TemplateAssumption DEF OneEach
  <2>2. \A x : x \in K <=> \E e \in ToSet(ps) : \E y \in ToSet(e.keys) : x = [terms |-> e.terms, key |-> y]
    BY DEF KeysIn
  <2>. HIDE DEF ps, K
  <2>3. \A x : x \in K <=> \E i \in DOMAIN ps : \E y \in ToSet(ps[i].keys) : x = [terms |-> ps[i].terms, key |-> y]
    BY <2>2 DEF ToSet
  <2>4. ASSUME NEW i \in DOMAIN ps PROVE ToSet(ps[i].keys) = KeysOf(ps[i].terms, K)
    <3>1. ASSUME NEW y \in ToSet(ps[i].keys) PROVE y \in KeysOf(ps[i].terms, K)
      <4>. DEFINE x == [terms |-> ps[i].terms, key |-> y]
      <4>1. x \in K /\ x.terms = ps[i].terms /\ x.key = y
        BY <2>3
      <4>. HIDE DEF x
      <4>. QED
        BY <4>1, KeyIs
    <3>2. ASSUME NEW y \in KeysOf(ps[i].terms, K) PROVE y \in ToSet(ps[i].keys)
      <4>1. PICK x \in K : x.terms = ps[i].terms /\ x.key = y
        BY KeyIs
      <4>2. PICK j \in DOMAIN ps : \E z \in ToSet(ps[j].keys) : x = [terms |-> ps[j].terms, key |-> z]
        BY <2>3
      <4>3. PICK z \in ToSet(ps[j].keys) : x = [terms |-> ps[j].terms, key |-> z]
        BY <4>2
      <4>4. x.terms = ps[j].terms /\ x.key = z
        BY <4>3
      <4>5. i = j
        BY <2>1, <4>1, <4>4 DEF OneEach
      <4>. QED
        BY <4>1, <4>3, <4>4, <4>5
    <3>. QED
      BY <3>1, <3>2
  <2>5. \A k \in K : \E i \in DOMAIN ps : ps[i].terms = k.terms
    BY <2>3
  <2>6. ProgramsHold(ps, K)
    BY <2>1, <2>4, <2>5 DEF ProgramsHold, EntriesAre
  <2>. QED
    BY <2>6 DEF ps, K
<1>5. PaymentsAre(Template.payments, PaymentsIn({}))
  BY <1>2, <1>3 DEF PaymentsAre, IsInjective
<1>. QED
  BY <1>1, <1>3, <1>4, <1>5 DEF ProposalIs, EntriesAre

NoMember(m, M) == \A k \in M : k.pub # m.pub

\* One payment more, of which only one left behind may be there already.
LEMMA PaymentAdded ==
    ASSUME NEW a, IsSequence(a), NEW expected, PaymentsAre(a, expected),
           NEW e, e \in ToSet(a) => e \in Strays
    PROVE  IsSequence(Append(a, e)) /\ PaymentsAre(Append(a, e), expected \cup {e})
<1>. DEFINE r == Append(a, e)
            n == Len(a)
<1>1. /\ IsSequence(r) /\ ToSet(r) = ToSet(a) \cup {e} /\ n \in Nat
      /\ DOMAIN a = 1..n /\ DOMAIN r = 1..(n + 1)
      /\ \A k \in 1..n : r[k] = a[k] /\ a[k] \in ToSet(a)
      /\ r[n + 1] = e
      /\ \A k \in 1..(n + 1) : k \in 1..n \/ k = n + 1
  <2>1. n \in Nat /\ DOMAIN a = 1..n
    BY AppendIs
  <2>2. \A k \in 1..n : a[k] \in ToSet(a)
    BY <2>1 DEF ToSet
  <2>3. \A k \in 1..(n + 1) : k \in 1..n \/ k = n + 1
    BY <2>1
  <2>4. /\ IsSequence(r) /\ ToSet(r) = ToSet(a) \cup {e} /\ DOMAIN r = 1..(n + 1)
        /\ r[n + 1] = e /\ \A k \in 1..n : r[k] = a[k]
    BY AppendIs
  <2>. HIDE DEF r, n
  <2>. QED
    BY <2>1, <2>2, <2>3, <2>4
<1>. HIDE DEF r, n
<1>2. expected \cup {e} \subseteq ToSet(r) /\ ToSet(r) \subseteq (expected \cup {e}) \cup Strays
  BY <1>1 DEF PaymentsAre
<1>3. ASSUME NEW i \in 1..(n + 1), NEW j \in 1..(n + 1), r[i] = r[j], r[i] \notin Strays
      PROVE  i = j
  <2>1. CASE i \in 1..n /\ j \in 1..n
    BY <1>1, <1>3, <2>1 DEF PaymentsAre
  <2>2. CASE i = n + 1 /\ j \in 1..n
    BY <1>1, <1>3, <2>2
  <2>3. CASE i \in 1..n /\ j = n + 1
    BY <1>1, <1>3, <2>3
  <2>. QED
    BY <1>1, <2>1, <2>2, <2>3
<1>4. PaymentsAre(r, expected \cup {e})
  BY <1>1, <1>2, <1>3 DEF PaymentsAre
<1>. QED
  BY <1>1, <1>4 DEF r

\* add_member_data(): the proposal of the members and of the one that joins.
LEMMA JoinIs ==
    ASSUME NEW M \in SUBSET Members, NEW m \in Members, NEW proposal, ProposalIs(proposal, M),
           NoMember(m, M)
    PROVE  ProposalIs(AddMemberData(m.pub, Policy[m.pid], proposal), M \cup {m})
<1>. DEFINE pub == m.pub
            policy == Policy[m.pid]
            L == M \cup {m}
            new == [i \in DOMAIN policy.paths |->
                       [label |-> policy.paths[i].label, amount |-> policy.paths[i].amount,
                        addr |-> NewAddress(pub, i - 1)]]
            result == AddMemberData(pub, policy, proposal)
<1>1. /\ pub \in Signers /\ m.pid \in Roles /\ \A k \in M : k \in Members /\ k.pub # pub /\ k.pub \in Signers
      /\ \A k \in Members : k.pub \in Signers
  BY DEF Members, NoMember
<1>2. /\ IsSequence(policy.paths) /\ IsSequence(policy.programs) /\ IsInjective(policy.programs)
      /\ policy.payment \in Nat
  BY <1>1, PolicyAssumption
<1>3. /\ result = [paths |-> result.paths, payments |-> result.payments, programs |-> result.programs]
      /\ result.paths = proposal.paths \o new
      /\ result.payments = IF policy.payment = 0 THEN proposal.payments
                           ELSE Append(proposal.payments,
                                       [amount |-> policy.payment,
                                        addr |-> NewAddress(pub, Len(policy.paths))])
      /\ result.programs = FoldLeft(LAMBDA programs, terms : AddProgram(programs, terms, pub),
                                    proposal.programs, policy.programs)
  BY DEF AddMemberData
<1>4. IsSequence(result.paths) /\ EntriesAre(result.paths, PathsIn(L))
  <2>1. ToSet(new) = PathsOf(m)
    BY DEF PathsOf, ToSet
  <2>2. IsSequence(new)
    <3>1. DOMAIN policy.paths = 1..Len(policy.paths) /\ Len(policy.paths) \in Nat
      BY <1>2 DEF IsSequence
    <3>2. \A i \in DOMAIN new : new[i] \in ToSet(new)
      BY DEF ToSet
    <3>3. DOMAIN new = 1..Len(policy.paths) /\ new = [i \in DOMAIN new |-> new[i]]
      BY <3>1
    <3>. HIDE DEF new, policy
    <3>4. new \in [1..Len(policy.paths) -> ToSet(new)]
      BY <3>2, <3>3
    <3>. QED
      BY <3>1, <3>4 DEF IsSequence
  <2>3. IsInjective(new)
    <3>1. \A i \in DOMAIN new : new[i].addr.idx = i - 1 /\ i \in Int
      BY <1>2 DEF NewAddress, IsSequence
    <3>. HIDE DEF new
    <3>2. ASSUME NEW i \in DOMAIN new, NEW j \in DOMAIN new, new[i] = new[j] PROVE i = j
      BY <3>1, <3>2
    <3>. QED
      BY <3>2 DEF IsInjective
  <2>4. ToSet(new) \cap PathsIn(M) = {}
    <3>1. \A e \in PathsOf(m) : e.addr.wallet = pub
      BY PathWallet
    <3>2. ASSUME NEW e \in PathsIn(M) PROVE e.addr.wallet # pub
      <4>1. CASE e \in ToSet(Template.paths)
        BY <1>1, <4>1, TemplateWallet
      <4>2. ASSUME NEW k \in M, e \in PathsOf(k) PROVE e.addr.wallet # pub
        BY <1>1, <4>2, PathWallet
      <4>. QED
        BY <4>1, <4>2 DEF PathsIn
    <3>. QED
      BY <2>1, <3>1, <3>2
  <2>. HIDE DEF new, result
  <2>5. IsSequence(proposal.paths) /\ IsInjective(proposal.paths) /\ ToSet(proposal.paths) = PathsIn(M)
    BY DEF ProposalIs, EntriesAre
  <2>6. /\ IsSequence(result.paths) /\ IsInjective(result.paths)
        /\ ToSet(result.paths) = PathsIn(M) \cup PathsOf(m)
    <3>. DEFINE a == proposal.paths
    <3>1. IsSequence(a) /\ IsInjective(a) /\ ToSet(a) = PathsIn(M) /\ result.paths = a \o new
      BY <1>3, <2>5
    <3>. HIDE DEF a
    <3>2. IsSequence(a \o new) /\ ToSet(a \o new) = ToSet(a) \cup ToSet(new)
      BY <2>2, <3>1, ConcatIs
    <3>3. IsInjective(a \o new)
      BY <2>2, <2>3, <2>4, <3>1, ConcatInjective
    <3>. QED
      BY <2>1, <3>1, <3>2, <3>3
  <2>7. PathsIn(L) = PathsIn(M) \cup PathsOf(m)
    BY DEF PathsIn
  <2>. QED
    BY <2>6, <2>7 DEF EntriesAre
<1>5. IsSequence(result.payments) /\ PaymentsAre(result.payments, PaymentsIn(L))
  <2>. HIDE DEF result, new
  <2>. DEFINE a == proposal.payments
  <2>1. IsSequence(a) /\ PaymentsAre(a, PaymentsIn(M))
    BY DEF ProposalIs
  <2>2. CASE policy.payment = 0
    <3>1. PaymentsIn(L) = PaymentsIn(M)
      BY <2>2 DEF PaymentsIn
    <3>. QED
      BY <1>3, <2>1, <2>2, <3>1
  <2>3. CASE policy.payment > 0
    <3>. DEFINE e == PaymentOf(m)
    <3>1. result.payments = Append(a, e)
      <4>1. policy.payment # 0
        BY <1>2, <2>3
      <4>2. e = [amount |-> policy.payment, addr |-> NewAddress(pub, Len(policy.paths))]
        BY DEF PaymentOf
      <4>. HIDE DEF e, a, policy, pub
      <4>. QED
        BY <1>3, <4>1, <4>2 DEF a
    <3>2. PaymentsIn(L) = PaymentsIn(M) \cup {e}
      BY <2>3 DEF PaymentsIn
    <3>3. e \in ToSet(a) => e \in Strays
      <4>1. e.addr.wallet = pub
        BY PaymentWallet
      <4>2. ASSUME NEW x \in PaymentsIn(M) PROVE x.addr.wallet # pub
        <5>1. CASE x \in ToSet(Template.payments)
          BY <1>1, <5>1, TemplateWallet
        <5>2. ASSUME NEW k \in M, x = PaymentOf(k) PROVE x.addr.wallet # pub
          BY <1>1, <5>2, PaymentWallet
        <5>. QED
          BY <5>1, <5>2 DEF PaymentsIn
      <4>. HIDE DEF e
      <4>. QED
        BY <2>1, <4>1, <4>2 DEF PaymentsAre
    <3>. HIDE DEF a, e
    <3>4. IsSequence(Append(a, e)) /\ PaymentsAre(Append(a, e), PaymentsIn(M) \cup {e})
      BY <2>1, <3>3, PaymentAdded
    <3>. QED
      BY <3>1, <3>2, <3>4
  <2>. QED
    BY <1>2, <2>2, <2>3
<1>6. ProgramsHold(result.programs, KeysIn(L))
  <2>. DEFINE added == policy.programs
              programs == proposal.programs
              K == KeysIn(M)
  <2>1. KeysIn(L) = K \cup OwnKeys(pub, ToSet(added))
    BY DEF KeysIn
  <2>2. ProgramsHold(programs, K) /\ IsSequence(added) /\ IsInjective(added)
    BY <1>2 DEF ProposalIs
  <2>3. ASSUME NEW k \in K PROVE k.key # pub
    <3>1. ASSUME NEW n \in M, k \in OwnKeys(n.pub, ToSet(Policy[n.pid].programs)) PROVE k.key # pub
      BY <1>1, <3>1 DEF OwnKeys
    <3>2. ASSUME NEW e \in ToSet(Template.programs), NEW x \in ToSet(e.keys), k = [terms |-> e.terms, key |-> x]
          PROVE  k.key # pub
      <4>1. PICK i \in DOMAIN Template.programs : e = Template.programs[i]
        BY DEF ToSet
      <4>2. ToSet(e.keys) \cap Signers = {}
        BY <4>1, TemplateAssumption
      <4>. QED
        BY <1>1, <3>2, <4>2
    <3>. QED
      BY <3>1, <3>2 DEF KeysIn
  <2>. HIDE DEF added, programs, K, L
  <2>4. \A t : pub \notin KeysOf(t, K)
    BY <2>3, KeyIs
  <2>5. result.programs = FoldLeft(LAMBDA ps, terms : AddProgram(ps, terms, pub), programs, added)
    BY <1>3 DEF added, programs
  <2>. HIDE DEF pub, result
  <2>6. ProgramsHold(FoldLeft(LAMBDA ps, terms : AddProgram(ps, terms, pub), programs, added),
                     K \cup OwnKeys(pub, ToSet(added)))
    BY <2>2, <2>4, ProgramsJoin
  <2>. QED
    BY <2>1, <2>5, <2>6
<1>. HIDE DEF result
<1>7. ProposalIs(result, L)
  BY <1>3, <1>4, <1>5, <1>6 DEF ProposalIs
<1>. QED
  BY <1>7 DEF result

\* has_address() looks far enough: a member has no more paths than there are.
LEMMA PathsFound ==
    ASSUME NEW M \in SUBSET Members, NEW paths, IsSequence(paths), EntriesAre(paths, PathsIn(M)),
           NEW m \in M, NEW e \in PathsOf(m)
    PROVE  e.addr.idx < Len(paths)
<1>. DEFINE policy == Policy[m.pid].paths
            k == Len(policy)
            n == Len(paths)
            own(i) == [label |-> policy[i].label, amount |-> policy[i].amount,
                       addr |-> NewAddress(m.pub, i - 1)]
            f == [i \in 1..k |-> CHOOSE j \in 1..n : paths[j] = own(i)]
<1>1. k \in Nat /\ DOMAIN policy = 1..k
  BY PolicyAssumption DEF Members, IsSequence
<1>2. n \in Nat /\ DOMAIN paths = 1..n
  BY DEF IsSequence
<1>3. ASSUME NEW i \in 1..k PROVE \E j \in 1..n : paths[j] = own(i)
  <2>1. own(i) \in PathsIn(M)
    <3>1. i \in DOMAIN Policy[m.pid].paths
      BY <1>1
    <3>2. own(i) \in PathsOf(m)
      BY <3>1 DEF PathsOf
    <3>. QED
      BY <3>2 DEF PathsIn
  <2>. HIDE DEF own
  <2>. QED
    BY <1>2, <2>1 DEF EntriesAre, ToSet
<1>4. \A i \in 1..k : f[i] \in 1..n /\ paths[f[i]] = own(i)
  <2>. HIDE DEF own
  <2>. QED
    BY <1>3
<1>5. \A i, j \in 1..k : own(i) = own(j) => i = j
  <2>1. ASSUME NEW i \in 1..k, NEW j \in 1..k, own(i) = own(j) PROVE i = j
    <3>1. own(i).addr.idx = i - 1 /\ own(j).addr.idx = j - 1
      BY DEF NewAddress
    <3>2. i - 1 = j - 1
      BY <2>1, <3>1
    <3>. QED
      BY <1>1, <3>2
  <2>. QED
    BY <2>1
<1>6. f \in Injection(1..k, 1..n)
  <2>1. f \in [1..k -> 1..n]
    <3>. HIDE DEF own, k, n
    <3>. QED  BY <1>4
  <2>. HIDE DEF f, own
  <2>2. \A i, j \in 1..k : f[i] = f[j] => i = j
    BY <1>4, <1>5
  <2>. QED
    BY <2>1, <2>2 DEF Injection, IsInjective
<1>. HIDE DEF f, own, k, n
<1>7. k <= n
  <2>1. IsFiniteSet(1..n) /\ Cardinality(1..n) = n /\ Cardinality(1..k) = k
    BY <1>1, <1>2, FS_Interval
  <2>2. Cardinality(1..k) <= Cardinality(1..n)
    BY <1>6, <2>1, FS_Injection
  <2>. QED
    BY <2>1, <2>2
<1>8. PICK i \in 1..k : e.addr.idx = i - 1
  BY <1>1, PathWallet
<1>. QED
  BY <1>1, <1>2, <1>7, <1>8 DEF n

\* The expected entries are those of others; the rest are at addresses of pub
\* that has_address() looks at.
Apart(pub, entries, expected) ==
    /\ \A e \in expected : e \in ToSet(entries) /\ e.addr.wallet # pub
    /\ \A e \in ToSet(entries) \ expected : e.addr.wallet = pub /\ e.addr.idx < Len(entries)

\* What stays of the entries is what has the address of another.
LEMMA OthersStay ==
    ASSUME NEW pub, NEW entries, IsSequence(entries), IsInjective(entries),
           NEW expected, Apart(pub, entries, expected)
    PROVE  /\ IsSequence(Filter(entries, Others(pub, entries)))
           /\ EntriesAre(Filter(entries, Others(pub, entries)), expected)
<1>. DEFINE r == Filter(entries, Others(pub, entries))
<1>1. Others(pub, entries) = expected
  BY DEF Others, HasAddress, Apart
<1>2. entries \in Seq(ToSet(entries))
  BY DEF IsSequence
<1>3. /\ r \in Seq(ToSet(entries)) /\ ToSet(r) = ToSet(entries) \cap Others(pub, entries)
      /\ IsInjective(r)
  BY <1>2, FilterIs
<1>. HIDE DEF r
<1>4. IsSequence(r)
  <2>1. DOMAIN r = 1..Len(r) /\ Len(r) \in Nat /\ r = [i \in 1..Len(r) |-> r[i]]
    BY <1>3
  <2>2. \A i \in DOMAIN r : r[i] \in ToSet(r)
    BY DEF ToSet
  <2>3. r \in [1..Len(r) -> ToSet(r)]
    BY <2>1, <2>2
  <2>. QED
    BY <2>1, <2>3 DEF IsSequence
<1>5. ToSet(r) = expected
  BY <1>1, <1>3 DEF Apart
<1>6. EntriesAre(r, expected)
  BY <1>3, <1>5 DEF EntriesAre
<1>. QED
  BY <1>4, <1>6 DEF r

\* What is left of the payments is those of others, and ones at addresses too
\* far for has_address() to look.
LEMMA PaymentsStay ==
    ASSUME NEW pub, NEW entries, IsSequence(entries), NEW before, PaymentsAre(entries, before),
           NEW expected,
           \A e \in expected : e \in before /\ e.addr.wallet # pub,
           \A e \in ToSet(entries) :
              e \notin expected /\ e \notin Strays => HasAddress(pub, e.addr, Len(entries))
    PROVE  /\ IsSequence(Filter(entries, Others(pub, entries)))
           /\ PaymentsAre(Filter(entries, Others(pub, entries)), expected)
<1>. DEFINE kept == Others(pub, entries)
            r == Filter(entries, kept)
<1>1. /\ r \in Seq(ToSet(entries)) /\ ToSet(r) = ToSet(entries) \cap kept
      /\ NoMoreThan(r, entries)
  <2>1. entries \in Seq(ToSet(entries))
    BY DEF IsSequence
  <2>. HIDE DEF kept
  <2>. QED
    BY <2>1, FilterIs
<1>2. IsSequence(r) /\ DOMAIN r = 1..Len(r) /\ Len(r) \in Nat
  <2>. HIDE DEF r
  <2>1. DOMAIN r = 1..Len(r) /\ Len(r) \in Nat /\ r = [i \in 1..Len(r) |-> r[i]]
    BY <1>1
  <2>2. \A i \in DOMAIN r : r[i] \in ToSet(r)
    BY DEF ToSet
  <2>3. r \in [1..Len(r) -> ToSet(r)]
    BY <2>1, <2>2
  <2>. QED
    BY <2>1, <2>3 DEF IsSequence
<1>3. expected \subseteq ToSet(r)
  BY <1>1 DEF PaymentsAre, Others, HasAddress
<1>4. ToSet(r) \subseteq expected \cup Strays
  BY <1>1 DEF Others
<1>. HIDE DEF r, kept
<1>5. ASSUME NEW i \in DOMAIN r, NEW j \in DOMAIN r, r[i] = r[j], r[i] \notin Strays
      PROVE  i = j
  <2>. DEFINE e == r[i]
              n == Len(entries)
              A == {k \in DOMAIN r : r[k] \in {e}}
              B == {k \in DOMAIN entries : entries[k] \in {e}}
  <2>1. DOMAIN entries = 1..n /\ n \in Nat
    BY DEF IsSequence
  <2>2. \A k, l \in B : k = l
    BY <1>5 DEF PaymentsAre
  <2>3. i \in A /\ j \in A
    BY <1>5
  <2>4. IsFiniteSet(A) /\ IsFiniteSet(B)
    <3>1. A \subseteq 1..Len(r) /\ B \subseteq 1..n
      BY <1>2, <2>1
    <3>2. IsFiniteSet(1..Len(r)) /\ IsFiniteSet(1..n)
      BY <1>2, <2>1, FS_Interval
    <3>. QED
      BY <3>1, <3>2, FS_Subset
  <2>5. Cardinality(A) <= Cardinality(B)
    BY <1>1 DEF NoMoreThan
  <2>. HIDE DEF A, B
  <2>. QED
    BY <2>2, <2>3, <2>4, <2>5, OneOnly
<1>6. PaymentsAre(r, expected)
  BY <1>3, <1>4, <1>5 DEF PaymentsAre
<1>. QED
  BY <1>2, <1>6 DEF r, kept

\* rem_member_data(): the proposal of the members that stay.
LEMMA LeaveIs ==
    ASSUME NEW M \in SUBSET Members, OneSeat(M), NEW m \in M, NEW proposal,
           ProposalIs(proposal, M)
    PROVE  ProposalIs(RemMemberData(m.pub, proposal), {k \in M : k.pub # m.pub})
<1>. DEFINE pub == m.pub
            L == {k \in M : k.pub # pub}
            result == RemMemberData(pub, proposal)
            kept == Filter(proposal.programs, Joint(pub, proposal.programs))
<1>1. /\ m \in Members /\ pub \in Signers
      /\ \A k \in M : k \in Members /\ (k.pub = pub => k = m)
      /\ \A k \in M : k \in L <=> k.pub # pub
      /\ \A k \in L : k \in M
  BY DEF Members, OneSeat
<1>2. /\ result = [paths |-> result.paths, payments |-> result.payments, programs |-> result.programs]
      /\ result.paths = Filter(proposal.paths, Others(pub, proposal.paths))
      /\ result.payments = Filter(proposal.payments, Others(pub, proposal.payments))
      /\ result.programs = [i \in DOMAIN kept |-> [kept[i] EXCEPT !.keys = RemoveFirst(@, pub)]]
  BY DEF RemMemberData
<1>. HIDE DEF pub, L, result, kept
<1>3. IsSequence(result.paths) /\ EntriesAre(result.paths, PathsIn(L))
  <2>. DEFINE paths == proposal.paths
  <2>1. /\ IsSequence(paths) /\ EntriesAre(paths, PathsIn(M))
        /\ IsInjective(paths) /\ ToSet(paths) = PathsIn(M)
    BY DEF ProposalIs, EntriesAre
  <2>. HIDE DEF paths
  <2>2. ASSUME NEW e \in PathsIn(L) PROVE e \in PathsIn(M) /\ e.addr.wallet # pub
    <3>1. CASE e \in ToSet(Template.paths)
      BY <1>1, <3>1, TemplateWallet DEF PathsIn
    <3>2. ASSUME NEW k \in L, e \in PathsOf(k) PROVE e \in PathsIn(M) /\ e.addr.wallet # pub
      BY <1>1, <3>2, PathWallet DEF PathsIn
    <3>. QED
      BY <3>1, <3>2 DEF PathsIn
  <2>3. ASSUME NEW e \in PathsIn(M) \ PathsIn(L)
        PROVE  e.addr.wallet = pub /\ e.addr.idx < Len(paths)
    <3>1. PICK k \in M : e \in PathsOf(k)
      BY DEF PathsIn
    <3>2. k \notin L
      BY <3>1 DEF PathsIn
    <3>3. k = m
      BY <1>1, <3>2
    <3>. QED
      BY <1>1, <2>1, <3>1, <3>3, PathsFound, PathWallet DEF pub
  <2>4. Apart(pub, paths, PathsIn(L))
    BY <2>1, <2>2, <2>3 DEF Apart
  <2>. QED
    BY <1>2, <2>1, <2>4, OthersStay DEF paths
<1>4. IsSequence(result.payments) /\ PaymentsAre(result.payments, PaymentsIn(L))
  <2>. DEFINE payments == proposal.payments
  <2>1. IsSequence(payments) /\ PaymentsAre(payments, PaymentsIn(M))
    BY DEF ProposalIs
  <2>. HIDE DEF payments
  <2>2. ASSUME NEW e \in PaymentsIn(L) PROVE e \in PaymentsIn(M) /\ e.addr.wallet # pub
    <3>1. CASE e \in ToSet(Template.payments)
      BY <1>1, <3>1, TemplateWallet DEF PaymentsIn
    <3>2. ASSUME NEW k \in L, Policy[k.pid].payment > 0, e = PaymentOf(k)
          PROVE  e \in PaymentsIn(M) /\ e.addr.wallet # pub
      BY <1>1, <3>2, PaymentWallet DEF PaymentsIn
    <3>. QED
      BY <3>1, <3>2 DEF PaymentsIn
  <2>3. ASSUME NEW e \in ToSet(payments), e \notin PaymentsIn(L), e \notin Strays
        PROVE  HasAddress(pub, e.addr, Len(payments))
    <3>1. PICK k \in M : e = PaymentOf(k) /\ Policy[k.pid].payment > 0
      BY <2>1, <2>3 DEF PaymentsIn, PaymentsAre
    <3>2. k \notin L
      BY <2>3, <3>1 DEF PaymentsIn
    <3>3. k = m
      BY <1>1, <3>2
    <3>4. e.addr.wallet = pub /\ e.addr.idx = 0
      BY <1>1, <2>3, <3>1, <3>3, PaymentWallet, StrayIs DEF pub
    <3>5. 0 < Len(payments)
      <4>1. PICK i \in DOMAIN payments : payments[i] = e
        BY DEF ToSet
      <4>. QED
        BY <2>1, <4>1 DEF IsSequence
    <3>. QED
      BY <3>4, <3>5 DEF HasAddress
  <2>4. IsSequence(Filter(payments, Others(pub, payments)))
        /\ PaymentsAre(Filter(payments, Others(pub, payments)), PaymentsIn(L))
    BY <2>1, <2>2, <2>3, PaymentsStay
  <2>. QED
    BY <1>2, <2>4 DEF payments
<1>5. ProgramsHold(result.programs, KeysIn(L))
  <2>1. ProgramsHold(proposal.programs, KeysIn(M))
    BY DEF ProposalIs
  <2>2. {k \in KeysIn(M) : k.key # pub} = KeysIn(L)
    <3>. DEFINE rest == UNION {{[terms |-> e.terms, key |-> x] : x \in ToSet(e.keys)} :
                                 e \in ToSet(Template.programs)}
                own(k) == OwnKeys(k.pub, ToSet(Policy[k.pid].programs))
    <3>1. \A x : x \in KeysIn(M) <=> x \in rest \/ \E k \in M : x \in own(k)
      BY DEF KeysIn
    <3>2. \A x : x \in KeysIn(L) <=> x \in rest \/ \E k \in L : x \in own(k)
      BY DEF KeysIn
    <3>3. \A k \in M : \A x \in own(k) : x.key = k.pub
      BY DEF OwnKeys
    <3>4. \A x \in rest : x.key # pub
      <4>1. ASSUME NEW e \in ToSet(Template.programs), NEW y \in ToSet(e.keys) PROVE y # pub
        <5>1. PICK i \in DOMAIN Template.programs : e = Template.programs[i]
          BY DEF ToSet
        <5>2. ToSet(e.keys) \cap Signers = {}
          BY <5>1, TemplateAssumption
        <5>. QED
          BY <1>1, <5>2
      <4>. QED
        BY <4>1
    <3>. HIDE DEF rest, own
    <3>5. ASSUME NEW x PROVE x \in KeysIn(L) <=> x \in KeysIn(M) /\ x.key # pub
      BY <1>1, <3>1, <3>2, <3>3, <3>4
    <3>. QED
      BY <3>5
  <2>. QED
    BY <1>2, <2>1, <2>2, ProgramsLeave DEF kept
<1>6. ProposalIs(result, L)
  BY <1>2, <1>3, <1>4, <1>5 DEF ProposalIs
<1>. QED
  BY <1>6 DEF result, L, pub

-----------------------------------------------------------------------------
(* The drafts *)

\* The members of a copy have a seat each, and its proposal is theirs.
Draft(session) ==
    /\ session = [members |-> session.members, proposal |-> session.proposal,
                  sigs |-> session.sigs]
    /\ session.members \in Seq(Members)
    /\ \A i, j \in DOMAIN session.members :
         session.members[i].pub = session.members[j].pub => i = j
    /\ \A role \in Roles : Filled(role, session) <= Policy[role].seats
    /\ IsSequence(session.sigs) /\ Len(session.sigs) <= MaxSigs
    /\ ProposalIs(session.proposal, ToSet(session.members))

\* What was published is a proposal of members.
Drafts ==
    /\ DOMAIN held = Signers
    /\ \A p \in Signers : Draft(held[p])
    /\ published # Null =>
         \E M \in SUBSET Members : ProposalIs(published.proposal, M)

LEMMA MembersOf ==
    ASSUME NEW session, Draft(session)
    PROVE  /\ ToSet(session.members) \in SUBSET Members /\ OneSeat(ToSet(session.members))
           /\ Len(session.members) \in Nat /\ DOMAIN session.members = 1..Len(session.members)
           /\ \A i \in DOMAIN session.members : session.members[i] \in Members
<1>1. /\ Len(session.members) \in Nat /\ DOMAIN session.members = 1..Len(session.members)
      /\ \A i \in DOMAIN session.members : session.members[i] \in Members
  BY DEF Draft
<1>2. \A i, j \in DOMAIN session.members :
         session.members[i].pub = session.members[j].pub => i = j
  BY DEF Draft
<1>3. OneSeat(ToSet(session.members))
  BY <1>2 DEF OneSeat, ToSet
<1>. QED
  BY <1>1, <1>3 DEF ToSet

LEMMA SessionSet ==
    ASSUME NEW s, s = [members |-> s.members, proposal |-> s.proposal, sigs |-> s.sigs],
           NEW members, NEW proposal
    PROVE  [s EXCEPT !.members = members, !.proposal = proposal]
             = [members |-> members, proposal |-> proposal, sigs |-> s.sigs]
<1>1. \A a, b, c :
        [[members |-> a, proposal |-> b, sigs |-> c] EXCEPT !.members = members]
          = [members |-> members, proposal |-> b, sigs |-> c]
  OBVIOUS
<1>2. \A a, b, c :
        [[members |-> a, proposal |-> b, sigs |-> c] EXCEPT !.proposal = proposal]
          = [members |-> a, proposal |-> proposal, sigs |-> c]
  OBVIOUS
<1>3. [s EXCEPT !.members = members, !.proposal = proposal]
        = [[s EXCEPT !.members = members] EXCEPT !.proposal = proposal]
  OBVIOUS
<1>. DEFINE a == s.members
            b == s.proposal
            c == s.sigs
<1>4. s = [members |-> a, proposal |-> b, sigs |-> c]
  OBVIOUS
<1>5. [s EXCEPT !.members = members] = [members |-> members, proposal |-> b, sigs |-> c]
  <2>. HIDE DEF a, b, c
  <2>. QED
    BY <1>1, <1>4
<1>. HIDE DEF b, c
<1>6. [[s EXCEPT !.members = members] EXCEPT !.proposal = proposal]
        = [[members |-> members, proposal |-> b, sigs |-> c] EXCEPT !.proposal = proposal]
  BY <1>5, Zenon
<1>. DEFINE middle == [members |-> members, proposal |-> b, sigs |-> c]
<1>7. [middle EXCEPT !.proposal = proposal]
        = [members |-> members, proposal |-> proposal, sigs |-> c]
  BY <1>2
<1>8. [s EXCEPT !.members = members, !.proposal = proposal]
        = [members |-> members, proposal |-> proposal, sigs |-> c]
  BY <1>3, <1>6, <1>7, ZenonT(30)
<1>. QED
  BY <1>8 DEF c

LEMMA DraftStarts == Draft([members |-> <<>>, proposal |-> Template, sigs |-> <<>>])
<1>. DEFINE s == [members |-> <<>>, proposal |-> Template, sigs |-> <<>>]
<1>1. /\ s = [members |-> s.members, proposal |-> s.proposal, sigs |-> s.sigs]
      /\ s.members = <<>> /\ s.proposal = Template /\ s.sigs = <<>>
  OBVIOUS
<1>. HIDE DEF s
<1>2. \A role \in Roles : Filled(role, s) <= Policy[role].seats
  <2>1. \A role : {i \in DOMAIN s.members : s.members[i].pid = role} = {}
    BY <1>1
  <2>2. \A role \in Roles : Policy[role].seats \in Nat
    BY PolicyAssumption
  <2>3. \A role \in Roles : Filled(role, s) = 0
    BY <2>1, FS_EmptySet DEF Filled
  <2>. QED
    BY <2>2, <2>3
<1>3. IsSequence(s.sigs) /\ Len(s.sigs) <= MaxSigs
  BY <1>1, TemplateAssumption DEF IsSequence
<1>4. s.members \in Seq(Members) /\ DOMAIN s.members = {} /\ ToSet(s.members) = {}
  BY <1>1 DEF ToSet
<1>5. Draft(s)
  BY <1>1, <1>2, <1>3, <1>4, TemplateIs DEF Draft
<1>. QED
  BY <1>5 DEF s

LEMMA DraftJoined ==
    ASSUME NEW p \in Signers, NEW role \in Roles, NEW s, Draft(s),
           ~HasMembership(p, s), HasOpenRoles(role, s)
    PROVE  Draft([s EXCEPT !.members = Append(@, [pub |-> p, pid |-> role]),
                           !.proposal = AddMemberData(p, Policy[role], @)])
<1>. DEFINE m == [pub |-> p, pid |-> role]
            ms == s.members
            n == Len(ms)
            t == [s EXCEPT !.members = Append(@, m),
                           !.proposal = AddMemberData(p, Policy[role], @)]
<1>1. m \in Members /\ m.pub = p /\ m.pid = role
  BY DEF Members
<1>2. /\ n \in Nat /\ DOMAIN ms = 1..n /\ ToSet(ms) \in SUBSET Members /\ IsSequence(ms)
      /\ \A i \in 1..n : ms[i] \in Members /\ ms[i].pub # p
      /\ ms \in Seq(Members)
  <2>1. n \in Nat /\ DOMAIN ms = 1..n /\ ToSet(ms) \in SUBSET Members /\ ms \in Seq(Members)
    BY MembersOf DEF Draft
  <2>2. IsSequence(ms)
    <3>1. \A i \in DOMAIN ms : ms[i] \in ToSet(ms)
      BY DEF ToSet
    <3>. HIDE DEF ms
    <3>2. ms \in [1..Len(ms) -> ToSet(ms)]
      BY <2>1, <3>1
    <3>. QED
      BY <2>1, <3>2 DEF n, IsSequence
  <2>. QED
    BY <2>1, <2>2, MembersOf DEF HasMembership
<1>3. /\ t = [members |-> t.members, proposal |-> t.proposal, sigs |-> t.sigs]
      /\ t.members = Append(ms, m) /\ t.sigs = s.sigs
      /\ t.proposal = AddMemberData(m.pub, Policy[m.pid], s.proposal)
  <2>1. s = [members |-> s.members, proposal |-> s.proposal, sigs |-> s.sigs]
    BY DEF Draft
  <2>2. t = [members |-> Append(ms, m), proposal |-> AddMemberData(p, Policy[role], s.proposal),
             sigs |-> s.sigs]
    BY <2>1, SessionSet
  <2>. HIDE DEF t, m
  <2>. QED
    BY <1>1, <2>2
<1>. HIDE DEF m, t, n
<1>4. /\ DOMAIN t.members = 1..(n + 1) /\ t.members[n + 1] = m
      /\ \A i \in 1..n : t.members[i] = ms[i]
      /\ ToSet(t.members) = ToSet(ms) \cup {m}
  BY <1>2, <1>3, AppendIs DEF n
<1>5. \A i \in 1..(n + 1) : i \in 1..n \/ i = n + 1
  BY <1>2
<1>6. t.members \in Seq(Members)
  BY <1>1, <1>2, <1>3
<1>7. \A i, j \in DOMAIN t.members : t.members[i].pub = t.members[j].pub => i = j
  <2>1. \A i, j \in 1..n : ms[i].pub = ms[j].pub => i = j
    BY <1>2 DEF Draft
  <2>. QED
    BY <1>1, <1>2, <1>4, <1>5, <2>1
<1>8. ASSUME NEW r \in Roles PROVE Filled(r, t) <= Policy[r].seats
  <2>. DEFINE A == {i \in 1..n : ms[i].pid = r}
              B == {i \in 1..(n + 1) : t.members[i].pid = r}
  <2>1. Filled(r, s) = Cardinality(A) /\ Filled(r, t) = Cardinality(B)
    BY <1>2, <1>4 DEF Filled
  <2>2. IsFiniteSet(A) /\ Cardinality(A) \in Nat
    <3>1. A \subseteq 1..n /\ IsFiniteSet(1..n)
      BY <1>2, FS_Interval
    <3>. QED
      BY <3>1, FS_Subset, FS_CardinalityType
  <2>3. Cardinality(A) <= Policy[r].seats /\ Policy[r].seats \in Nat
    BY <2>1, PolicyAssumption DEF Draft
  <2>4. n + 1 \notin A /\ n + 1 \in 1..(n + 1) /\ \A i \in 1..n : i \in 1..(n + 1)
    BY <1>2
  <2>5. CASE r = role
    <3>1. B = A \cup {n + 1}
      BY <1>1, <1>4, <1>5, <2>4, <2>5
    <3>. HIDE DEF A, B
    <3>2. Cardinality(B) = Cardinality(A) + 1
      BY <2>2, <2>4, <3>1, FS_AddElement
    <3>3. Cardinality(A) < Policy[r].seats
      BY <2>1, <2>5 DEF HasOpenRoles
    <3>. QED
      BY <2>1, <2>2, <2>3, <3>2, <3>3
  <2>6. CASE r # role
    <3>1. B = A
      BY <1>1, <1>4, <1>5, <2>4, <2>6
    <3>. QED
      BY <2>1, <2>3, <3>1
  <2>. QED
    BY <2>5, <2>6
<1>9. ProposalIs(t.proposal, ToSet(t.members))
  <2>1. NoMember(m, ToSet(ms))
    BY <1>1, <1>2 DEF ToSet, NoMember
  <2>2. ProposalIs(s.proposal, ToSet(ms))
    BY DEF Draft
  <2>. HIDE DEF ms
  <2>3. ToSet(ms) \in SUBSET Members /\ m \in Members
    BY <1>1, <1>2
  <2>. HIDE DEF m, t
  <2>4. ProposalIs(AddMemberData(m.pub, Policy[m.pid], s.proposal), ToSet(ms) \cup {m})
    BY <2>1, <2>2, <2>3, JoinIs
  <2>. QED
    BY <1>3, <1>4, <2>4
<1>10. IsSequence(t.sigs) /\ Len(t.sigs) <= MaxSigs
  BY <1>3 DEF Draft
<1>11. Draft(t)
  BY <1>3, <1>6, <1>7, <1>8, <1>9, <1>10 DEF Draft
<1>. QED
  BY <1>11 DEF t, m

LEMMA DraftLeft ==
    ASSUME NEW p \in Signers, NEW s, Draft(s), HasMembership(p, s)
    PROVE  Draft([s EXCEPT !.members = Filter(@, {e \in ToSet(@) : e.pub # p}),
                           !.proposal = RemMemberData(p, @)])
<1>. DEFINE ms == s.members
            rest == {e \in ToSet(ms) : e.pub # p}
            r == Filter(ms, rest)
            t == [s EXCEPT !.members = Filter(@, {e \in ToSet(@) : e.pub # p}),
                           !.proposal = RemMemberData(p, @)]
<1>1. /\ ms \in Seq(Members) /\ ToSet(ms) \in SUBSET Members /\ OneSeat(ToSet(ms))
      /\ DOMAIN ms = 1..Len(ms) /\ Len(ms) \in Nat
  BY MembersOf DEF Draft
<1>2. PICK m \in ToSet(ms) : m.pub = p
  BY DEF HasMembership, ToSet
<1>3. /\ t = [members |-> t.members, proposal |-> t.proposal, sigs |-> t.sigs]
      /\ t.members = r /\ t.sigs = s.sigs
      /\ t.proposal = RemMemberData(m.pub, s.proposal)
  <2>1. s = [members |-> s.members, proposal |-> s.proposal, sigs |-> s.sigs]
    BY DEF Draft
  <2>2. t = [members |-> r, proposal |-> RemMemberData(p, s.proposal), sigs |-> s.sigs]
    BY <2>1, SessionSet
  <2>. HIDE DEF t, r
  <2>. QED
    BY <1>2, <2>2
<1>. HIDE DEF t
<1>4. /\ r \in Seq(Members) /\ ToSet(r) = rest /\ (IsInjective(ms) => IsInjective(r))
      /\ NoMoreThan(r, ms)
  <2>. HIDE DEF ms, r, rest
  <2>1. /\ r \in Seq(Members) /\ ToSet(r) = ToSet(ms) \cap rest /\ (IsInjective(ms) => IsInjective(r))
        /\ NoMoreThan(r, ms)
    BY <1>1, FilterIs DEF r
  <2>2. ToSet(ms) \cap rest = rest
    BY DEF rest
  <2>. QED
    BY <2>1, <2>2
<1>5. rest = {k \in ToSet(ms) : k.pub # m.pub}
  BY <1>2
<1>6. IsInjective(r)
  <2>1. \A i, j \in DOMAIN ms : ms[i] = ms[j] => i = j
    BY DEF Draft
  <2>. HIDE DEF ms
  <2>. QED
    BY <1>4, <2>1 DEF IsInjective
<1>. HIDE DEF r
<1>7. \A i \in DOMAIN r : r[i] \in rest /\ r[i] \in ToSet(ms)
  BY <1>4 DEF ToSet
<1>8. ASSUME NEW i \in DOMAIN r, NEW j \in DOMAIN r, r[i].pub = r[j].pub PROVE i = j
  <2>1. r[i] = r[j]
    BY <1>1, <1>7, <1>8 DEF OneSeat
  <2>. QED
    BY <1>6, <2>1 DEF IsInjective
<1>9. ASSUME NEW role \in Roles PROVE Filled(role, t) <= Policy[role].seats
  <2>. DEFINE X == {k \in Members : k.pid = role}
              A == {i \in DOMAIN ms : ms[i].pid = role}
              B == {i \in DOMAIN r : r[i].pid = role}
  <2>1. Filled(role, s) = Cardinality(A) /\ Filled(role, t) = Cardinality(B)
    BY <1>3 DEF Filled
  <2>2. A = {i \in DOMAIN ms : ms[i] \in X}
    BY <1>1
  <2>3. B = {i \in DOMAIN r : r[i] \in X}
    BY <1>1, <1>7
  <2>. HIDE DEF X
  <2>4. Cardinality(B) <= Cardinality(A)
    <3>1. Cardinality({i \in DOMAIN r : r[i] \in X}) <= Cardinality({i \in DOMAIN ms : ms[i] \in X})
      BY <1>4 DEF NoMoreThan
    <3>. HIDE DEF A, B
    <3>. QED  BY <2>2, <2>3, <3>1
  <2>5. IsFiniteSet(A) /\ IsFiniteSet(B)
    <3>1. DOMAIN r = 1..Len(r) /\ Len(r) \in Nat
      BY <1>4
    <3>2. A \subseteq 1..Len(ms) /\ B \subseteq 1..Len(r)
      BY <1>1, <3>1
    <3>3. IsFiniteSet(1..Len(ms)) /\ IsFiniteSet(1..Len(r))
      BY <1>1, <3>1, FS_Interval
    <3>. HIDE DEF A, B
    <3>. QED
      BY <3>2, <3>3, FS_Subset
  <2>6. Cardinality(A) \in Nat /\ Cardinality(B) \in Nat
    <3>. HIDE DEF A, B
    <3>. QED  BY <2>5, FS_CardinalityType
  <2>7. Cardinality(A) <= Policy[role].seats /\ Policy[role].seats \in Nat
    BY <2>1, PolicyAssumption DEF Draft
  <2>. HIDE DEF A, B
  <2>. QED
    BY <2>1, <2>4, <2>6, <2>7
<1>10. ProposalIs(t.proposal, ToSet(t.members))
  <2>1. ProposalIs(s.proposal, ToSet(ms))
    BY DEF Draft
  <2>. HIDE DEF ms, rest
  <2>2. ProposalIs(RemMemberData(m.pub, s.proposal), {k \in ToSet(ms) : k.pub # m.pub})
    BY <1>1, <1>2, <2>1, LeaveIs
  <2>. QED
    BY <1>3, <1>4, <1>5, <2>2
<1>11. IsSequence(t.sigs) /\ Len(t.sigs) <= MaxSigs
  BY <1>3 DEF Draft
<1>12. t.members \in Seq(Members)
  BY <1>3, <1>4
<1>13. \A i, j \in DOMAIN t.members : t.members[i].pub = t.members[j].pub => i = j
  BY <1>3, <1>8
<1>14. Draft(t)
  BY <1>3, <1>9, <1>10, <1>11, <1>12, <1>13 DEF Draft
<1>. QED
  BY <1>14 DEF t

\* Signatures do not touch what they sign.
LEMMA DraftSigned ==
    ASSUME NEW s, Draft(s), NEW sigs, IsSequence(sigs), Len(sigs) <= MaxSigs
    PROVE  Draft([s EXCEPT !.sigs = sigs])
<1>. DEFINE t == [s EXCEPT !.sigs = sigs]
<1>1. /\ t = [members |-> t.members, proposal |-> t.proposal, sigs |-> t.sigs]
      /\ t.members = s.members /\ t.proposal = s.proposal /\ t.sigs = sigs
  <2>1. s = [members |-> s.members, proposal |-> s.proposal, sigs |-> s.sigs]
    BY DEF Draft
  <2>2. t = [members |-> s.members, proposal |-> s.proposal, sigs |-> sigs]
    BY <2>1
  <2>. HIDE DEF t
  <2>. QED
    BY <2>2
<1>. HIDE DEF t
<1>2. \A role : Filled(role, t) = Filled(role, s)
  BY <1>1 DEF Filled
<1>3. Draft(t)
  BY <1>1, <1>2 DEF Draft
<1>. QED
  BY <1>3 DEF t

LEMMA HeldStep ==
    ASSUME Drafts, NEW q \in Signers, NEW d, Draft(d), held' = [held EXCEPT ![q] = d],
           UNCHANGED published
    PROVE  Drafts'
<1>1. DOMAIN held' = Signers /\ \A p \in Signers : held'[p] = IF p = q THEN d ELSE held[p]
  BY DEF Drafts
<1>2. \A p \in Signers : Draft(held'[p])
  BY <1>1 DEF Drafts
<1>. QED
  BY <1>1, <1>2 DEF Drafts

LEMMA DraftsHold == PublicationSpec => []Drafts
<1>1. PublicationInit => Drafts
  <2>. SUFFICES ASSUME PublicationInit PROVE Drafts
    OBVIOUS
  <2>. DEFINE d == [members |-> <<>>, proposal |-> Template, sigs |-> <<>>]
  <2>1. held = [p \in Signers |-> d] /\ published = Null
    BY DEF PublicationInit, Init
  <2>2. Draft(d)
    BY DraftStarts
  <2>. HIDE DEF d
  <2>. QED
    BY <2>1, <2>2 DEF Drafts
<1>2. Drafts /\ [PublicationNext]_allVars => Drafts'
  <2>. SUFFICES ASSUME Drafts, [PublicationNext]_allVars PROVE Drafts'
    OBVIOUS
  <2>1. CASE UNCHANGED allVars
    BY <2>1 DEF Drafts, allVars
  <2>2. ASSUME NEW p \in Signers, NEW role \in Roles, Join(p, role) PROVE Drafts'
    <3>. DEFINE d == [held[p] EXCEPT !.members = Append(@, [pub |-> p, pid |-> role]),
                                     !.proposal = AddMemberData(p, Policy[role], @)]
    <3>1. /\ ~HasMembership(p, held[p]) /\ HasOpenRoles(role, held[p])
          /\ held' = [held EXCEPT ![p] = d] /\ UNCHANGED published
      BY <2>2 DEF Join
    <3>2. Draft(held[p])
      BY DEF Drafts
    <3>3. Draft(d)
      BY <3>1, <3>2, DraftJoined
    <3>. HIDE DEF d
    <3>. QED
      BY <3>1, <3>3, HeldStep
  <2>3. ASSUME NEW p \in Signers, Leave(p) PROVE Drafts'
    <3>. DEFINE d == [held[p] EXCEPT !.members = Filter(@, {e \in ToSet(@) : e.pub # p}),
                                     !.proposal = RemMemberData(p, @)]
    <3>1. HasMembership(p, held[p]) /\ held' = [held EXCEPT ![p] = d] /\ UNCHANGED published
      BY <2>3 DEF Leave
    <3>2. Draft(held[p])
      BY DEF Drafts
    <3>3. Draft(d)
      BY <3>1, <3>2, DraftLeft
    <3>. HIDE DEF d
    <3>. QED
      BY <3>1, <3>3, HeldStep
  <2>4. ASSUME NEW p \in Signers, Endorse(p) PROVE Drafts'
    <3>. DEFINE e == [pub |-> p, signs |-> held[p].proposal]
                sigs == Append(held[p].sigs, e)
                d == [held[p] EXCEPT !.sigs = sigs]
    <3>1. /\ Len(held[p].sigs) < MaxSigs /\ UNCHANGED published
          /\ held' = [held EXCEPT ![p].sigs = sigs]
      BY <2>4 DEF Endorse
    <3>2. held' = [held EXCEPT ![p] = d]
      BY <3>1
    <3>3. Draft(held[p])
      BY DEF Drafts
    <3>4. IsSequence(sigs) /\ Len(sigs) <= MaxSigs
      <4>1. IsSequence(held[p].sigs)
        BY <3>3 DEF Draft
      <4>2. /\ IsSequence(sigs) /\ Len(sigs) = Len(held[p].sigs) + 1
            /\ Len(held[p].sigs) \in Nat
        <5>. DEFINE s == held[p].sigs
        <5>1. IsSequence(s)
          BY <4>1
        <5>. HIDE DEF s, e
        <5>2. IsSequence(Append(s, e)) /\ Len(Append(s, e)) = Len(s) + 1 /\ Len(s) \in Nat
          BY <5>1, AppendIs
        <5>. QED
          BY <5>2 DEF s
      <4>. HIDE DEF sigs
      <4>. QED
        BY <3>1, <4>2, TemplateAssumption
    <3>. HIDE DEF sigs
    <3>5. Draft(d)
      BY <3>3, <3>4, DraftSigned
    <3>. HIDE DEF d
    <3>. QED
      BY <3>1, <3>2, <3>5, HeldStep
  <2>5. ASSUME NEW p \in Signers, Reset(p) PROVE Drafts'
    <3>. DEFINE d == [held[p] EXCEPT !.sigs = <<>>]
    <3>1. held' = [held EXCEPT ![p] = d] /\ UNCHANGED published
      BY <2>5 DEF Reset
    <3>2. IsSequence(<<>>) /\ Len(<<>>) <= MaxSigs
      BY TemplateAssumption DEF IsSequence
    <3>3. Draft(held[p])
      BY DEF Drafts
    <3>4. Draft(d)
      BY <3>2, <3>3, DraftSigned
    <3>. HIDE DEF d
    <3>. QED
      BY <3>1, <3>4, HeldStep
  <2>6. ASSUME NEW p \in Signers, NEW q \in Signers, Share(p, q) PROVE Drafts'
    <3>1. held' = [held EXCEPT ![q] = held[p]] /\ UNCHANGED published /\ Draft(held[p])
      BY <2>6 DEF Share, Drafts
    <3>. QED
      BY <3>1, HeldStep
  <2>7. ASSUME NEW p \in Signers, Publish(p) PROVE Drafts'
    <3>1. held' = held /\ published'.proposal = held[p].proposal
      BY <2>7 DEF Publish
    <3>2. Draft(held[p])
      BY DEF Drafts
    <3>3. \E M \in SUBSET Members : ProposalIs(held[p].proposal, M)
      BY <3>2, MembersOf DEF Draft
    <3>. QED
      BY <3>1, <3>3 DEF Drafts
  <2>8. ASSUME NEW terms \in Terms, NEW current \in Stamps, NEW created \in Stamps,
               Receive(terms, current, created)
        PROVE  Drafts'
    BY <2>8 DEF Receive, Drafts
  <2>. QED
    BY <2>1, <2>2, <2>3, <2>4, <2>5, <2>6, <2>7, <2>8 DEF PublicationNext, Next
<1>. QED
  BY <1>1, <1>2, PTL DEF PublicationSpec

\* The copies of a draft go round among signers who join and leave, and each
\* stays a draft: a seat for each member and no more members than seats.
THEOREM TypeCorrect == PublicationSpec => []TypeOK
<1>1. Drafts => TypeOK
  <2>. SUFFICES ASSUME Drafts, NEW p \in Signers
                PROVE  /\ Pubs(held[p]) \subseteq Signers
                       /\ Cardinality(Pubs(held[p])) = Len(held[p].members)
                       /\ \A role \in Roles : Filled(role, held[p]) <= Policy[role].seats
                       /\ Len(held[p].sigs) <= MaxSigs
    BY DEF TypeOK
  <2>. DEFINE s == held[p]
              ms == s.members
              n == Len(ms)
              f == [i \in 1..n |-> ms[i].pub]
  <2>1. Draft(s)
    BY DEF Drafts
  <2>. HIDE DEF s
  <2>2. /\ n \in Nat /\ DOMAIN ms = 1..n /\ \A i \in 1..n : ms[i].pub \in Signers
        /\ \A i, j \in 1..n : ms[i].pub = ms[j].pub => i = j
    BY <2>1, MembersOf DEF Draft, Members
  <2>3. Pubs(s) = {ms[i].pub : i \in 1..n}
    BY <2>2 DEF Pubs
  <2>4. f \in Bijection(1..n, Pubs(s))
    <3>. HIDE DEF ms, n
    <3>1. f \in [1..n -> Pubs(s)]
      BY <2>3
    <3>2. \A i, j \in 1..n : f[i] = f[j] => i = j
      BY <2>2
    <3>3. \A x \in Pubs(s) : \E i \in 1..n : f[i] = x
      BY <2>3
    <3>. HIDE DEF f
    <3>. QED
      BY <3>1, <3>2, <3>3 DEF Bijection, Injection, Surjection, IsInjective
  <2>5. Cardinality(Pubs(s)) = n
    <3>. HIDE DEF ms, n, f
    <3>1. ExistsBijection(1..n, Pubs(s))
      BY <2>4 DEF ExistsBijection
    <3>. QED
      BY <2>2, <3>1, FS_CountingElements
  <2>6. Pubs(s) \subseteq Signers
    BY <2>2, <2>3
  <2>. QED
    BY <2>1, <2>5, <2>6 DEF Draft, s
<1>. QED
  BY <1>1, DraftsHold, PTL

\* Whoever joins, leaves, joins again and goes on from which copy: the entries
\* of a proposal are those of its template and of its members, each once, and
\* payments left behind that were after paths.
THEOREM ProposalMembers == PublicationSpec => []ProposalIsMembers
<1>1. Drafts => ProposalIsMembers
  <2>. SUFFICES ASSUME Drafts, NEW p \in Signers
                PROVE  LET session  == held[p]
                           members  == ToSet(session.members)
                           programs == session.proposal.programs
                       IN /\ EntriesAre(session.proposal.paths, PathsIn(members))
                          /\ PaymentsAre(session.proposal.payments, PaymentsIn(members))
                          /\ \A i \in DOMAIN programs :
                               /\ \A j \in DOMAIN programs :
                                    programs[i].terms = programs[j].terms => i = j
                               /\ EntriesAre(programs[i].keys, HoldersOf(programs[i].terms, session))
                          /\ \A terms \in UNION {ToSet(Policy[m.pid].programs) : m \in members} :
                               \E i \in DOMAIN programs : programs[i].terms = terms
    BY DEF ProposalIsMembers, PathsIn, PaymentsIn
  <2>. DEFINE s == held[p]
              M == ToSet(s.members)
              programs == s.proposal.programs
              K == KeysIn(M)
  <2>1. Draft(s)
    BY DEF Drafts
  <2>. HIDE DEF s
  <2>2. /\ EntriesAre(s.proposal.paths, PathsIn(M)) /\ PaymentsAre(s.proposal.payments, PaymentsIn(M))
        /\ ProgramsHold(programs, K)
    BY <2>1 DEF Draft, ProposalIs
  <2>. HIDE DEF programs
  <2>3. \A x : x \in K <=>
               \/ \E m \in M : \E t \in ToSet(Policy[m.pid].programs) :
                    x = [terms |-> t, key |-> m.pub]
               \/ \E e \in ToSet(Template.programs) : \E y \in ToSet(e.keys) :
                    x = [terms |-> e.terms, key |-> y]
    BY DEF KeysIn, OwnKeys
  <2>4. ASSUME NEW terms PROVE HoldersOf(terms, s) = KeysOf(terms, K)
    <3>1. ASSUME NEW x
          PROVE  x \in HoldersOf(terms, s) <=>
                    \/ \E m \in M : terms \in ToSet(Policy[m.pid].programs) /\ x = m.pub
                    \/ \E e \in ToSet(Template.programs) : e.terms = terms /\ x \in ToSet(e.keys)
      BY DEF HoldersOf
    <3>. HIDE DEF M, K
    <3>2. ASSUME NEW x
          PROVE  x \in KeysOf(terms, K) <=>
                    \/ \E m \in M : terms \in ToSet(Policy[m.pid].programs) /\ x = m.pub
                    \/ \E e \in ToSet(Template.programs) : e.terms = terms /\ x \in ToSet(e.keys)
      <4>1. ASSUME NEW k \in K, k.terms = terms, k.key = x
            PROVE  \/ \E m \in M : terms \in ToSet(Policy[m.pid].programs) /\ x = m.pub
                   \/ \E e \in ToSet(Template.programs) : e.terms = terms /\ x \in ToSet(e.keys)
        BY <2>3, <4>1
      <4>2. ASSUME NEW m \in M, terms \in ToSet(Policy[m.pid].programs), x = m.pub
            PROVE  \E k \in K : k.terms = terms /\ k.key = x
        <5>. DEFINE k == [terms |-> terms, key |-> m.pub]
        <5>1. k \in K /\ k.terms = terms /\ k.key = x
          BY <2>3, <4>2
        <5>. HIDE DEF k
        <5>. QED  BY <5>1
      <4>3. ASSUME NEW e \in ToSet(Template.programs), e.terms = terms, x \in ToSet(e.keys)
            PROVE  \E k \in K : k.terms = terms /\ k.key = x
        <5>. DEFINE k == [terms |-> e.terms, key |-> x]
        <5>1. k \in K /\ k.terms = terms /\ k.key = x
          BY <2>3, <4>3
        <5>. HIDE DEF k
        <5>. QED  BY <5>1
      <4>. QED
        BY <4>1, <4>2, <4>3, KeyIs
    <3>. QED
      BY <3>1, <3>2
  <2>. HIDE DEF K
  <2>5. ASSUME NEW i \in DOMAIN programs
        PROVE  /\ \A j \in DOMAIN programs : programs[i].terms = programs[j].terms => i = j
               /\ EntriesAre(programs[i].keys, HoldersOf(programs[i].terms, s))
    BY <2>2, <2>4 DEF ProgramsHold, OneEach
  <2>6. ASSUME NEW m \in M, NEW terms \in ToSet(Policy[m.pid].programs)
        PROVE  \E i \in DOMAIN programs : programs[i].terms = terms
    <3>. DEFINE k == [terms |-> terms, key |-> m.pub]
    <3>1. k \in K /\ k.terms = terms
      BY <2>3
    <3>. HIDE DEF k
    <3>. QED
      BY <2>2, <3>1 DEF ProgramsHold
  <2>. QED
    BY <2>2, <2>5, <2>6 DEF s, programs
<1>. QED
  BY <1>1, DraftsHold, PTL

\* verify_member_data() finds what a member is owed.
LEMMA MemberVerifies ==
    ASSUME NEW s, Draft(s), NEW m \in ToSet(s.members), PaidOnce(m, s)
    PROVE  VerifyMemberData(m, s)
<1>. DEFINE policy == Policy[m.pid]
            M == ToSet(s.members)
            paths == s.proposal.paths
            payments == s.proposal.payments
            mine == {e \in ToSet(payments) : e.addr.wallet = m.pub}
            paid == Filter(payments, mine)
<1>1. /\ M \in SUBSET Members /\ OneSeat(M) /\ m \in Members /\ m.pub \in Signers
      /\ \A k \in M : k \in Members /\ (k.pub = m.pub => k = m)
  <2>1. M \in SUBSET Members /\ OneSeat(M) /\ m \in M
    BY MembersOf
  <2>. HIDE DEF M
  <2>. QED
    BY <2>1 DEF OneSeat, Members
<1>2. /\ ToSet(paths) = PathsIn(M) /\ IsSequence(payments)
      /\ PaymentsIn(M) \subseteq ToSet(payments)
  BY DEF Draft, ProposalIs, EntriesAre, PaymentsAre
<1>3. ASSUME NEW i \in DOMAIN policy.paths
      PROVE  \E e \in ToSet(paths) : /\ e.addr.wallet = m.pub
                                     /\ e.label = policy.paths[i].label
                                     /\ e.amount = policy.paths[i].amount
  <2>. DEFINE e == [label |-> policy.paths[i].label, amount |-> policy.paths[i].amount,
                    addr |-> NewAddress(m.pub, i - 1)]
  <2>1. e \in PathsIn(M)
    BY DEF PathsIn, PathsOf
  <2>2. /\ e.addr.wallet = m.pub /\ e.label = policy.paths[i].label
        /\ e.amount = policy.paths[i].amount
    BY DEF NewAddress
  <2>. HIDE DEF e, paths, M
  <2>. QED
    BY <1>2, <2>1, <2>2
<1>4. ASSUME policy.payment > 0 PROVE ~(policy.payment < GetPayTotal(paid))
  <2>. DEFINE x == PaymentOf(m)
  <2>1. x.addr.wallet = m.pub /\ x.amount = policy.payment /\ policy.payment \in Nat
    BY <1>1, PaymentWallet
  <2>2. mine = {x}
    <3>1. x \in ToSet(payments)
      BY <1>2, <1>4 DEF PaymentsIn
    <3>2. ASSUME NEW e \in ToSet(payments), e.addr.wallet = m.pub PROVE e = x
      <4>1. PICK i, j \in DOMAIN payments : payments[i] = e /\ payments[j] = x
        BY <3>1 DEF ToSet
      <4>2. i = j
        BY <2>1, <3>2, <4>1 DEF PaidOnce
      <4>. QED
        BY <4>1, <4>2
    <3>. HIDE DEF x, payments
    <3>. QED
      BY <2>1, <3>1, <3>2
  <2>10. \A i, j \in DOMAIN payments : payments[i] \in mine /\ payments[j] \in mine => i = j
    BY DEF PaidOnce
  <2>. HIDE DEF x, mine, M, policy, payments
  <2>3. /\ paid \in Seq(ToSet(payments)) /\ ToSet(paid) = ToSet(payments) \cap mine
        /\ NoMoreThan(paid, payments)
    BY <1>2, FilterIs DEF IsSequence
  <2>4. ToSet(paid) = {x}
    BY <2>2, <2>3 DEF mine
  <2>. HIDE DEF paid
  <2>5. /\ Len(paid) \in Nat /\ DOMAIN paid = 1..Len(paid) /\ paid = [i \in 1..Len(paid) |-> paid[i]]
        /\ \A i \in 1..Len(paid) : paid[i] = x
    <3>1. Len(paid) \in Nat /\ DOMAIN paid = 1..Len(paid) /\ paid = [i \in 1..Len(paid) |-> paid[i]]
      BY <2>3
    <3>. QED
      BY <2>4, <3>1 DEF ToSet
  <2>6. Len(paid) = 1
    <3>. DEFINE A == {i \in DOMAIN paid : paid[i] \in mine}
                B == {i \in DOMAIN payments : payments[i] \in mine}
    <3>1. \E i \in 1..Len(paid) : paid[i] = x
      BY <2>4, <2>5 DEF ToSet
    <3>2. A = 1..Len(paid)
      BY <2>2, <2>5
    <3>3. Cardinality(A) <= Cardinality(B)
      BY <2>3 DEF NoMoreThan
    <3>4. IsFiniteSet(A) /\ IsFiniteSet(B)
      <4>1. DOMAIN payments = 1..Len(payments) /\ Len(payments) \in Nat
        BY <1>2 DEF IsSequence
      <4>2. B \subseteq 1..Len(payments)
        BY <4>1
      <4>3. IsFiniteSet(1..Len(payments))
        BY <4>1, FS_Interval
      <4>4. Len(paid) \in Nat
        BY <2>5
      <4>5. IsFiniteSet(1..Len(paid))
        BY <4>4, FS_Interval
      <4>. HIDE DEF A, B
      <4>. QED
        BY <3>2, <4>2, <4>3, <4>5, FS_Subset
    <3>5. \A k, l \in B : k = l
      BY <2>10
    <3>. HIDE DEF A, B
    <3>6. \A k, l \in A : k = l
      BY <3>3, <3>4, <3>5, OneOnly
    <3>7. ~(Len(paid) > 1)
      <4>1. SUFFICES ASSUME Len(paid) > 1 PROVE FALSE
        OBVIOUS
      <4>2. 1 \in A /\ 2 \in A
        BY <2>5, <3>2, <4>1
      <4>. QED
        BY <3>6, <4>2
    <3>. QED
      BY <2>5, <3>1, <3>7
  <2>7. Amounts(paid)
    <3>1. \A i \in 1..Len(paid) : paid[i].amount \in Int
      BY <2>1, <2>5
    <3>2. paid \in [1..Len(paid) -> ToSet(paid)]
      BY <2>4, <2>5
    <3>. QED
      BY <2>5, <3>1, <3>2 DEF Amounts, IsSequence
  <2>8. PICK P : Sums(P, paid)
    BY <2>7, SumSteps
  <2>9. GetPayTotal(paid) = x.amount
    <3>1. 1 \in 1..Len(paid) /\ 1 - 1 = 0
      BY <2>6
    <3>2. P[1] = P[1 - 1] + paid[1].amount /\ P[0] = 0 /\ GetPayTotal(paid) = P[1]
      BY <2>6, <2>8, <3>1 DEF Sums
    <3>. QED
      BY <2>1, <2>5, <3>1, <3>2
  <2>. QED
    BY <2>1, <2>9
<1>. HIDE DEF mine, paid, paths, payments, policy
<1>. QED
  BY <1>3, <1>4 DEF VerifyMemberData, mine, paid, paths, payments, policy

\* Whoever else joins or leaves, the seat of a member still verifies, unless a
\* payment of a seat it had before is in its way.
THEOREM MembersVerify == PublicationSpec => []DraftsVerify
<1>1. Drafts => DraftsVerify
  <2>. SUFFICES ASSUME Drafts, NEW p \in Signers, NEW m \in ToSet(held[p].members),
                       PaidOnce(m, held[p])
                PROVE  VerifyMemberData(m, held[p])
    BY DEF DraftsVerify
  <2>1. Draft(held[p])
    BY DEF Drafts
  <2>. QED
    BY <2>1, MemberVerifies
<1>. QED
  BY <1>1, DraftsHold, PTL

-----------------------------------------------------------------------------
(* What the agent received *)

\* The contract is the one that a request it verified makes.
Received ==
    contract # Null =>
        /\ published # Null
        /\ \E terms \in Terms, current, created \in Stamps :
             LET proposal == Complete(published.proposal, terms) IN
             /\ VerifyProposalData(proposal, current)
             /\ VerifyEndorsements(published.proposal, published.endorsements)
             /\ contract = CreateContract(proposal, published.endorsements, Fees,
                                          Feerate, created)

LEMMA ContractReceived == PublicationSpec => []Received
<1>1. PublicationInit => Received
  BY DEF PublicationInit, Received
<1>2. Received /\ [PublicationNext]_allVars => Received'
  <2>. SUFFICES ASSUME Received, [PublicationNext]_allVars PROVE Received'
    OBVIOUS
  <2>1. CASE UNCHANGED allVars
    BY <2>1 DEF Received, allVars
  <2>2. CASE Next /\ UNCHANGED contract
    BY <2>2 DEF Received, Next
  <2>3. ASSUME NEW terms \in Terms, NEW current \in Stamps, NEW created \in Stamps,
               Receive(terms, current, created)
        PROVE  Received'
    BY <2>3 DEF Receive, Received
  <2>. QED
    BY <2>1, <2>2, <2>3 DEF PublicationNext
<1>. QED
  BY <1>1, <1>2, PTL DEF PublicationSpec

\* A contract carries endorsements of the proposal it was made of: whoever
\* signed that proposal verifies the contract against it.
THEOREM Endorsers == PublicationSpec => []EndorsersVerify
<1>1. Received => EndorsersVerify
  <2>. SUFFICES ASSUME Received, contract # Null,
                       NEW sig \in ToSet(contract.endorsements)
                PROVE  \E terms \in Terms :
                          VerifyContractPublishing(contract, Complete(sig.signs, terms))
    BY DEF EndorsersVerify
  <2>1. PICK terms \in Terms, created \in Stamps :
          /\ VerifyEndorsements(published.proposal, published.endorsements)
          /\ contract = CreateContract(Complete(published.proposal, terms),
                                       published.endorsements, Fees, Feerate, created)
    BY DEF Received
  <2>. DEFINE proposal == Complete(published.proposal, terms)
  <2>2. sig.signs = published.proposal
    <3>1. contract.endorsements = published.endorsements
      BY <2>1 DEF CreateContract
    <3>. QED
      BY <2>1, <3>1 DEF VerifyEndorsements, VerifyEndorsement, ToSet
  <2>. HIDE DEF proposal
  <2>3. VerifyContractPublishing(contract, proposal)
    <3>1. contract = CreateContract(proposal, published.endorsements, Fees, Feerate, created)
      BY <2>1 DEF proposal
    <3>. QED
      BY <3>1 DEF VerifyContractPublishing, CreateContract
  <2>. QED
    BY <2>2, <2>3 DEF proposal
<1>. QED
  BY <1>1, ContractReceived, PTL

\* The outputs pay what the entries do, where they do.
LEMMA OutputsPay ==
    ASSUME NEW s, Amounts(s)
    PROVE  /\ Amounts(Outputs(s)) /\ GetPayTotal(Outputs(s)) = GetPayTotal(s)
           /\ \A e \in ToSet(s) : [amount |-> e.amount, addr |-> e.addr] \in ToSet(Outputs(s))
<1>. DEFINE r == Outputs(s)
            n == Len(s)
<1>1. n \in Nat /\ DOMAIN s = 1..n /\ \A i \in 1..n : s[i].amount \in Int
  BY DEF Amounts, IsSequence
<1>2. /\ DOMAIN r = 1..n
      /\ r = [i \in 1..n |-> [amount |-> s[i].amount, addr |-> s[i].addr]]
      /\ \A i \in 1..n : /\ r[i] = [amount |-> s[i].amount, addr |-> s[i].addr]
                         /\ r[i].amount = s[i].amount
  BY <1>1 DEF Outputs
<1>. HIDE DEF r, n
<1>3. r \in [1..n -> ToSet(r)]
  <2>1. \A i \in 1..n : r[i] \in ToSet(r)
    BY <1>2 DEF ToSet
  <2>2. r = [i \in 1..n |-> r[i]]
    BY <1>2
  <2>. QED
    BY <2>1, <2>2
<1>4. r \in Seq(ToSet(r)) /\ Len(r) = n
  BY <1>1, <1>3
<1>5. Amounts(r)
  BY <1>1, <1>2, <1>4 DEF Amounts, IsSequence
<1>6. GetPayTotal(r) = GetPayTotal(s)
  BY <1>2, <1>4, <1>5, TotalSame DEF n
<1>7. \A e \in ToSet(s) : [amount |-> e.amount, addr |-> e.addr] \in ToSet(r)
  BY <1>1, <1>2 DEF ToSet
<1>. QED
  BY <1>5, <1>6, <1>7 DEF r

\* What a member brings has an amount.
LEMMA ProposalPriced ==
    ASSUME NEW M \in SUBSET Members, NEW proposal, ProposalIs(proposal, M)
    PROVE  Amounts(proposal.paths) /\ Amounts(proposal.payments)
<1>1. ASSUME NEW e \in PathsIn(M) PROVE e.amount \in Int
  BY PathWallet, TemplateWallet DEF PathsIn
<1>2. ASSUME NEW e \in PaymentsIn(M) PROVE e.amount \in Int
  <2>1. ASSUME NEW m \in M, e = PaymentOf(m) PROVE e.amount \in Int
    <3>1. m \in Members
      OBVIOUS
    <3>. QED
      BY <2>1, <3>1, PaymentWallet
  <2>2. CASE e \in ToSet(Template.payments)
    BY <2>2, TemplateWallet
  <2>. QED
    BY <2>1, <2>2 DEF PaymentsIn
<1>3. /\ IsSequence(proposal.paths) /\ ToSet(proposal.paths) = PathsIn(M)
      /\ IsSequence(proposal.payments) /\ ToSet(proposal.payments) \subseteq PaymentsIn(M) \cup Strays
  BY DEF ProposalIs, EntriesAre, PaymentsAre
<1>4. /\ \A i \in DOMAIN proposal.paths : proposal.paths[i] \in PathsIn(M)
      /\ \A i \in DOMAIN proposal.payments : proposal.payments[i] \in PaymentsIn(M) \cup Strays
  BY <1>3 DEF ToSet
<1>. QED
  BY <1>1, <1>2, <1>3, <1>4, StrayIs DEF Amounts

\* The paths and payments of the proposal are those the members bring.
LEMMA CompleteKeeps ==
    ASSUME NEW entries, NEW terms
    PROVE  /\ Complete(entries, terms).paths = entries.paths
           /\ Complete(entries, terms).payments = entries.payments
<1>. DEFINE f == CreateProposal(terms, terms.created_at)
            programs == [i \in DOMAIN entries.programs |->
                           ProgramTerms[entries.programs[i].terms]
                           @@ [keys |-> entries.programs[i].keys]]
            g == [paths |-> entries.paths, payments |-> entries.payments, programs |-> programs]
<1>1. Complete(entries, terms) = [field \in DOMAIN f \cup DOMAIN g |->
                                    IF field \in DOMAIN g THEN g[field] ELSE f[field]]
  BY DEF Complete
<1>. HIDE DEF f, programs
<1>2. /\ "paths" \in DOMAIN g /\ "payments" \in DOMAIN g
      /\ g["paths"] = entries.paths /\ g["payments"] = entries.payments
  OBVIOUS
<1>. HIDE DEF g
<1>. QED
  BY <1>1, <1>2

\* What a path of a received contract pays.
LEMMA TemplatePays ==
    ASSUME NEW paths, NEW payments, NEW fees, NEW label,
           Amounts(paths), Amounts(payments), Amounts(fees)
    PROVE  LET template == GetPathVouts(label, paths, payments \o fees) IN
           /\ TotalOf(template, DOMAIN template)
                = (GetPayTotal(FilterPath(label, paths)) + GetPayTotal(payments))
                  + GetPayTotal(fees)
           /\ \A e \in ToSet(paths) : e.label = label =>
                [amount |-> e.amount, addr |-> e.addr] \in DOMAIN template
           /\ \A e \in ToSet(payments) : [amount |-> e.amount, addr |-> e.addr] \in DOMAIN template
           /\ GetPayTotal(FilterPath(label, paths)) \in Int /\ GetPayTotal(payments) \in Int
           /\ GetPayTotal(fees) \in Int
<1>. DEFINE a == FilterPath(label, paths)
            b == payments \o fees
            q == Outputs(a) \o Outputs(b)
            template == GetPathVouts(label, paths, b)
<1>1. Amounts(a) /\ ToSet(a) = {e \in ToSet(paths) : e.label = label}
  <2>. DEFINE kept == {e \in ToSet(paths) : e.label = label}
  <2>1. paths \in Seq(ToSet(paths)) /\ a = Filter(paths, kept)
    BY DEF Amounts, IsSequence, FilterPath
  <2>. HIDE DEF a, kept
  <2>2. a \in Seq(ToSet(paths)) /\ ToSet(a) = ToSet(paths) \cap kept
    BY <2>1, FilterIs
  <2>3. DOMAIN a = 1..Len(a) /\ Len(a) \in Nat /\ a = [i \in 1..Len(a) |-> a[i]]
    BY <2>2
  <2>4. \A i \in 1..Len(a) : a[i] \in ToSet(a)
    BY <2>3 DEF ToSet
  <2>5. a \in [1..Len(a) -> ToSet(a)]
    BY <2>3, <2>4
  <2>6. IsSequence(a)
    BY <2>3, <2>5 DEF IsSequence
  <2>7. \A e \in ToSet(paths) : e.amount \in Int
    BY DEF Amounts, ToSet
  <2>8. Amounts(a)
    BY <2>2, <2>3, <2>4, <2>6, <2>7 DEF Amounts
  <2>. QED
    BY <2>2, <2>8 DEF kept
<1>. HIDE DEF a
<1>2. /\ Amounts(b) /\ ToSet(b) = ToSet(payments) \cup ToSet(fees)
      /\ GetPayTotal(b) = GetPayTotal(payments) + GetPayTotal(fees)
      /\ GetPayTotal(payments) \in Int /\ GetPayTotal(fees) \in Int
  BY AmountsConcat, TotalConcat
<1>. HIDE DEF b
<1>3. /\ Amounts(Outputs(a)) /\ GetPayTotal(Outputs(a)) = GetPayTotal(a)
      /\ \A e \in ToSet(a) : [amount |-> e.amount, addr |-> e.addr] \in ToSet(Outputs(a))
  BY <1>1, OutputsPay
<1>4. /\ Amounts(Outputs(b)) /\ GetPayTotal(Outputs(b)) = GetPayTotal(b)
      /\ \A e \in ToSet(b) : [amount |-> e.amount, addr |-> e.addr] \in ToSet(Outputs(b))
  BY <1>2, OutputsPay
<1>5. /\ Amounts(q) /\ ToSet(q) = ToSet(Outputs(a)) \cup ToSet(Outputs(b))
      /\ GetPayTotal(q) = GetPayTotal(a) + GetPayTotal(b)
      /\ GetPayTotal(a) \in Int
  <2>. DEFINE oa == Outputs(a)
              ob == Outputs(b)
  <2>1. Amounts(oa) /\ Amounts(ob) /\ GetPayTotal(oa) = GetPayTotal(a) /\ GetPayTotal(ob) = GetPayTotal(b)
    BY <1>3, <1>4
  <2>. HIDE DEF oa, ob
  <2>2. /\ Amounts(oa \o ob) /\ ToSet(oa \o ob) = ToSet(oa) \cup ToSet(ob)
        /\ GetPayTotal(oa \o ob) = GetPayTotal(oa) + GetPayTotal(ob)
        /\ GetPayTotal(oa) \in Int
    BY <2>1, AmountsConcat, TotalConcat
  <2>. QED
    BY <2>1, <2>2 DEF oa, ob
<1>6. template = BagOf(q) /\ DOMAIN template = ToSet(q)
  <2>1. template = BagOf(q)
    BY DEF GetPathVouts, a
  <2>. HIDE DEF template, q
  <2>. QED
    BY <2>1 DEF BagOf
<1>. HIDE DEF q, template
<1>7. TotalOf(template, DOMAIN template) = GetPayTotal(q)
  <2>1. TotalOf(BagOf(q), ToSet(q)) = GetPayTotal(q)
    BY <1>5, BagTotal
  <2>. QED
    BY <1>6, <2>1
<1>8. GetPayTotal(q) = (GetPayTotal(a) + GetPayTotal(payments)) + GetPayTotal(fees)
  BY <1>2, <1>5
<1>9. ASSUME NEW e \in ToSet(paths), e.label = label
      PROVE  [amount |-> e.amount, addr |-> e.addr] \in DOMAIN template
  BY <1>1, <1>3, <1>5, <1>6, <1>9
<1>10. ASSUME NEW e \in ToSet(payments)
       PROVE  [amount |-> e.amount, addr |-> e.addr] \in DOMAIN template
  BY <1>2, <1>4, <1>5, <1>6
<1>. QED
  BY <1>2, <1>5, <1>7, <1>8, <1>9, <1>10 DEF template, a, b

\* The subtotal the funders bring is what every template pays, and a template
\* pays each member what the role is owed on that path.
THEOREM Paid == PublicationSpec => []MembersArePaid
<1>1. Received /\ Drafts => MembersArePaid
  <2>. SUFFICES ASSUME Received, Drafts, contract # Null, NEW label \in DOMAIN contract.outputs
                PROVE  LET template == contract.outputs[label] IN
                       /\ contract.subtotal = MapThenSumSet(
                            LAMBDA out : out.amount * template[out], DOMAIN template)
                       /\ \A p \in Signers : held[p].proposal = published.proposal =>
                            \A m \in ToSet(held[p].members) :
                              /\ \A e \in PathsOf(m) : e.label = label =>
                                   [amount |-> e.amount, addr |-> e.addr] \in DOMAIN template
                              /\ Policy[m.pid].payment > 0 =>
                                   [amount |-> PaymentOf(m).amount, addr |-> PaymentOf(m).addr]
                                     \in DOMAIN template
    BY DEF MembersArePaid
  <2>. DEFINE entries == published.proposal
              paths == entries.paths
              payments == entries.payments
              template == contract.outputs[label]
  <2>1. PICK terms \in Terms, created \in Stamps :
          /\ CheckPayments(Complete(entries, terms))
          /\ contract = CreateContract(Complete(entries, terms), published.endorsements,
                                       Fees, Feerate, created)
    BY DEF Received, VerifyProposalData
  <2>. DEFINE proposal == Complete(entries, terms)
  <2>2. proposal.paths = paths /\ proposal.payments = payments
    BY CompleteKeeps
  <2>3. Amounts(paths) /\ Amounts(payments) /\ Amounts(Fees)
    <3>1. PICK M \in SUBSET Members : ProposalIs(entries, M)
      BY DEF Drafts, Received
    <3>. QED
      BY <3>1, ProposalPriced, PublicationAssumption DEF Amounts
  <2>. HIDE DEF proposal
  <2>4. /\ contract.outputs = [name \in GetPathNames(paths) |->
                                 GetPathVouts(name, paths, payments \o Fees)]
        /\ contract.subtotal = proposal.value + GetPayTotal(Fees)
    BY <2>1, <2>2 DEF proposal, CreateContract, CreateSpendTemplates
  <2>5. label \in GetPathNames(paths) /\ template = GetPathVouts(label, paths, payments \o Fees)
    BY <2>4
  <2>6. GetPayTotal(FilterPath(label, paths)) + GetPayTotal(payments) = proposal.value
    <3>1. GetPathTotal(paths)[label] + GetPayTotal(payments) = proposal.value
      BY <2>1, <2>2, <2>5 DEF proposal, CheckPayments
    <3>2. GetPathTotal(paths)[label] = GetPayTotal(FilterPath(label, paths))
      BY <2>5 DEF GetPathTotal
    <3>. QED
      BY <3>1, <3>2
  <2>. HIDE DEF template, entries, paths, payments
  <2>7. /\ TotalOf(template, DOMAIN template)
             = (GetPayTotal(FilterPath(label, paths)) + GetPayTotal(payments)) + GetPayTotal(Fees)
        /\ \A e \in ToSet(paths) : e.label = label =>
             [amount |-> e.amount, addr |-> e.addr] \in DOMAIN template
        /\ \A e \in ToSet(payments) : [amount |-> e.amount, addr |-> e.addr] \in DOMAIN template
    BY <2>3, <2>5, TemplatePays
  <2>8. contract.subtotal = MapThenSumSet(LAMBDA out : out.amount * template[out], DOMAIN template)
    <3>1. contract.subtotal = TotalOf(template, DOMAIN template)
      BY <2>4, <2>6, <2>7
    <3>. QED
      BY <3>1 DEF TotalOf
  <2>9. ASSUME NEW p \in Signers, held[p].proposal = entries, NEW m \in ToSet(held[p].members)
        PROVE  /\ \A e \in PathsOf(m) : e.label = label =>
                    [amount |-> e.amount, addr |-> e.addr] \in DOMAIN template
               /\ Policy[m.pid].payment > 0 =>
                    [amount |-> PaymentOf(m).amount, addr |-> PaymentOf(m).addr]
                      \in DOMAIN template
    <3>1. ProposalIs(entries, ToSet(held[p].members))
      BY <2>9 DEF Drafts, Draft
    <3>2. /\ ToSet(paths) = PathsIn(ToSet(held[p].members))
          /\ PaymentsIn(ToSet(held[p].members)) \subseteq ToSet(payments)
      BY <3>1 DEF ProposalIs, EntriesAre, PaymentsAre, paths, payments
    <3>3. \A e \in PathsOf(m) : e \in ToSet(paths)
      BY <3>2 DEF PathsIn
    <3>4. Policy[m.pid].payment > 0 => PaymentOf(m) \in ToSet(payments)
      BY <3>2 DEF PaymentsIn
    <3>6. Policy[m.pid].payment > 0 =>
             [amount |-> PaymentOf(m).amount, addr |-> PaymentOf(m).addr] \in DOMAIN template
      BY <2>7, <3>4
    <3>. QED
      BY <2>7, <3>3, <3>6
  <2>. QED
    BY <2>8, <2>9 DEF template, entries
<1>. QED
  BY <1>1, ContractReceived, DraftsHold, PTL
=============================================================================
