------------------------- MODULE SubsequenceProofs --------------------------
(***************************************************************************)
(* What KeptAt leaves: exactly the elements at the positions kept, each    *)
(* once.                                                                   *)
(***************************************************************************)
EXTENDS Subsequence, FiniteSetTheorems, TLAPS

LEMMA IntervalCounts ==
    ASSUME NEW n \in Nat
    PROVE  IsFiniteSet(1..n) /\ Cardinality(1..n) = n
BY FS_Interval

\* Ranks tell positions apart, and are the positions of what is kept.
LEMMA RankBijective ==
    ASSUME NEW n \in Nat, NEW K \in SUBSET (1..n)
    PROVE  /\ IsFiniteSet(K) /\ Cardinality(K) \in Nat /\ Cardinality(K) <= n
           /\ [j \in K |-> Rank(K, j)] \in Injection(K, 1..Cardinality(K))
           /\ \A m \in 1..Cardinality(K) : \E j \in K : Rank(K, j) = m
<1> DEFINE below(j) == {k \in K : k <= j}
           rank == [j \in K |-> Rank(K, j)]
<1>1. IsFiniteSet(1..n) /\ Cardinality(1..n) = n
  BY IntervalCounts
<1>2. IsFiniteSet(K) /\ Cardinality(K) \in Nat /\ Cardinality(K) <= n
  BY <1>1, FS_Subset, FS_CardinalityType
<1>3. ASSUME NEW j \in K
      PROVE  /\ IsFiniteSet(below(j)) /\ Rank(K, j) = Cardinality(below(j))
             /\ Rank(K, j) \in 1..Cardinality(K)
  <2>1. below(j) \in SUBSET K /\ j \in below(j)
    OBVIOUS
  <2>2. IsFiniteSet(below(j)) /\ Cardinality(below(j)) <= Cardinality(K)
    BY <1>2, <2>1, FS_Subset
  <2>3. Cardinality(below(j)) \in Nat /\ Cardinality(below(j)) # 0
    BY <2>1, <2>2, FS_CardinalityType, FS_EmptySet
  <2> QED BY <1>2, <2>2, <2>3 DEF Rank
<1>4. ASSUME NEW i \in K, NEW j \in K, i < j
      PROVE  Rank(K, i) # Rank(K, j)
  <2>1. below(i) \in SUBSET below(j) /\ j \in below(j) /\ j \notin below(i)
    <3>1. \A k \in K : k \in Int
      OBVIOUS
    <3>2. \A k \in K : k <= i => k <= j
      BY <1>4, <3>1
    <3>3. j <= j /\ ~(j <= i)
      BY <1>4, <3>1
    <3> QED BY <3>2, <3>3
  <2>2. Cardinality(below(i)) # Cardinality(below(j))
    BY <1>3, <2>1, FS_Subset
  <2> QED BY <1>3, <2>2
<1>5. ASSUME NEW i \in K, NEW j \in K, rank[i] = rank[j]
      PROVE  i = j
  <2>1. i \in Nat /\ j \in Nat /\ Rank(K, i) = Rank(K, j)
    BY <1>5
  <2> QED BY <1>4, <2>1
<1>6. rank \in Injection(K, 1..Cardinality(K))
  <2>1. rank \in [K -> 1..Cardinality(K)]
    BY <1>3
  <2> QED BY <1>5, <2>1 DEF Injection, IsInjective
<1>7. IsFiniteSet(1..Cardinality(K)) /\ Cardinality(1..Cardinality(K)) = Cardinality(K)
  BY <1>2, IntervalCounts
<1>8. rank \in Surjection(K, 1..Cardinality(K))
  BY <1>6, <1>7, FS_Injection
<1> QED BY <1>2, <1>6, <1>8 DEF Surjection

\* Every element kept is one of the sequence, from a position of its own, and
\* every position kept has its element.
LEMMA KeptAtElements ==
    ASSUME NEW S, NEW s \in Seq(S), NEW K \in SUBSET (1..Len(s))
    PROVE  /\ KeptAt(s, K) \in Seq(S)
           /\ Len(KeptAt(s, K)) = Cardinality(K) /\ Cardinality(K) <= Len(s)
           /\ \A j \in K : /\ Rank(K, j) \in 1..Cardinality(K)
                           /\ KeptAt(s, K)[Rank(K, j)] = s[j]
           /\ \A i, j \in K : Rank(K, i) = Rank(K, j) => i = j
           /\ \A m \in 1..Cardinality(K) : \E j \in K : Rank(K, j) = m
<1> DEFINE r == KeptAt(s, K)
           at(m) == CHOOSE j \in K : Rank(K, j) = m
<1>1. /\ Cardinality(K) \in Nat /\ Cardinality(K) <= Len(s)
      /\ [j \in K |-> Rank(K, j)] \in Injection(K, 1..Cardinality(K))
      /\ \A m \in 1..Cardinality(K) : \E j \in K : Rank(K, j) = m
  BY RankBijective
<1>2. ASSUME NEW m \in 1..Cardinality(K) PROVE at(m) \in K /\ Rank(K, at(m)) = m
  BY <1>1
<1>3. /\ \A j \in K : Rank(K, j) \in 1..Cardinality(K)
      /\ \A i, j \in K : Rank(K, i) = Rank(K, j) => i = j
  BY <1>1 DEF Injection, IsInjective
<1>4. r \in [1..Cardinality(K) -> S]
  <2>1. \A j \in 1..Len(s) : s[j] \in S
    OBVIOUS
  <2>2. \A m \in 1..Cardinality(K) : at(m) \in 1..Len(s)
    BY <1>2
  <2>3. \A m \in 1..Cardinality(K) : s[at(m)] \in S
    BY <2>1, <2>2
  <2> QED BY <2>3 DEF KeptAt
<1>5. r \in Seq(S) /\ Len(r) = Cardinality(K)
  BY <1>1, <1>4
<1>6. ASSUME NEW j \in K PROVE r[Rank(K, j)] = s[j]
  <2>1. at(Rank(K, j)) = j
    BY <1>2, <1>3
  <2> QED BY <1>3, <2>1 DEF KeptAt
<1> QED BY <1>1, <1>3, <1>5, <1>6
LEMMA KeptAtFrom ==
    ASSUME NEW S, NEW s \in Seq(S), NEW K \in SUBSET (1..Len(s))
    PROVE  \A m \in 1..Len(KeptAt(s, K)) : \E j \in K : KeptAt(s, K)[m] = s[j]
<1>1. /\ Len(KeptAt(s, K)) = Cardinality(K)
      /\ \A j \in K : KeptAt(s, K)[Rank(K, j)] = s[j]
      /\ \A m \in 1..Cardinality(K) : \E j \in K : Rank(K, j) = m
  BY KeptAtElements, Zenon
<1> QED BY <1>1

-----------------------------------------------------------------------------
(* Sequences as multisets.                                                 *)

\* Every element of g is one of h, each from a position of its own.
EmbedsBy(f, g, h) ==
    /\ f \in [1..Len(g) -> 1..Len(h)]
    /\ \A i, j \in 1..Len(g) : f[i] = f[j] => i = j
    /\ \A i \in 1..Len(g) : g[i] = h[f[i]]

Embeds(g, h) == \E f : EmbedsBy(f, g, h)

LEMMA EmbedsLen ==
    ASSUME NEW S, NEW g \in Seq(S), NEW h \in Seq(S), Embeds(g, h)
    PROVE  Len(g) <= Len(h)
<1>1. PICK f : EmbedsBy(f, g, h)
  BY DEF Embeds
<1>2. f \in Injection(1..Len(g), 1..Len(h))
  BY <1>1 DEF EmbedsBy, Injection, IsInjective
<1>3. Len(g) \in Nat /\ Len(h) \in Nat
  OBVIOUS
<1>4. /\ IsFiniteSet(1..Len(h)) /\ Cardinality(1..Len(h)) = Len(h)
      /\ Cardinality(1..Len(g)) = Len(g)
  BY <1>3, IntervalCounts
<1>5. Cardinality(1..Len(g)) <= Cardinality(1..Len(h))
  BY <1>2, <1>4, FS_Injection, Zenon
<1> QED BY <1>4, <1>5

LEMMA EmbedsTransitive ==
    ASSUME NEW S, NEW a \in Seq(S), NEW b \in Seq(S), NEW c \in Seq(S),
           Embeds(a, b), Embeds(b, c)
    PROVE  Embeds(a, c)
<1>1. PICK f : EmbedsBy(f, a, b)
  BY DEF Embeds
<1>2. PICK g : EmbedsBy(g, b, c)
  BY DEF Embeds
<1> DEFINE e == [i \in 1..Len(a) |-> g[f[i]]]
<1>3. \A i \in 1..Len(a) : f[i] \in 1..Len(b) /\ g[f[i]] \in 1..Len(c)
  BY <1>1, <1>2 DEF EmbedsBy
<1>4. EmbedsBy(e, a, c)
  <2>1. e \in [1..Len(a) -> 1..Len(c)]
    BY <1>3
  <2>2. ASSUME NEW i \in 1..Len(a), NEW j \in 1..Len(a), e[i] = e[j]
        PROVE  i = j
    <3>1. g[f[i]] = g[f[j]]
      BY <2>2
    <3>2. f[i] = f[j]
      BY <1>2, <1>3, <3>1 DEF EmbedsBy
    <3> QED BY <1>1, <3>2 DEF EmbedsBy
  <2>3. \A i \in 1..Len(a) : a[i] = c[e[i]]
    BY <1>1, <1>2, <1>3 DEF EmbedsBy
  <2> QED BY <2>1, <2>2, <2>3 DEF EmbedsBy
<1> QED BY <1>4 DEF Embeds

\* What is kept was there.
LEMMA KeptEmbeds ==
    ASSUME NEW S, NEW s \in Seq(S), NEW K \in SUBSET (1..Len(s))
    PROVE  Embeds(KeptAt(s, K), s)
<1> DEFINE at(m) == CHOOSE j \in K : Rank(K, j) = m
           f == [m \in 1..Cardinality(K) |-> at(m)]
<1>1. /\ Len(KeptAt(s, K)) = Cardinality(K)
      /\ \A j \in K : KeptAt(s, K)[Rank(K, j)] = s[j]
      /\ \A m \in 1..Cardinality(K) : \E j \in K : Rank(K, j) = m
  BY KeptAtElements, Zenon
<1>2. ASSUME NEW m \in 1..Cardinality(K) PROVE at(m) \in K /\ Rank(K, at(m)) = m
  BY <1>1
<1> HIDE DEF at
<1>3. f \in [1..Cardinality(K) -> 1..Len(s)]
  BY <1>2
<1>4. \A i, j \in 1..Cardinality(K) : f[i] = f[j] => i = j
  BY <1>2
<1>5. \A m \in 1..Cardinality(K) : KeptAt(s, K)[m] = s[f[m]]
  BY <1>1, <1>2
<1> HIDE DEF f
<1>6. EmbedsBy(f, KeptAt(s, K), s)
  BY <1>1, <1>3, <1>4, <1>5 DEF EmbedsBy
<1> QED BY <1>6 DEF Embeds

\* What is embedded stays so when only other elements are dropped.
LEMMA EmbedsInKept ==
    ASSUME NEW S, NEW g \in Seq(S), NEW h \in Seq(S), Embeds(g, h),
           NEW K \in SUBSET (1..Len(h)),
           \A i \in 1..Len(g), j \in 1..Len(h) : g[i] = h[j] => j \in K
    PROVE  Embeds(g, KeptAt(h, K))
<1>1. PICK f : EmbedsBy(f, g, h)
  BY DEF Embeds
<1> DEFINE e == [i \in 1..Len(g) |-> Rank(K, f[i])]
<1>2. /\ Len(KeptAt(h, K)) = Cardinality(K)
      /\ \A j \in K : /\ Rank(K, j) \in 1..Cardinality(K)
                      /\ KeptAt(h, K)[Rank(K, j)] = h[j]
      /\ \A i, j \in K : Rank(K, i) = Rank(K, j) => i = j
  BY KeptAtElements, Zenon
<1>3. \A i \in 1..Len(g) : f[i] \in K /\ g[i] = h[f[i]]
  BY <1>1 DEF EmbedsBy
<1>4. e \in [1..Len(g) -> 1..Cardinality(K)]
  BY <1>2, <1>3
<1>5. \A i, j \in 1..Len(g) : e[i] = e[j] => i = j
  BY <1>1, <1>2, <1>3 DEF EmbedsBy
<1>6. \A i \in 1..Len(g) : g[i] = KeptAt(h, K)[e[i]]
  BY <1>2, <1>3
<1> QED BY <1>2, <1>4, <1>5, <1>6 DEF Embeds, EmbedsBy

LEMMA EmbedsAppend ==
    ASSUME NEW S, NEW g \in Seq(S), NEW h \in Seq(S), NEW x \in S, Embeds(g, h)
    PROVE  Embeds(g, Append(h, x)) /\ Embeds(Append(g, x), Append(h, x))
<1>1. PICK f : EmbedsBy(f, g, h)
  BY DEF Embeds
<1>2. /\ Len(g) \in Nat /\ Len(h) \in Nat
      /\ Len(Append(g, x)) = Len(g) + 1 /\ Len(Append(h, x)) = Len(h) + 1
      /\ \A i \in 1..Len(g) : Append(g, x)[i] = g[i]
      /\ \A i \in 1..Len(h) : Append(h, x)[i] = h[i]
      /\ Append(g, x)[Len(g) + 1] = x /\ Append(h, x)[Len(h) + 1] = x
  OBVIOUS
<1>3. EmbedsBy(f, g, Append(h, x))
  BY <1>1, <1>2 DEF EmbedsBy
<1> DEFINE e == [i \in 1..(Len(g) + 1) |-> IF i \in 1..Len(g) THEN f[i] ELSE Len(h) + 1]
<1>4. EmbedsBy(e, Append(g, x), Append(h, x))
  <2>1. \A i \in 1..Len(g) : f[i] \in 1..Len(h) /\ g[i] = h[f[i]] /\ i \in 1..(Len(g) + 1)
    BY <1>1, <1>2 DEF EmbedsBy
  <2>2. \A i \in 1..(Len(g) + 1) : i \in 1..Len(g) \/ i = Len(g) + 1
    BY <1>2
  <2>3. e \in [1..(Len(g) + 1) -> 1..(Len(h) + 1)]
    BY <1>2, <2>1
  <2>4. \A i, j \in 1..(Len(g) + 1) : e[i] = e[j] => i = j
    BY <1>1, <1>2, <2>1, <2>2 DEF EmbedsBy
  <2>5. \A i \in 1..(Len(g) + 1) : Append(g, x)[i] = Append(h, x)[e[i]]
    BY <1>2, <2>1, <2>2
  <2> HIDE DEF e
  <2> QED BY <1>2, <2>3, <2>4, <2>5 DEF EmbedsBy
<1> QED BY <1>3, <1>4 DEF Embeds

\* Elements may change as long as equal ones stay equal.
LEMMA EmbedsChanged ==
    ASSUME NEW S, NEW g \in Seq(S), NEW h \in Seq(S), Embeds(g, h),
           NEW a \in Seq(S), NEW b \in Seq(S), Len(a) = Len(g), Len(b) = Len(h),
           \A i \in 1..Len(g), j \in 1..Len(h) : g[i] = h[j] => a[i] = b[j]
    PROVE  Embeds(a, b)
<1>1. PICK f : EmbedsBy(f, g, h)
  BY DEF Embeds
<1>2. EmbedsBy(f, a, b)
  BY <1>1 DEF EmbedsBy
<1> QED BY <1>2 DEF Embeds
=============================================================================
