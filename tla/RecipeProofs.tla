---------------------------- MODULE RecipeProofs ----------------------------
(***************************************************************************)
(* Theorems about Recipe: what validation lets pass, what the clamp makes  *)
(* of it, and that recordings replay, for any categories, answers, caps    *)
(* and contents of the directory.                                          *)
(***************************************************************************)
EXTENDS Recipe, DataLemmas

\* The recipe made of an answer without the categories nobody wants.
LEMMA WantedType ==
  ASSUME NEW s \in Seq(CategoryRecipe)
  PROVE  Wanted(s) \in Seq(CategoryRecipe)
<1> DEFINE n == Len(s)
           Body(f, i) == IF i = 0 THEN << >>
                         ELSE IF s[i].Count > 0 THEN Append(f[i - 1], s[i]) ELSE f[i - 1]
           IsLoop(f, k) == f = [i \in 0..k |-> Body(f, i)]
           N == {k \in Nat : \E f : IsLoop(f, k)}
           first == CHOOSE f : IsLoop(f, n)
<1>1. n \in Nat /\ \A i \in 1..n : s[i] \in CategoryRecipe
  BY ElementIn
<1>2. 0 \in N
  <2> DEFINE f == [i \in 0..0 |-> << >>]
  <2>1. IsLoop(f, 0)
    OBVIOUS
  <2> QED BY <2>1
<1>3. ASSUME NEW k \in N PROVE k + 1 \in N
  <2>1. PICK f : IsLoop(f, k)
    BY <1>3
  <2> DEFINE g == [i \in 0..(k + 1) |-> Body(f, i)]
  <2>2. \A i \in 0..k : g[i] = f[i]
    <3>1. k \in Nat /\ \A i \in 0..k : f[i] = Body(f, i)
      BY <1>3, <2>1
    <3> QED BY <3>1
  <2>3. \A i \in 0..(k + 1) : i # 0 => g[i - 1] = f[i - 1]
    <3>1. k \in Nat
      BY <1>3
    <3> HIDE DEF g
    <3> QED BY <2>2, <3>1
  <2>4. IsLoop(g, k + 1)
    BY <2>3
  <2>5. \E h : IsLoop(h, k + 1)
    BY <2>4
  <2> HIDE DEF IsLoop
  <2> QED BY <1>3, <2>5
<1>4. N = Nat
  <2> HIDE DEF N
  <2>1. N \in SUBSET Nat
    BY DEF N
  <2> QED BY <1>2, <1>3, <2>1, NatSetInduction
<1>5. IsLoop(first, n)
  BY <1>1, <1>4
<1> HIDE DEF first
<1> DEFINE T == {i \in Nat : i <= n => first[i] \in Seq(CategoryRecipe)}
<1>6. \A i \in 0..n : first[i] = Body(first, i)
  BY <1>5
<1>7. 0 \in T
  <2>1. first[0] = << >>
    BY <1>1, <1>6
  <2>2. << >> \in Seq(CategoryRecipe)
    OBVIOUS
  <2> QED BY <2>1, <2>2
<1>8. ASSUME NEW i \in T PROVE i + 1 \in T
  <2>1. SUFFICES ASSUME i + 1 <= n PROVE first[i + 1] \in Seq(CategoryRecipe)
    BY <1>8
  <2>2. i + 1 \in 1..n /\ first[i] \in Seq(CategoryRecipe) /\ i + 1 - 1 = i
    BY <1>1, <1>8, <2>1
  <2>3. first[i + 1] = IF s[i + 1].Count > 0 THEN Append(first[i], s[i + 1]) ELSE first[i]
    BY <1>1, <1>6, <2>2
  <2>4. Append(first[i], s[i + 1]) \in Seq(CategoryRecipe)
    BY <1>1, <2>2, AppendFacts
  <2> QED BY <2>2, <2>3, <2>4
<1>9. T = Nat
  <2> HIDE DEF T
  <2>1. T \in SUBSET Nat
    BY DEF T
  <2> QED BY <1>7, <1>8, <2>1, NatSetInduction
<1>10. first[n] \in Seq(CategoryRecipe)
  BY <1>1, <1>9
<1>11. Wanted(s) = first[n]
  BY DEF Wanted, first
<1> QED BY <1>10, <1>11

-----------------------------------------------------------------------------
(* validateRecipe                                                          *)

\* A recipe that passes names categories of the manifest, each once, and has
\* no negative count.
LEMMA DetailFacts ==
  ASSUME NEW s \in Seq(CategoryRecipe), Detail(s) = NoDetail
  PROVE  /\ \A i \in Indices(s) : s[i].Category \in manifest /\ s[i].Count >= 0
         /\ \A i, j \in Indices(s) : s[i].Category = s[j].Category => i = j
<1> DEFINE bad == {i \in 1..Len(s) : Problem(s, i) # NoDetail}
<1>1. bad = {}
  <2> SUFFICES ASSUME bad # {} PROVE FALSE
    OBVIOUS
  <2>1. bad \in SUBSET Nat
    BY ElementIn
  <2>2. \E m \in bad : \A k \in bad : m <= k
    <3> HIDE DEF bad
    <3> QED BY <2>1, LeastNat
  <2>3. Min(bad) \in bad
    BY <2>2 DEF Min
  <2>4. s # << >>
    OBVIOUS
  <2>5. Detail(s) = Problem(s, Min(bad))
    BY <2>4 DEF Detail
  <2> QED BY <2>3, <2>5
<1>2. \A i \in 1..Len(s) : Problem(s, i) = NoDetail
  BY <1>1
<1>3. Len(s) \in Nat /\ \A i \in 1..Len(s) : s[i] \in CategoryRecipe
  BY ElementIn
<1>4. ASSUME NEW i \in 1..Len(s)
      PROVE  /\ s[i].Category \in manifest /\ s[i].Count >= 0
             /\ \A j \in 1..i - 1 : s[j].Category # s[i].Category
  <2>1. \A x : <<"not in manifest", x>> # NoDetail /\ <<"twice", x>> # NoDetail
    BY DEF NoDetail
  <2>2. \A x, y : <<"negative", x, y>> # NoDetail
    BY DEF NoDetail
  <2>3. s[i].Count \in Int
    BY <1>3 DEF CategoryRecipe
  <2>4. s[i].Category \in manifest
    BY <1>2, <2>1 DEF Problem
  <2>5. ~ \E j \in 1..i - 1 : s[j].Category = s[i].Category
    BY <1>2, <2>1, <2>4 DEF Problem
  <2>6. ~(s[i].Count < 0)
    BY <1>2, <2>2, <2>4, <2>5 DEF Problem
  <2> QED BY <2>3, <2>4, <2>5, <2>6
<1>5. ASSUME NEW i \in 1..Len(s), NEW j \in 1..Len(s), s[i].Category = s[j].Category
      PROVE  i = j
  <2>1. CASE i < j
    <3>1. i \in 1..j - 1
      BY <1>3, <2>1
    <3> QED BY <1>4, <1>5, <3>1
  <2>2. CASE j < i
    <3>1. j \in 1..i - 1
      BY <1>3, <2>2
    <3> QED BY <1>4, <1>5, <3>1
  <2> QED BY <1>3, <2>1, <2>2
<1> QED BY <1>4, <1>5 DEF Indices

-----------------------------------------------------------------------------
(* clampCounts                                                             *)

\* The total of a recipe is the sum of its counts.
LEMMA TotalIsSum ==
  ASSUME NEW s \in Seq(CategoryRecipe), NEW w, \A i \in Indices(s) : w[i] = s[i].Count
  PROVE  Total(s) = Sum(w, Indices(s)) /\ IsFiniteSet(Indices(s)) /\ Len(s) \in Nat
<1> DEFINE S == Indices(s)
<1>1. IsFiniteSet(S) /\ Len(s) \in Nat
  <2>1. Len(s) \in Nat
    BY ElementIn
  <2> QED BY <2>1, FS_Interval DEF Indices
<1> HIDE DEF S
<1>2. ASSUME NEW it
      PROVE  (it = [t \in SUBSET S |-> IF t = {} THEN 0 ELSE w[Pick(t)] + it[t \ {Pick(t)}]])
         <=> (it = [t \in SUBSET S |-> IF t = {} THEN 0 ELSE s[Pick(t)].Count + it[t \ {Pick(t)}]])
  <2>1. \A t \in SUBSET S : t # {} => w[Pick(t)] = s[Pick(t)].Count
    BY <1>1, SmallerSubset DEF S
  <2> QED BY <2>1
<1>3. Total(s) = (CHOOSE it : it = [t \in SUBSET S |->
                    IF t = {} THEN 0 ELSE s[Pick(t)].Count + it[t \ {Pick(t)}]])[S]
  BY DEF Total, MapThenSumSet, MapThenFoldSet, Pick, S
<1>4. SumFcn(w, S) = CHOOSE it : it = [t \in SUBSET S |->
                    IF t = {} THEN 0 ELSE w[Pick(t)] + it[t \ {Pick(t)}]]
  BY DEF SumFcn, IsSum
<1>5. (CHOOSE it : it = [t \in SUBSET S |->
                    IF t = {} THEN 0 ELSE s[Pick(t)].Count + it[t \ {Pick(t)}]])
      = CHOOSE it : it = [t \in SUBSET S |->
                    IF t = {} THEN 0 ELSE w[Pick(t)] + it[t \ {Pick(t)}]]
  BY <1>2
<1>6. Sum(w, S) = SumFcn(w, S)[S]
  BY SumIs
<1> QED BY <1>1, <1>3, <1>4, <1>5, <1>6 DEF S

\* The capped recipe: each count within the cap, none raised, none lost.
LEMMA CappedFacts ==
  ASSUME NEW s \in Seq(CategoryRecipe), \A i \in Indices(s) : s[i].Count >= 0
  PROVE  /\ Capped(s) \in Seq(CategoryRecipe) /\ Len(Capped(s)) = Len(s)
         /\ \A i \in Indices(s) :
              /\ Capped(s)[i].Category = s[i].Category
              /\ Capped(s)[i].Count \in Nat
              /\ Capped(s)[i].Count <= Least(s[i].Count, MaxAssetsPerCategory)
              /\ s[i].Count > 0 => Capped(s)[i].Count > 0
<1> DEFINE n == Len(s)
           c == Capped(s)
<1>1. n \in Nat /\ \A i \in 1..n : s[i] \in CategoryRecipe
  BY ElementIn
<1>2. c = [i \in 1..n |-> [s[i] EXCEPT !.Count = Least(@, MaxAssetsPerCategory)]]
  BY DEF Capped, Indices
<1> HIDE DEF c
<1>3. ASSUME NEW i \in 1..n
      PROVE  /\ c[i] \in CategoryRecipe /\ c[i].Category = s[i].Category
             /\ c[i].Count = Least(s[i].Count, MaxAssetsPerCategory)
             /\ s[i].Count \in Nat /\ c[i].Count \in Nat
             /\ s[i].Count > 0 => c[i].Count > 0
  <2>1. s[i].Count \in Nat /\ s[i].Category \in Categories
    BY <1>1 DEF CategoryRecipe, Indices
  <2>2. /\ Least(s[i].Count, MaxAssetsPerCategory) \in Nat
        /\ s[i].Count > 0 => Least(s[i].Count, MaxAssetsPerCategory) > 0
    BY <2>1, RecipeAssumption DEF Least
  <2>3. c[i] = [s[i] EXCEPT !.Count = Least(@, MaxAssetsPerCategory)]
    BY <1>2
  <2>4. c[i] \in CategoryRecipe /\ c[i].Category = s[i].Category
        /\ c[i].Count = Least(s[i].Count, MaxAssetsPerCategory)
    BY <1>1, <2>2, <2>3 DEF CategoryRecipe
  <2> QED BY <2>1, <2>2, <2>4
<1>4. c \in Seq(CategoryRecipe) /\ Len(c) = n
  <2>1. c \in [1..n -> CategoryRecipe]
    BY <1>2, <1>3
  <2> QED BY <1>1, <2>1, FunctionIsSeq
<1>5. \A i \in Indices(s) : /\ c[i].Category = s[i].Category /\ c[i].Count \in Nat
                            /\ c[i].Count <= Least(s[i].Count, MaxAssetsPerCategory)
                            /\ s[i].Count > 0 => c[i].Count > 0
  <2>1. \A i \in 1..n : c[i].Count <= c[i].Count
    BY <1>3
  <2> QED BY <1>3, <2>1 DEF Indices
<1> QED BY <1>4, <1>5 DEF c

\* A count's share of the global cap is not more than the count itself.
LEMMA ShareIsLess ==
  ASSUME NEW v \in Nat, NEW t \in Nat \ {0}, MaxAssetsTotal < t,
         NEW c \in 0..MaxAssetsTotal, c \in Products(v, t)
  PROVE  c \in Nat /\ c <= v /\ t * c <= v * MaxAssetsTotal
<1> DEFINE M == MaxAssetsTotal
           q == (v * M) \div t
<1>1. M \in Nat /\ c \in Nat /\ v * M \in Int
  BY RecipeAssumption
<1>2. q \in Int /\ t * q <= v * M
  BY <1>1, Floor
<1>3. c = q \/ c = q - 1
  BY DEF Products
<1> HIDE DEF q, M
<1>4. t * c <= t * q
  BY <1>1, <1>2, <1>3, TimesMonotonic
<1>5. t * c <= v * M
  BY <1>1, <1>2, <1>4
<1>6. c <= v
  <2> SUFFICES ASSUME v + 1 <= c PROVE FALSE
    BY <1>1
  <2>1. t * (v + 1) <= t * c
    BY <1>1, TimesMonotonic
  <2>2. v * M <= v * t
    BY <1>1, TimesMonotonic DEF M
  <2>3. t * (v + 1) = v * t + t
    OBVIOUS
  <2>4. t * (v + 1) \in Int /\ t * c \in Int /\ v * M \in Int /\ v * t \in Int
    BY <1>1
  <2> QED BY <1>5, <2>1, <2>2, <2>3, <2>4
<1> QED BY <1>1, <1>5, <1>6 DEF M

\* What scaling and raising to one asset makes of a count: it does not grow or
\* vanish, and is its share of the global cap unless it is one.
LEMMA ScaledFacts ==
  ASSUME NEW v \in Nat, NEW t \in Nat \ {0}, MaxAssetsTotal < t,
         NEW c \in 0..MaxAssetsTotal, c \in Products(v, t)
  PROVE  LET n == AtLeastOne(v, c) IN
         /\ n \in Nat /\ n <= v /\ (v > 0 => n >= 1)
         /\ n # 1 => t * n <= v * MaxAssetsTotal
         /\ n = 1 => t * (n - 1) <= v * MaxAssetsTotal
<1>1. c \in Nat /\ c <= v /\ t * c <= v * MaxAssetsTotal
  BY ShareIsLess
<1>2. t * 0 <= v * MaxAssetsTotal
  BY RecipeAssumption
<1> QED BY <1>1, <1>2 DEF AtLeastOne

\* Scaled counts of which those of D were raised exceed the cap by at most one
\* for each of D.
LEMMA ScaledTotal ==
  ASSUME NEW S, IsFiniteSet(S), NEW w, NEW v, NEW D \in SUBSET S, NEW M \in Nat,
         \A x \in S : w[x] \in Nat /\ v[x] \in Nat,
         Sum(v, S) # 0,
         \A x \in S \ D : Sum(v, S) * w[x] <= v[x] * M,
         \A x \in D : Sum(v, S) * (w[x] - 1) <= v[x] * M
  PROVE  Sum(w, S) <= M + Cardinality(D)
<1> DEFINE t == Sum(v, S)
           d == Sum(w, S) - Cardinality(D)
<1>1. t \in Nat /\ Sum(w, S) \in Nat /\ Cardinality(D) \in Nat
  BY SumType, FS_Subset, FS_CardinalityType
<1>2. t * d <= t * M
  <2>1. t * d <= Sum(v, S) * M
    BY <1>1, SharesBound
  <2> QED BY <2>1
<1>3. SUFFICES ASSUME M + 1 <= d PROVE FALSE
  BY <1>1
<1>4. d \in Int /\ t > 0
  BY <1>1
<1> HIDE DEF t, d
<1>5. t * (M + 1) <= t * d
  BY <1>1, <1>3, <1>4, TimesMonotonic
<1>6. t * (M + 1) = t * M + t
  BY <1>1
<1>7. t * (M + 1) \in Int /\ t * d \in Int /\ t * M \in Int
  BY <1>1, <1>4
<1> QED BY <1>1, <1>2, <1>4, <1>5, <1>6, <1>7

\* What the clamp leaves of a valid recipe, in the terms of CapsAreKept.
Kept(s, c) ==
    /\ c \in Seq(CategoryRecipe) /\ Len(c) = Len(s)
    /\ \A i \in Indices(s) :
         /\ c[i].Category = s[i].Category /\ c[i].Count \in Nat
         /\ s[i].Count > 0 => c[i].Count >= 1
         /\ c[i].Count <= Least(s[i].Count, MaxAssetsPerCategory)
    /\ Total(c) <= MaxAssetsTotal + Cardinality({i \in Indices(s) : c[i].Count = 1})

\* A recipe within the caps.
LEMMA CappedIsKept ==
  ASSUME NEW s \in Seq(CategoryRecipe), \A i \in Indices(s) : s[i].Count >= 0,
         WithinCaps(Total(Capped(s)))
  PROVE  Kept(s, Capped(s))
<1> DEFINE c == Capped(s)
           D == {i \in Indices(s) : c[i].Count = 1}
<1>1. /\ c \in Seq(CategoryRecipe) /\ Len(c) = Len(s)
      /\ \A i \in Indices(s) : /\ c[i].Category = s[i].Category /\ c[i].Count \in Nat
                               /\ c[i].Count <= Least(s[i].Count, MaxAssetsPerCategory)
                               /\ s[i].Count > 0 => c[i].Count > 0
  BY CappedFacts
<1>2. IsFiniteSet(Indices(s))
  <2>1. Len(s) \in Nat
    BY ElementIn
  <2> QED BY <2>1, FS_Interval DEF Indices
<1>3. Cardinality(D) \in Nat
  BY <1>2, FS_Subset, FS_CardinalityType
<1>4. Total(c) <= MaxAssetsTotal \/ Total(c) = 0
  BY DEF WithinCaps
<1>5. Total(c) \in Nat
  <2> DEFINE w == [i \in Indices(c) |-> c[i].Count]
  <2>1. \A i \in Indices(c) : w[i] = c[i].Count /\ w[i] \in Nat
    BY <1>1 DEF Indices
  <2> HIDE DEF w, c
  <2>2. Total(c) = Sum(w, Indices(c)) /\ IsFiniteSet(Indices(c))
    BY <1>1, <2>1, TotalIsSum
  <2> QED BY <2>1, <2>2, SumType
<1> HIDE DEF D
<1>6. Total(c) <= MaxAssetsTotal + Cardinality(D)
  BY <1>3, <1>4, <1>5, RecipeAssumption
<1>7. \A i \in Indices(s) : s[i].Count > 0 => c[i].Count >= 1
  BY <1>1
<1> HIDE DEF c
<1> QED BY <1>1, <1>6, <1>7 DEF Kept, c, D

\* The clamp scales the capped recipe s down to c.
IsScaled(s, c) ==
    \E scaled \in [{Capped(s)[i].Count : i \in Indices(Capped(s))} -> 0..MaxAssetsTotal] :
        /\ \A v \in {Capped(s)[i].Count : i \in Indices(Capped(s))} :
              scaled[v] \in Products(v, Total(Capped(s)))
        /\ c = [i \in Indices(Capped(s)) |->
                  [Capped(s)[i] EXCEPT !.Count = AtLeastOne(@, scaled[@])]]

\* A recipe that is scaled down.
LEMMA ScaledIsKept ==
  ASSUME NEW s \in Seq(CategoryRecipe), \A i \in Indices(s) : s[i].Count >= 0,
         ~WithinCaps(Total(Capped(s))), NEW c, IsScaled(s, c)
  PROVE  Kept(s, c)
<1> DEFINE total == Total(Capped(s))
<1>0. PICK scaled \in [{Capped(s)[i].Count : i \in Indices(Capped(s))} -> 0..MaxAssetsTotal] :
        /\ \A v \in {Capped(s)[i].Count : i \in Indices(Capped(s))} :
              scaled[v] \in Products(v, total)
        /\ c = [i \in Indices(Capped(s)) |->
                  [Capped(s)[i] EXCEPT !.Count = AtLeastOne(@, scaled[@])]]
  BY DEF IsScaled
<1> DEFINE b == Capped(s)
           S == Indices(s)
           v == [i \in S |-> b[i].Count]
           w == [i \in S |-> c[i].Count]
           D == {i \in S : c[i].Count = 1}
<1>1. /\ b \in Seq(CategoryRecipe) /\ Len(b) = Len(s) /\ Indices(b) = S
      /\ \A i \in S : /\ b[i].Category = s[i].Category /\ b[i].Count \in Nat
                      /\ b[i].Count <= Least(s[i].Count, MaxAssetsPerCategory)
                      /\ s[i].Count > 0 => b[i].Count > 0
  BY CappedFacts DEF Indices
<1>2. Len(s) \in Nat /\ S = 1..Len(s) /\ IsFiniteSet(S)
        /\ \A i \in S : s[i] \in CategoryRecipe /\ b[i] \in CategoryRecipe
  <2>1. Len(s) \in Nat /\ \A i \in 1..Len(s) : s[i] \in CategoryRecipe /\ b[i] \in CategoryRecipe
    BY <1>1, ElementIn
  <2>2. IsFiniteSet(1..Len(s))
    BY <2>1, FS_Interval
  <2> QED BY <2>1, <2>2 DEF Indices
<1>3. total = Sum(v, S)
  <2>1. \A i \in Indices(b) : v[i] = b[i].Count
    BY <1>1
  <2> HIDE DEF b, v, S
  <2>2. Total(b) = Sum(v, Indices(b))
    BY <1>1, <2>1, TotalIsSum
  <2> QED BY <1>1, <2>2 DEF b
<1>4. \A i \in S : v[i] = b[i].Count /\ v[i] \in Nat
  BY <1>1
<1>5. total \in Nat /\ total # 0 /\ MaxAssetsTotal < total
  <2>1. Sum(v, S) \in Nat
    <3> HIDE DEF v, S
    <3> QED BY <1>2, <1>4, SumType
  <2> QED BY <1>3, <2>1, RecipeAssumption DEF WithinCaps
<1> HIDE DEF b, S, v, total
<1>6. ASSUME NEW i \in S
      PROVE  LET n == AtLeastOne(v[i], scaled[v[i]]) IN
             /\ n \in Nat /\ n <= v[i] /\ (v[i] > 0 => n >= 1)
             /\ n # 1 => total * n <= v[i] * MaxAssetsTotal
             /\ n = 1 => total * (n - 1) <= v[i] * MaxAssetsTotal
  <2>1. v[i] \in {b[j].Count : j \in Indices(b)}
    BY <1>1, <1>4
  <2>2. scaled[v[i]] \in 0..MaxAssetsTotal /\ scaled[v[i]] \in Products(v[i], total)
    BY <1>0, <2>1 DEF b
  <2> QED BY <1>4, <1>5, <2>2, ScaledFacts
<1>7. ASSUME NEW i \in S
      PROVE  /\ c[i] \in CategoryRecipe /\ c[i].Category = s[i].Category
             /\ c[i].Count = AtLeastOne(v[i], scaled[v[i]])
  <2>1. c[i] = [b[i] EXCEPT !.Count = AtLeastOne(@, scaled[@])]
    BY <1>0, <1>1 DEF b
  <2> DEFINE n == AtLeastOne(v[i], scaled[v[i]])
  <2>2. c[i] = [b[i] EXCEPT !.Count = n]
    BY <1>4, <2>1
  <2>3. n \in Int
    BY <1>6
  <2>4. b[i] \in CategoryRecipe /\ b[i].Category = s[i].Category
    BY <1>1, <1>2
  <2> HIDE DEF n
  <2>5. c[i] \in CategoryRecipe /\ c[i].Category = s[i].Category /\ c[i].Count = n
    BY <2>2, <2>3, <2>4 DEF CategoryRecipe
  <2> QED BY <2>5 DEF n
<1>8. c \in Seq(CategoryRecipe) /\ Len(c) = Len(s)
  <2>1. c \in [1..Len(s) -> CategoryRecipe]
    BY <1>0, <1>1, <1>2, <1>7 DEF b
  <2> QED BY <1>2, <2>1, FunctionIsSeq
<1>9. \A i \in S : /\ c[i].Category = s[i].Category /\ c[i].Count \in Nat
                   /\ c[i].Count <= v[i] /\ (v[i] > 0 => c[i].Count >= 1)
                   /\ c[i].Count # 1 => total * c[i].Count <= v[i] * MaxAssetsTotal
                   /\ c[i].Count = 1 => total * (c[i].Count - 1) <= v[i] * MaxAssetsTotal
  BY <1>6, <1>7
<1>10. ASSUME NEW i \in S
       PROVE  /\ s[i].Count > 0 => c[i].Count >= 1
              /\ c[i].Count <= Least(s[i].Count, MaxAssetsPerCategory)
  <2>1. /\ c[i].Count \in Nat /\ v[i] \in Nat /\ c[i].Count <= v[i]
        /\ v[i] <= Least(s[i].Count, MaxAssetsPerCategory)
    BY <1>1, <1>4, <1>9
  <2>2. Least(s[i].Count, MaxAssetsPerCategory) \in Int
    BY <1>2, RecipeAssumption DEF Least, CategoryRecipe
  <2>3. s[i].Count > 0 => c[i].Count >= 1
    BY <1>1, <1>4, <1>9
  <2> QED BY <2>1, <2>2, <2>3
<1>11. Total(c) = Sum(w, S) /\ \A i \in S : w[i] = c[i].Count
  <2>1. Indices(c) = S /\ \A i \in S : w[i] = c[i].Count
    BY <1>2, <1>8 DEF Indices
  <2> HIDE DEF w
  <2>2. Total(c) = Sum(w, Indices(c))
    BY <1>8, <2>1, TotalIsSum
  <2> QED BY <2>1, <2>2
<1>12. Sum(w, S) <= MaxAssetsTotal + Cardinality(D)
  <2>1. /\ \A i \in S : w[i] \in Nat /\ v[i] \in Nat
        /\ \A i \in S \ D : Sum(v, S) * w[i] <= v[i] * MaxAssetsTotal
        /\ \A i \in D : Sum(v, S) * (w[i] - 1) <= v[i] * MaxAssetsTotal
    BY <1>3, <1>4, <1>9, <1>11
  <2>2. D \in SUBSET S /\ Sum(v, S) # 0 /\ MaxAssetsTotal \in Nat
    BY <1>3, <1>5, RecipeAssumption
  <2> HIDE DEF D, w
  <2> QED BY <1>2, <2>1, <2>2, ScaledTotal
<1>13. Total(c) <= MaxAssetsTotal + Cardinality({i \in Indices(s) : c[i].Count = 1})
  BY <1>11, <1>12 DEF S
<1>14. \A i \in Indices(s) :
         /\ c[i].Category = s[i].Category /\ c[i].Count \in Nat
         /\ s[i].Count > 0 => c[i].Count >= 1
         /\ c[i].Count <= Least(s[i].Count, MaxAssetsPerCategory)
  BY <1>9, <1>10 DEF S
<1> QED BY <1>8, <1>13, <1>14 DEF Kept

-----------------------------------------------------------------------------
(* The recordings.                                                         *)

\* What a recording that can be read holds.
LEMMA OnDiskFacts ==
  ASSUME RecipesTyped, NEW k, OnDisk(k)
  PROVE  dir[k].items \in Seq(CategoryRecipe) /\ IsRecorded(k, dir[k].items)
BY DEF RecipesTyped, OnDisk, IsRecorded, Files, Readable

\* A generation that ended by the recordings ended as they say.
LEMMA EndsAsRecorded ==
  ASSUME TypeOK, RecipesTyped, ByTheRecordings, Ended
  PROVE  EndsOnDisk(Result)
<1>1. IsRecorded(priorError, answer) /\ (attempt = 0 <=> priorError = NoDetail)
      /\ attempt \in {0, 1}
  BY DEF ByTheRecordings, Ended, TypeOK
<1>2. /\ phase = "clamped" /\ Detail(answer) = NoDetail /\ Result = Readable(answer)
      \/ /\ phase = "failed" /\ Detail(answer) # NoDetail /\ Result = Unreadable
         /\ attempt = 1
  BY DEF ByTheRecordings, Ended, Result, RecipesTyped
<1>3. OnDisk(priorError) /\ dir[priorError].items = answer
  BY <1>1 DEF IsRecorded, OnDisk, Readable
<1>4. CASE attempt = 0
  BY <1>1, <1>2, <1>3, <1>4 DEF EndsOnDisk
<1>5. CASE attempt = 1
  <2>1. OnDisk(NoDetail) /\ priorError = Detail(dir[NoDetail].items)
    BY <1>5 DEF ByTheRecordings
  <2> QED BY <1>1, <1>2, <1>3, <1>5, <2>1 DEF EndsOnDisk
<1> QED BY <1>1, <1>4, <1>5

\* The recordings say it in one way.
LEMMA EndsOneWay ==
  ASSUME NEW o, NEW p, EndsOnDisk(o), EndsOnDisk(p)
  PROVE  o = p
BY DEF EndsOnDisk

\* A generation that goes by the recordings finds the next one it needs.
LEMMA NextIsOnDisk ==
  ASSUME TypeOK, ByTheRecordings, NEW o, EndsOnDisk(o)
  PROVE  OnDisk(Key)
BY DEF TypeOK, ByTheRecordings, EndsOnDisk, Key

\* Recording an answer does not touch what is recorded under other keys.
LEMMA SaveFacts ==
  ASSUME NEW file, Save(file)
  PROVE  /\ DOMAIN dir' = DOMAIN dir \cup {Key} /\ dir'[Key] = file
         /\ \A k \in DOMAIN dir : k # Key => dir'[k] = dir[k]
BY DEF Save

-----------------------------------------------------------------------------
(* The steps.                                                              *)

\* Every key names another category: there are as many categories as items.
LEMMA CategoriesOnce ==
  ASSUME NEW s \in Seq(CategoryRecipe),
         \A i, j \in Indices(s) : s[i].Category = s[j].Category => i = j
  PROVE  Cardinality({it.Category : it \in {s[i] : i \in Indices(s)}}) = Len(s)
<1> DEFINE n == Len(s)
           T == {it.Category : it \in {s[i] : i \in Indices(s)}}
           f == [i \in 1..n |-> s[i].Category]
<1>1. n \in Nat /\ Indices(s) = 1..n
  BY ElementIn DEF Indices
<1>2. f \in Surjection(1..n, T)
  BY <1>1 DEF Surjection
<1>3. f \in Injection(1..n, T)
  BY <1>1, <1>2 DEF Surjection, Injection, IsInjective
<1>4. IsFiniteSet(1..n) /\ Cardinality(1..n) = n
  <2> HIDE DEF n
  <2>1. IsFiniteSet(1..n) /\ Cardinality(1..n) = IF 1 > n THEN 0 ELSE n - 1 + 1
    BY <1>1, FS_Interval
  <2> QED BY <1>1, <2>1
<1> HIDE DEF T, f
<1>5. Cardinality(T) = Cardinality(1..n)
  BY <1>2, <1>3, <1>4, FS_Surjection
<1> QED BY <1>4, <1>5 DEF T

\* A live answer.
LEMMA StepLiveAnswer == ASSUME IndInv, LiveAnswer PROVE IndInv'
<1> USE DEF IndInv
<1>1. PICK s \in Answers : /\ answer' = FromModel(s) /\ Items' = FromModel(s)
                           /\ Record(FromModel(s))
  BY DEF LiveAnswer
<1>2. /\ ~replaying /\ phase' = "answered"
      /\ UNCHANGED <<live, replaying, attempt, priorError, answered, outcome>>
  BY DEF LiveAnswer, callVars
<1> DEFINE a == FromModel(s)
<1>3. a \in Seq(CategoryRecipe)
  BY WantedType, RecipeAssumption DEF FromModel
<1> HIDE DEF a
<1>4. answer' = a /\ Items' = a /\ Record(a)
  BY <1>1 DEF a
<1>5. TypeOK'
  BY <1>2, <1>4 DEF TypeOK
<1>6. CapsAreKept'
  BY <1>2 DEF CapsAreKept, Clamped
<1>7. Readable(a) \in Files /\ Unreadable \in Files
  <2>1. << >> \in Seq(CategoryRecipe)
    OBVIOUS
  <2> QED BY <1>3, <2>1 DEF Files, Readable, Unreadable
<1>8. \A k \in DOMAIN dir' : dir'[k] \in Files
  BY <1>4, <1>7, SaveFacts DEF Record, RecipesTyped
<1>9. RecipesTyped'
  BY <1>2, <1>3, <1>4, <1>8 DEF RecipesTyped
<1>10. Recorded'
  <2> SUFFICES ASSUME answered', written' PROVE ByTheRecordings' /\ ~replaying'
    BY DEF Recorded
  <2>1. written /\ Save(Readable(a))
    BY <1>4 DEF Record
  <2>2. answered /\ ByTheRecordings
    BY <1>2, <2>1 DEF Recorded
  <2>3. IsRecorded(priorError, answer)'
    BY <1>2, <1>4, <2>1, SaveFacts DEF IsRecorded, Key
  <2>4. attempt = 1 => OnDisk(NoDetail)' /\ priorError = Detail(dir'[NoDetail].items)
    <3> SUFFICES ASSUME attempt = 1
                 PROVE  OnDisk(NoDetail)' /\ priorError = Detail(dir'[NoDetail].items)
      OBVIOUS
    <3>1. OnDisk(NoDetail) /\ priorError = Detail(dir[NoDetail].items)
      BY <2>2 DEF ByTheRecordings
    <3>2. NoDetail # Key
      BY DEF TypeOK, Key
    <3>3. NoDetail \in DOMAIN dir' /\ dir'[NoDetail] = dir[NoDetail]
      BY <2>1, <3>1, <3>2, SaveFacts DEF OnDisk
    <3> QED BY <3>1, <3>3 DEF OnDisk
  <2> QED BY <1>2, <2>3, <2>4 DEF ByTheRecordings
<1> QED BY <1>5, <1>6, <1>9, <1>10

\* A retry, or the end: the types.
LEMMA RetryTypes ==
  ASSUME TypeOK, NEW d, d # NoDetail, Retry(d), UNCHANGED <<answer, Items>>
  PROVE  TypeOK' /\ CapsAreKept' /\ phase' \in {"call", "failed"}
<1>1. \/ attempt = 0 /\ attempt' = 1 /\ priorError' = d /\ phase' = "call"
      \/ attempt = 1 /\ phase' = "failed" /\ UNCHANGED <<attempt, priorError>>
  BY DEF Retry
<1> QED BY <1>1 DEF TypeOK, CapsAreKept, Clamped

\* Output that is no recipe.
LEMMA StepLiveInvalid == ASSUME IndInv, LiveInvalid PROVE IndInv'
<1> USE DEF IndInv
<1>1. /\ Retry(NotJSON) /\ answered' = FALSE
      /\ UNCHANGED <<live, replaying, answer, Items, dir, written, outcome>>
  BY DEF LiveInvalid
<1>2. NotJSON # NoDetail
  BY DEF NotJSON, NoDetail
<1>3. TypeOK' /\ CapsAreKept' /\ phase' \in {"call", "failed"}
  BY <1>1, <1>2, RetryTypes
<1>4. RecipesTyped'
  BY <1>1, <1>3 DEF RecipesTyped
<1>5. Recorded'
  BY <1>1 DEF Recorded
<1> QED BY <1>3, <1>4, <1>5

\* A call that fails.
LEMMA StepLiveFails == ASSUME IndInv, LiveFails PROVE IndInv'
<1> USE DEF IndInv
<1>1. /\ phase' = "failed" /\ answered' = FALSE
      /\ UNCHANGED <<live, replaying, attempt, priorError, answer, Items, dir, written, outcome>>
  BY DEF LiveFails, callVars
<1>2. TypeOK'
  BY <1>1 DEF TypeOK
<1>3. CapsAreKept'
  BY <1>1 DEF CapsAreKept, Clamped
<1>4. RecipesTyped'
  BY <1>1 DEF RecipesTyped
<1>5. Recorded'
  BY <1>1 DEF Recorded
<1> QED BY <1>2, <1>3, <1>4, <1>5

\* The next recording.
LEMMA StepReplay == ASSUME IndInv, Replay PROVE IndInv'
<1> USE DEF IndInv
<1>1. /\ phase = "call" /\ replaying
      /\ UNCHANGED <<live, replaying, attempt, priorError, dir, written, answered, outcome>>
      /\ \/ /\ OnDisk(Key) /\ answer' = dir[Key].items /\ Items' = dir[Key].items
            /\ phase' = "answered"
         \/ ~OnDisk(Key) /\ phase' = "failed" /\ UNCHANGED <<answer, Items>>
  BY DEF Replay, OnDisk, callVars, recordVars
<1>2. TypeOK'
  BY <1>1 DEF TypeOK
<1>3. CapsAreKept'
  BY <1>1 DEF CapsAreKept, Clamped
<1>4. CASE OnDisk(Key)
  <2>1. /\ answer' = dir[Key].items /\ Items' = dir[Key].items /\ phase' = "answered"
    BY <1>1, <1>4
  <2>2. dir[Key].items \in Seq(CategoryRecipe) /\ IsRecorded(Key, dir[Key].items)
    BY <1>4, OnDiskFacts
  <2>3. RecipesTyped'
    BY <1>1, <2>1, <2>2 DEF RecipesTyped
  <2>4. Recorded'
    <3> SUFFICES ASSUME answered', written' PROVE ByTheRecordings' /\ EndsOnDisk(outcome)'
      BY DEF Recorded
    <3>1. ByTheRecordings /\ EndsOnDisk(outcome)
      BY <1>1 DEF Recorded
    <3>2. ByTheRecordings'
      BY <1>1, <2>1, <2>2, <3>1 DEF ByTheRecordings, IsRecorded, OnDisk, Key
    <3>3. EndsOnDisk(outcome)'
      BY <1>1, <3>1 DEF EndsOnDisk, OnDisk
    <3> QED BY <3>2, <3>3
  <2> QED BY <1>2, <1>3, <2>3, <2>4
<1>5. CASE ~OnDisk(Key)
  <2>1. ~(answered /\ written)
    BY <1>1, <1>5, NextIsOnDisk DEF Recorded
  <2>2. Recorded'
    BY <1>1, <2>1 DEF Recorded
  <2>3. RecipesTyped'
    BY <1>1, <1>5 DEF RecipesTyped
  <2> QED BY <1>2, <1>3, <2>2, <2>3
<1> QED BY <1>4, <1>5

\* Validation: what passes is valid, what does not is retried once.
LEMMA StepValidate == ASSUME IndInv, Validate PROVE IndInv'
<1> USE DEF IndInv
<1>1. /\ phase = "answered"
      /\ UNCHANGED <<live, replaying, answer, Items, dir, written, answered, outcome>>
      /\ \/ Detail(Items) = NoDetail /\ phase' = "valid" /\ UNCHANGED <<attempt, priorError>>
         \/ Detail(Items) # NoDetail /\ Retry(Detail(Items))
  BY DEF Validate, recordVars
<1>2. Items = answer /\ Items \in Seq(CategoryRecipe)
  BY <1>1 DEF RecipesTyped
<1>3. CASE Detail(Items) = NoDetail
  <2>1. phase' = "valid" /\ UNCHANGED <<attempt, priorError>>
    BY <1>1, <1>3
  <2>2. /\ \A i \in Indices(Items) : Items[i].Category \in manifest /\ Items[i].Count >= 0
        /\ \A i, j \in Indices(Items) : Items[i].Category = Items[j].Category => i = j
    BY <1>2, <1>3, DetailFacts
  <2>3. Cardinality({it.Category : it \in {Items[i] : i \in Indices(Items)}}) = Len(Items)
    BY <1>2, <2>2, CategoriesOnce
  <2>4. TypeOK'
    <3>1. \A i \in Indices(Items') : /\ Items'[i].Category = answer'[i].Category
                                     /\ Items'[i].Category \in manifest /\ Items'[i].Count >= 0
      BY <1>1, <1>2, <2>2
    <3>2. Cardinality({it.Category : it \in {Items'[i] : i \in Indices(Items')}}) = Len(Items')
      BY <1>1, <2>3
    <3>3. attempt' \in {0, 1} /\ (attempt' = 0 <=> priorError' = NoDetail)
          /\ Len(Items') = Len(answer')
      BY <1>1, <2>1 DEF TypeOK
    <3> QED BY <2>1, <3>1, <3>2, <3>3 DEF TypeOK
  <2>5. CapsAreKept'
    BY <2>1 DEF CapsAreKept, Clamped
  <2>6. RecipesTyped'
    BY <1>1, <1>2, <1>3, <2>1 DEF RecipesTyped
  <2>7. Recorded'
    BY <1>1, <2>1 DEF Recorded, ByTheRecordings, EndsOnDisk, IsRecorded, OnDisk
  <2> QED BY <2>4, <2>5, <2>6, <2>7
<1>4. CASE Detail(Items) # NoDetail
  <2>1. Retry(Detail(Items))
    BY <1>1, <1>4
  <2>2. TypeOK' /\ CapsAreKept' /\ phase' \in {"call", "failed"}
    BY <1>1, <1>4, <2>1, RetryTypes
  <2>3. RecipesTyped'
    BY <1>1, <2>2 DEF RecipesTyped
  <2>4. Recorded'
    <3> SUFFICES ASSUME answered', written'
                 PROVE  ByTheRecordings' /\ (replaying' => EndsOnDisk(outcome)')
      BY DEF Recorded
    <3>1. ByTheRecordings /\ (replaying => EndsOnDisk(outcome))
      BY <1>1 DEF Recorded
    <3>2. replaying' => EndsOnDisk(outcome)'
      BY <1>1, <3>1 DEF EndsOnDisk, OnDisk
    <3>3. IsRecorded(priorError, answer)
      BY <1>1, <3>1 DEF ByTheRecordings
    <3>4. CASE attempt = 0
      <4>1. attempt' = 1 /\ priorError' = Detail(answer) /\ phase' = "call"
        BY <1>2, <2>1, <3>4 DEF Retry
      <4>2. priorError = NoDetail
        BY <3>4 DEF TypeOK
      <4>3. OnDisk(NoDetail) /\ dir[NoDetail].items = answer
        BY <3>3, <4>2 DEF IsRecorded, OnDisk, Readable
      <4>4. ByTheRecordings'
        BY <1>1, <4>1, <4>3 DEF ByTheRecordings, OnDisk
      <4> QED BY <3>2, <4>4
    <3>5. CASE attempt = 1
      <4>1. phase' = "failed" /\ UNCHANGED <<attempt, priorError>>
        BY <2>1, <3>5 DEF Retry
      <4>2. ByTheRecordings'
        BY <1>1, <1>2, <1>4, <3>1, <3>3, <3>5, <4>1 DEF ByTheRecordings, IsRecorded, OnDisk
      <4> QED BY <3>2, <4>2
    <3> QED BY <3>4, <3>5 DEF TypeOK
  <2> QED BY <2>2, <2>3, <2>4
<1> QED BY <1>3, <1>4

\* The clamp.
LEMMA StepClamp == ASSUME IndInv, Clamp PROVE IndInv'
<1> USE DEF IndInv
<1>1. /\ phase = "valid" /\ phase' = "clamped"
      /\ UNCHANGED <<live, replaying, attempt, priorError, answer, dir, written, answered, outcome>>
  BY DEF Clamp, callVars, recordVars
<1>2. Items = answer /\ Items \in Seq(CategoryRecipe) /\ Detail(answer) = NoDetail
  BY <1>1 DEF RecipesTyped
<1>3. /\ \A i \in Indices(Items) : Items[i].Category \in manifest /\ Items[i].Count >= 0
      /\ \A i, j \in Indices(Items) : Items[i].Category = Items[j].Category => i = j
  BY <1>2, DetailFacts
<1>4. Kept(Items, Items')
  <2>1. CASE WithinCaps(Total(Capped(Items)))
    <3>1. Items' = Capped(Items)
      BY <2>1 DEF Clamp
    <3> QED BY <1>2, <1>3, <2>1, <3>1, CappedIsKept
  <2>2. CASE ~WithinCaps(Total(Capped(Items)))
    <3>1. IsScaled(Items, Items')
      BY <2>2 DEF Clamp, IsScaled
    <3> QED BY <1>2, <1>3, <2>2, <3>1, ScaledIsKept
  <2> QED BY <2>1, <2>2
<1>5. /\ Items' \in Seq(CategoryRecipe) /\ Len(Items') = Len(answer)
      /\ \A i \in Indices(Items) :
           /\ Items'[i].Category = answer[i].Category /\ Items'[i].Count \in Nat
           /\ answer[i].Count > 0 => Items'[i].Count >= 1
           /\ Items'[i].Count <= Least(answer[i].Count, MaxAssetsPerCategory)
      /\ Total(Items') <= MaxAssetsTotal
                            + Cardinality({i \in Indices(Items) : Items'[i].Count = 1})
  BY <1>2, <1>4 DEF Kept
<1>6. Indices(Items') = Indices(Items)
  BY <1>2, <1>5 DEF Indices
<1>7. TypeOK'
  <2>1. \A i, j \in Indices(Items') : Items'[i].Category = Items'[j].Category => i = j
    BY <1>2, <1>3, <1>5, <1>6
  <2>2. Cardinality({it.Category : it \in {Items'[i] : i \in Indices(Items')}}) = Len(Items')
    BY <1>5, <2>1, CategoriesOnce
  <2>3. \A i \in Indices(Items') : /\ Items'[i].Category = answer'[i].Category
                                   /\ Items'[i].Category \in manifest /\ Items'[i].Count >= 0
    BY <1>1, <1>2, <1>3, <1>5, <1>6
  <2> QED BY <1>1, <1>5, <2>2, <2>3 DEF TypeOK, Indices
<1>8. CapsAreKept'
  BY <1>1, <1>5, <1>6 DEF CapsAreKept, Clamped
<1>9. RecipesTyped'
  BY <1>1, <1>2, <1>5 DEF RecipesTyped
<1>10. Recorded'
  BY <1>1 DEF Recorded, ByTheRecordings, EndsOnDisk, IsRecorded, OnDisk
<1> QED BY <1>7, <1>8, <1>9, <1>10

\* The second generation starts where the first one did.
LEMMA StepStartReplay == ASSUME IndInv, StartReplay PROVE IndInv'
<1> USE DEF IndInv
<1>1. /\ Ended /\ ~replaying /\ replaying' /\ outcome' = Result
      /\ attempt' = 0 /\ priorError' = NoDetail /\ phase' = "call"
      /\ answer' = << >> /\ Items' = << >>
      /\ UNCHANGED <<live, dir, written, answered>>
  BY DEF StartReplay
<1>2. TypeOK'
  BY <1>1 DEF TypeOK
<1>3. CapsAreKept'
  BY <1>1 DEF CapsAreKept, Clamped
<1>4. RecipesTyped'
  <2>1. << >> \in Seq(CategoryRecipe)
    OBVIOUS
  <2> QED BY <1>1, <2>1 DEF RecipesTyped
<1>5. Recorded'
  <2> SUFFICES ASSUME answered', written' PROVE ByTheRecordings' /\ EndsOnDisk(outcome)'
    BY DEF Recorded
  <2>1. EndsOnDisk(Result)
    BY <1>1, EndsAsRecorded DEF Recorded
  <2>2. EndsOnDisk(outcome)'
    BY <1>1, <2>1 DEF EndsOnDisk, OnDisk
  <2>3. ByTheRecordings'
    BY <1>1 DEF ByTheRecordings
  <2> QED BY <2>2, <2>3
<1> QED BY <1>2, <1>3, <1>4, <1>5

-----------------------------------------------------------------------------
(* The theorems.                                                           *)

\* A first generation starts with whatever is in the directory.
LEMMA InitIndInv == Init => IndInv
<1> SUFFICES ASSUME Init PROVE IndInv
  OBVIOUS
<1>1. << >> \in Seq(CategoryRecipe)
  OBVIOUS
<1>2. TypeOK
  BY DEF Init, TypeOK
<1>3. CapsAreKept
  BY DEF Init, CapsAreKept, Clamped
<1>4. RecipesTyped
  BY <1>1, StaleDirsAssumption DEF Init, RecipesTyped
<1>5. Recorded
  BY DEF Init, Recorded, ByTheRecordings
<1> QED BY <1>2, <1>3, <1>4, <1>5 DEF IndInv

\* The inductive invariant holds of every behaviour.
THEOREM SpecIndInv == Spec => []IndInv
<1>1. IndInv /\ [Next]_vars => IndInv'
  <2>1. ASSUME IndInv, UNCHANGED vars PROVE IndInv'
    <3>1. UNCHANGED <<live, replaying, attempt, priorError, answer, Items, phase,
                      dir, written, answered, outcome>>
      BY <2>1 DEF vars, callVars, recordVars
    <3>2. TypeOK'
      BY <2>1, <3>1 DEF IndInv, TypeOK, Indices
    <3>3. CapsAreKept'
      BY <2>1, <3>1 DEF IndInv, CapsAreKept, Clamped
    <3>4. RecipesTyped'
      BY <2>1, <3>1 DEF IndInv, RecipesTyped
    <3>5. Recorded'
      BY <2>1, <3>1 DEF IndInv, Recorded, ByTheRecordings, EndsOnDisk, IsRecorded, OnDisk
    <3> QED BY <3>2, <3>3, <3>4, <3>5 DEF IndInv
  <2>2. Finished => UNCHANGED vars
    BY DEF Finished
  <2> QED BY <2>1, <2>2, StepLiveAnswer, StepLiveInvalid, StepLiveFails, StepReplay,
             StepValidate, StepClamp, StepStartReplay DEF Next
<1> QED BY InitIndInv, <1>1, PTL DEF Spec

\* What is clamped or placed was validated, wherever it came from.
THEOREM SpecTypeOK == Spec => []TypeOK
<1>1. IndInv => TypeOK
  BY DEF IndInv
<1> QED BY SpecIndInv, <1>1, PTL

\* The clamp keeps both caps, loses no category and raises none.
THEOREM SpecCapsAreKept == Spec => []CapsAreKept
<1>1. IndInv => CapsAreKept
  BY DEF IndInv
<1> QED BY SpecIndInv, <1>1, PTL

\* What the clamp lets through is what Placement assumes of the recipes it
\* places (RecipesAssumption): natural counts, and no category twice.
THEOREM ClampedIsPlaceable ==
  Spec => [](Clamped => /\ Items \in Seq([Category : Categories, Count : Nat])
                        /\ \A i, j \in 1..Len(Items) :
                              Items[i].Category = Items[j].Category => i = j)
<1>1. ASSUME IndInv, Clamped
      PROVE  /\ Items \in Seq([Category : Categories, Count : Nat])
             /\ \A i, j \in 1..Len(Items) :
                   Items[i].Category = Items[j].Category => i = j
  <2>1. /\ phase = "clamped" /\ answer \in Seq(CategoryRecipe)
        /\ Items \in Seq(CategoryRecipe) /\ Detail(answer) = NoDetail
    BY <1>1 DEF IndInv, RecipesTyped, Clamped
  <2>2. /\ Len(Items) = Len(answer) /\ Len(Items) \in Nat
        /\ \A i \in 1..Len(Items) : /\ Items[i] \in CategoryRecipe
                                     /\ Items[i].Category = answer[i].Category
                                     /\ Items[i].Count >= 0
    BY <1>1, <2>1, ElementIn DEF IndInv, TypeOK, Indices
  <2>3. \A i, j \in 1..Len(Items) : Items[i].Category = Items[j].Category => i = j
    BY <2>1, <2>2, DetailFacts DEF Indices
  <2>4. \A i \in 1..Len(Items) : Items[i] \in [Category : Categories, Count : Nat]
    BY <2>2 DEF CategoryRecipe
  <2>5. Items \in [1..Len(Items) -> [Category : Categories, Count : Nat]]
    BY <2>1, <2>4
  <2> QED BY <2>2, <2>3, <2>5, FunctionIsSeq
<1> QED BY SpecIndInv, <1>1, PTL

\* A generation whose answers are all on disk is replayed as it ran.
THEOREM SpecReplayRepeats == Spec => []ReplayRepeats
<1>1. IndInv => ReplayRepeats
  <2>1. ASSUME IndInv, replaying, Ended, answered, written PROVE Result = outcome
    <3>1. EndsOnDisk(outcome) /\ EndsOnDisk(Result)
      BY <2>1, EndsAsRecorded DEF IndInv, Recorded
    <3> QED BY <3>1, EndsOneWay
  <2> QED BY <2>1 DEF ReplayRepeats
<1> QED BY SpecIndInv, <1>1, PTL
=============================================================================
