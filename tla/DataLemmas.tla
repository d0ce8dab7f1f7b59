----------------------------- MODULE DataLemmas -----------------------------
(***************************************************************************)
(* What the proofs about the data of the models share: induction over      *)
(* finite data, sequences, products, and sums.  The sums are those of the  *)
(* entries that wait (Spawner!NumPendingEntries) and of a recipe's counts  *)
(* (Recipe!Total), both MapThenSumSet over a finite set.                   *)
(*                                                                         *)
(* The library's induction theorems are about an operator P(_), which the  *)
(* provers cannot instantiate.  Here a property is given by the set G of   *)
(* what has it, so that a use of them is first-order.                      *)
(***************************************************************************)
EXTENDS Integers, Sequences, FiniteSets, FiniteSetsExt, FiniteSetTheorems, WellFoundedInduction,
        TLAPS

\* Every set of natural numbers has a least element.
LEMMA LeastNat ==
  ASSUME NEW T \in SUBSET Nat, T # {}
  PROVE  \E m \in T : \A k \in T : m <= k
<1>1. PICK m \in T : \A k \in T : ~(<<k, m>> \in OpToRel(<, Nat))
  BY NatLessThanWellFounded, WFMin
<1>2. \A k \in T : ~ (k < m)
  BY <1>1 DEF OpToRel
<1> QED BY <1>2

\* Induction on the natural numbers, for a property given by its set.
LEMMA NatSetInduction ==
  ASSUME NEW G \in SUBSET Nat, 0 \in G, \A n \in G : n + 1 \in G
  PROVE  G = Nat
<1>1. SUFFICES ASSUME Nat \ G # {} PROVE FALSE
  OBVIOUS
<1>2. PICK m \in Nat \ G : \A k \in Nat \ G : m <= k
  BY <1>1, LeastNat
<1>3. m - 1 \in Nat /\ m - 1 \notin Nat \ G
  BY <1>2
<1> QED BY <1>2, <1>3

\* The element that a fold takes first.
Pick(s) == CHOOSE x \in s : TRUE

\* Without it a subset has one element less.
LEMMA SmallerSubset ==
  ASSUME NEW S, IsFiniteSet(S), NEW s \in SUBSET S
  PROVE  /\ Cardinality(s) \in Nat
         /\ Cardinality(s) <= Cardinality(S)
         /\ Cardinality(s) = 0 <=> s = {}
         /\ s # {} => /\ Pick(s) \in s
                      /\ s \ {Pick(s)} \in SUBSET S
                      /\ Cardinality(s \ {Pick(s)}) = Cardinality(s) - 1
<1>1. IsFiniteSet(s) /\ Cardinality(s) \in Nat /\ Cardinality(s) <= Cardinality(S)
  BY FS_Subset, FS_CardinalityType
<1>2. s # {} => Pick(s) \in s
  BY DEF Pick
<1> QED BY <1>1, <1>2, FS_EmptySet, FS_RemoveElement

\* Induction on the subsets of a finite set, an element at a time.
LEMMA SubsetInduction ==
  ASSUME NEW S, IsFiniteSet(S), NEW G \in SUBSET (SUBSET S), {} \in G,
         \A s \in SUBSET S : s # {} /\ s \ {Pick(s)} \in G => s \in G
  PROVE  G = SUBSET S
<1> DEFINE N == {n \in Nat : \A s \in SUBSET S : Cardinality(s) = n => s \in G}
<1>1. 0 \in N
  BY SmallerSubset
<1>2. ASSUME NEW n \in N PROVE n + 1 \in N
  <2>1. ASSUME NEW s \in SUBSET S, Cardinality(s) = n + 1 PROVE s \in G
    <3>1. s # {} /\ s \ {Pick(s)} \in SUBSET S /\ Cardinality(s \ {Pick(s)}) = n
      BY <2>1, SmallerSubset
    <3> QED BY <1>2, <3>1
  <2> QED BY <1>2, <2>1
<1>3. N = Nat
  <2> HIDE DEF N
  <2>1. N \in SUBSET Nat
    BY DEF N
  <2> QED BY <1>1, <1>2, <2>1, NatSetInduction
<1> QED BY <1>3, SmallerSubset

\* A finite set of natural numbers has a largest element, which Max returns.
LEMMA MaxFacts ==
  ASSUME NEW S, IsFiniteSet(S), S \subseteq Nat, S # {}
  PROVE  Max(S) \in S /\ \A n \in S : n <= Max(S)
<1> DEFINE G == {s \in SUBSET S : s = {} \/ \E m \in s : \A n \in s : n <= m}
<1>1. {} \in G
  OBVIOUS
<1>2. ASSUME NEW s \in SUBSET S, s # {}, s \ {Pick(s)} \in G PROVE s \in G
  <2>1. Pick(s) \in s
    BY <1>2, SmallerSubset
  <2> DEFINE p == Pick(s)
             t == s \ {p}
  <2>2. p \in s /\ p \in Nat /\ t \subseteq Nat /\ s = t \cup {p}
    BY <2>1
  <2>3. t = {} \/ \E m \in t : \A n \in t : n <= m
    BY <1>2
  <2> HIDE DEF p
  <2>4. CASE t = {}
    BY <2>2, <2>4
  <2>5. ASSUME NEW m \in t, \A n \in t : n <= m PROVE s \in G
    <3>1. CASE p <= m
      BY <2>2, <2>5, <3>1
    <3>2. CASE m <= p
      <4>1. \A n \in t : n \in Nat /\ n <= p
        BY <2>2, <2>5, <3>2
      <4> QED BY <2>2, <4>1
    <3> QED BY <2>2, <2>5, <3>1, <3>2
  <2> QED BY <2>3, <2>4, <2>5
<1>3. G = SUBSET S
  <2> HIDE DEF G
  <2>1. G \in SUBSET (SUBSET S)
    BY DEF G
  <2> QED BY <1>1, <1>2, <2>1, SubsetInduction
<1>4. \E m \in S : \A n \in S : n <= m
  BY <1>3
<1> QED BY <1>4 DEF Max

-----------------------------------------------------------------------------
(* Sequences.                                                              *)

\* An element of a sequence.
LEMMA ElementIn ==
  ASSUME NEW S, NEW q \in Seq(S)
  PROVE  Len(q) \in Nat /\ \A i \in 1..Len(q) : q[i] \in S
  OBVIOUS

\* A function on the first n numbers is a sequence.
LEMMA FunctionIsSeq ==
  ASSUME NEW S, NEW n \in Nat, NEW f \in [1..n -> S]
  PROVE  f \in Seq(S) /\ Len(f) = n
  OBVIOUS

\* What appending does to the positions of a sequence.
LEMMA AppendFacts ==
  ASSUME NEW S, NEW q \in Seq(S), NEW e \in S
  PROVE  /\ Append(q, e) \in Seq(S)
         /\ Len(Append(q, e)) = Len(q) + 1 /\ Len(q) \in Nat
         /\ Append(q, e)[Len(q) + 1] = e
         /\ \A i \in 1..Len(q) : Append(q, e)[i] = q[i]
  OBVIOUS

-----------------------------------------------------------------------------
(* Products.                                                               *)

\* Multiplying by a natural number is monotonic.
LEMMA TimesMonotonic ==
  ASSUME NEW c \in Nat, NEW n \in Int, NEW m \in Int, n <= m
  PROVE  c * n <= c * m
<1>1. m - n \in Nat /\ c * (m - n) >= 0
  OBVIOUS
<1> QED BY <1>1

\* The cell a coordinate is in.
LEMMA Floor ==
  ASSUME NEW x \in Int, NEW c \in Nat \ {0}
  PROVE  x \div c \in Int /\ c * (x \div c) <= x /\ x < c * (x \div c + 1)
OBVIOUS

-----------------------------------------------------------------------------
(* Sums.                                                                   *)

Sum(w, S) == MapThenSumSet(LAMBDA c : w[c], S)

\* The recursive function that the fold is the value of.
IsSum(it, w, D) ==
    it = [s \in D |-> IF s = {} THEN 0 ELSE w[Pick(s)] + it[s \ {Pick(s)}]]

SumFcn(w, S) == CHOOSE it : IsSum(it, w, SUBSET S)

\* It exists: the fold is well defined.
LEMMA SumExists ==
  ASSUME NEW S, IsFiniteSet(S), NEW w
  PROVE  IsSum(SumFcn(w, S), w, SUBSET S)
<1> DEFINE D(n) == {s \in SUBSET S : Cardinality(s) <= n}
           N == {n \in Nat : \E it : IsSum(it, w, D(n))}
<1>1. 0 \in N
  <2> DEFINE it == [s \in D(0) |-> 0]
  <2>1. ASSUME NEW s \in D(0) PROVE s = {}
    <3>1. Cardinality(s) \in Nat /\ Cardinality(s) <= 0 /\ (Cardinality(s) = 0 <=> s = {})
      BY <2>1, SmallerSubset
    <3> QED BY <3>1
  <2>2. IsSum(it, w, D(0))
    BY <2>1 DEF IsSum
  <2> QED BY <2>2
<1>2. ASSUME NEW n \in N PROVE n + 1 \in N
  <2>1. PICK it : IsSum(it, w, D(n))
    BY <1>2
  <2> DEFINE nx == [s \in D(n + 1) |->
                      IF s = {} THEN 0 ELSE w[Pick(s)] + it[s \ {Pick(s)}]]
  <2>2. ASSUME NEW s \in D(n) PROVE s \in D(n + 1) /\ nx[s] = it[s]
    <3>1. s \in D(n + 1)
      <4>1. Cardinality(s) \in Nat /\ Cardinality(s) <= n /\ n \in Nat
        BY <1>2, <2>2, SmallerSubset
      <4> QED BY <2>2, <4>1
    <3>2. it[s] = IF s = {} THEN 0 ELSE w[Pick(s)] + it[s \ {Pick(s)}]
      BY <2>1, <2>2 DEF IsSum
    <3> QED BY <3>1, <3>2
  <2>3. \A s \in D(n + 1) : s # {} => s \ {Pick(s)} \in D(n)
    BY <1>2, SmallerSubset
  <2>4. nx = [s \in D(n + 1) |->
                IF s = {} THEN 0 ELSE w[Pick(s)] + nx[s \ {Pick(s)}]]
    <3> HIDE DEF D
    <3> QED BY <2>2, <2>3
  <2>5. IsSum(nx, w, D(n + 1))
    BY <2>4 DEF IsSum
  <2> QED BY <1>2, <2>5
<1>3. N = Nat
  <2> HIDE DEF N
  <2>1. N \in SUBSET Nat
    BY DEF N
  <2> QED BY <1>1, <1>2, <2>1, NatSetInduction
<1>4. Cardinality(S) \in Nat /\ D(Cardinality(S)) = SUBSET S
  BY SmallerSubset, FS_CardinalityType
<1>5. \E it : IsSum(it, w, SUBSET S)
  BY <1>3, <1>4
<1> QED BY <1>5 DEF SumFcn

\* The sum of the fold is its value at the whole set.
LEMMA SumIs == ASSUME NEW w, NEW S PROVE Sum(w, S) = SumFcn(w, S)[S]
BY DEF Sum, MapThenSumSet, MapThenFoldSet, SumFcn, IsSum, Pick

\* The equations of that function.
LEMMA SumStep ==
  ASSUME NEW S, IsFiniteSet(S), NEW w
  PROVE  /\ SumFcn(w, S)[{}] = 0
         /\ \A s \in SUBSET S : s # {} =>
              SumFcn(w, S)[s] = w[Pick(s)] + SumFcn(w, S)[s \ {Pick(s)}]
<1>1. SumFcn(w, S) = [s \in SUBSET S |-> IF s = {} THEN 0
                        ELSE w[Pick(s)] + SumFcn(w, S)[s \ {Pick(s)}]]
  BY SumExists DEF IsSum
<1> DEFINE it == SumFcn(w, S)
<1> HIDE DEF it
<1>2. \A s \in SUBSET S : it[s] = IF s = {} THEN 0 ELSE w[Pick(s)] + it[s \ {Pick(s)}]
  BY <1>1 DEF it
<1> QED BY <1>2 DEF it

\* Sums of numbers: their type, and no part is larger than the whole.
LEMMA SumType ==
  ASSUME NEW S, IsFiniteSet(S), NEW w, \A x \in S : w[x] \in Nat
  PROVE  /\ Sum(w, S) \in Nat
         /\ \A x \in S : w[x] <= Sum(w, S)
         /\ (\A x \in S : w[x] = 0) => Sum(w, S) = 0
<1> DEFINE it == SumFcn(w, S)
           G == {s \in SUBSET S : /\ it[s] \in Nat
                                  /\ \A x \in s : w[x] <= it[s]
                                  /\ (\A x \in s : w[x] = 0) => it[s] = 0}
<1> HIDE DEF it
<1>1. {} \in G
  BY SumStep DEF it
<1>2. ASSUME NEW s \in SUBSET S, s # {}, s \ {Pick(s)} \in G PROVE s \in G
  <2>1. Pick(s) \in s
    BY <1>2, SmallerSubset
  <2>2. it[s] = w[Pick(s)] + it[s \ {Pick(s)}]
    BY <1>2, SumStep DEF it
  <2> DEFINE p == Pick(s)
             t == s \ {p}
  <2>3. /\ p \in s /\ p \in S /\ it[s] = w[p] + it[t] /\ it[t] \in Nat /\ w[p] \in Nat
        /\ \A x \in t : w[x] <= it[t]
        /\ (\A x \in t : w[x] = 0) => it[t] = 0
    BY <1>2, <2>1, <2>2
  <2> HIDE DEF p
  <2>4. it[s] \in Nat
    BY <2>3
  <2>5. \A x \in s : w[x] <= it[s]
    <3>1. ASSUME NEW x \in t PROVE w[x] <= it[s]
      <4>1. w[x] \in Nat /\ w[x] <= it[t]
        BY <2>3
      <4> QED BY <2>3, <4>1
    <3>2. w[p] <= it[s]
      BY <2>3
    <3> QED BY <3>1, <3>2
  <2>6. (\A x \in s : w[x] = 0) => it[s] = 0
    BY <2>3
  <2> QED BY <2>4, <2>5, <2>6
<1>3. G = SUBSET S
  <2> HIDE DEF G
  <2>1. G \in SUBSET (SUBSET S)
    BY DEF G
  <2> QED BY <1>1, <1>2, <2>1, SubsetInduction
<1>4. S \in G
  BY <1>3
<1> QED BY <1>4, SumIs DEF it

\* A sum changes by what one of its parts changes by.
LEMMA SumChange ==
  ASSUME NEW S, IsFiniteSet(S), NEW w, NEW v, NEW c \in S,
         \A x \in S : w[x] \in Int /\ v[x] \in Int,
         \A x \in S \ {c} : v[x] = w[x]
  PROVE  Sum(v, S) = Sum(w, S) + v[c] - w[c]
<1> DEFINE it == SumFcn(w, S)
           jt == SumFcn(v, S)
           G == {s \in SUBSET S : /\ it[s] \in Int /\ jt[s] \in Int
                                  /\ c \in s => jt[s] = it[s] + v[c] - w[c]
                                  /\ c \notin s => jt[s] = it[s]}
<1> HIDE DEF it, jt
<1>1. {} \in G
  BY SumStep DEF it, jt
<1>2. ASSUME NEW s \in SUBSET S, s # {}, s \ {Pick(s)} \in G PROVE s \in G
  <2>1. Pick(s) \in s
    BY <1>2, SmallerSubset
  <2>2. it[s] = w[Pick(s)] + it[s \ {Pick(s)}] /\ jt[s] = v[Pick(s)] + jt[s \ {Pick(s)}]
    BY <1>2, SumStep DEF it, jt
  <2> DEFINE p == Pick(s)
             t == s \ {p}
  <2>3. /\ p \in s /\ p \in S /\ it[s] = w[p] + it[t] /\ jt[s] = v[p] + jt[t]
        /\ it[t] \in Int /\ jt[t] \in Int
        /\ c \in t => jt[t] = it[t] + v[c] - w[c]
        /\ c \notin t => jt[t] = it[t]
        /\ w[p] \in Int /\ v[p] \in Int /\ w[c] \in Int /\ v[c] \in Int
    BY <1>2, <2>1, <2>2
  <2> HIDE DEF p
  <2>4. CASE p = c
    BY <2>3, <2>4
  <2>5. CASE p # c
    BY <2>3, <2>5
  <2> QED BY <2>4, <2>5
<1>3. G = SUBSET S
  <2> HIDE DEF G
  <2>1. G \in SUBSET (SUBSET S)
    BY DEF G
  <2> QED BY <1>1, <1>2, <2>1, SubsetInduction
<1>4. S \in G
  BY <1>3
<1> QED BY <1>4, SumIs DEF it, jt

\* The fold over a part of a larger set.
LEMMA SumWithin ==
  ASSUME NEW T, IsFiniteSet(T), NEW w, NEW S \in SUBSET T
  PROVE  Sum(w, S) = SumFcn(w, T)[S]
<1> DEFINE it == SumFcn(w, S)
           jt == SumFcn(w, T)
           G == {s \in SUBSET S : it[s] = jt[s]}
<1> HIDE DEF it, jt
<1>0. IsFiniteSet(S)
  BY FS_Subset
<1>1. {} \in G
  BY <1>0, SumStep DEF it, jt
<1>2. ASSUME NEW s \in SUBSET S, s # {}, s \ {Pick(s)} \in G PROVE s \in G
  <2>1. it[s] = w[Pick(s)] + it[s \ {Pick(s)}] /\ jt[s] = w[Pick(s)] + jt[s \ {Pick(s)}]
    BY <1>0, <1>2, SumStep DEF it, jt
  <2> QED BY <1>2, <2>1
<1>3. G = SUBSET S
  <2> HIDE DEF G
  <2>1. G \in SUBSET (SUBSET S)
    BY DEF G
  <2> QED BY <1>0, <1>1, <1>2, <2>1, SubsetInduction
<1> QED BY <1>3, SumIs DEF it, jt

\* Every element, not only the one picked, may be taken off a sum.
LEMMA SumRemove ==
  ASSUME NEW T, IsFiniteSet(T), NEW w, \A x \in T : w[x] \in Int
  PROVE  \A s \in SUBSET T : /\ SumFcn(w, T)[s] \in Int
                            /\ \A c \in s : SumFcn(w, T)[s] = SumFcn(w, T)[s \ {c}] + w[c]
<1> DEFINE it == SumFcn(w, T)
           I == {s \in SUBSET T : it[s] \in Int}
           N == {n \in Nat : \A s \in SUBSET T : Cardinality(s) = n =>
                               \A c \in s : it[s] = it[s \ {c}] + w[c]}
<1>1. \A s \in SUBSET T : it[s] \in Int
  <2>1. it[{}] = 0 /\ \A s \in SUBSET T : s # {} => it[s] = w[Pick(s)] + it[s \ {Pick(s)}]
    BY SumStep
  <2> HIDE DEF it
  <2>2. {} \in I
    BY <2>1
  <2>3. ASSUME NEW s \in SUBSET T, s # {}, s \ {Pick(s)} \in I PROVE s \in I
    <3>1. w[Pick(s)] \in Int /\ it[s \ {Pick(s)}] \in Int
      BY <2>3, SmallerSubset
    <3>2. it[s] = w[Pick(s)] + it[s \ {Pick(s)}]
      BY <2>1, <2>3
    <3>3. it[s] \in Int
      BY <3>1, <3>2
    <3> QED BY <3>3
  <2> HIDE DEF I
  <2>4. I = SUBSET T
    <3>1. I \in SUBSET (SUBSET T)
      BY DEF I
    <3> QED BY <2>2, <2>3, <3>1, SubsetInduction
  <2> QED BY <2>4 DEF I
<1>2. 0 \in N
  BY SmallerSubset
<1>3. ASSUME NEW n \in N PROVE n + 1 \in N
  <2>1. ASSUME NEW s \in SUBSET T, Cardinality(s) = n + 1, NEW c \in s
        PROVE  it[s] = it[s \ {c}] + w[c]
    <3> DEFINE p == Pick(s)
               r == (s \ {p}) \ {c}
    <3>1. p \in s
      BY SmallerSubset
    <3>2. it[s] = w[p] + it[s \ {p}]
      BY SumStep
    <3>3. Cardinality(s \ {p}) = n /\ Cardinality(s \ {c}) = n
      <4>1. IsFiniteSet(s) /\ n \in Nat
        BY <1>3, FS_Subset
      <4>2. \A x \in s : Cardinality(s \ {x}) = Cardinality(s) - 1
        BY <4>1, FS_RemoveElement
      <4> HIDE DEF N
      <4> QED BY <2>1, <3>1, <4>1, <4>2
    <3> HIDE DEF it, p
    <3>4. it[s \ {p}] \in Int /\ it[s \ {c}] \in Int /\ it[r] \in Int
          /\ w[p] \in Int /\ w[c] \in Int
      BY <1>1, <3>1
    <3>5. CASE c = p
      BY <3>2, <3>4, <3>5
    <3>6. CASE c # p
      <4>1. it[s \ {p}] = it[r] + w[c]
        BY <1>3, <3>3, <3>6
      <4>2. (s \ {c}) \ {p} = r
        OBVIOUS
      <4>3. it[s \ {c}] = it[r] + w[p]
        BY <1>3, <3>1, <3>3, <3>6, <4>2
      <4> QED BY <3>2, <3>4, <4>1, <4>3
    <3> QED BY <3>5, <3>6
  <2> QED BY <1>3, <2>1
<1>4. N = Nat
  <2> HIDE DEF N
  <2>1. N \in SUBSET Nat
    BY DEF N
  <2> QED BY <1>2, <1>3, <2>1, NatSetInduction
<1>5. \A s \in SUBSET T : Cardinality(s) \in N
  BY <1>4, SmallerSubset
<1> QED BY <1>1, <1>5

\* Equal parts have equal sums.
LEMMA SumSame ==
  ASSUME NEW S, IsFiniteSet(S), NEW w, NEW v, \A x \in S : w[x] \in Int /\ v[x] = w[x]
  PROVE  Sum(v, S) = Sum(w, S) /\ Sum(w, S) \in Int
<1>1. Sum(w, S) \in Int
  BY SumIs, SumRemove
<1>2. CASE S = {}
  BY <1>2, SumIs, SumStep
<1>3. ASSUME NEW c \in S PROVE Sum(v, S) = Sum(w, S)
  <2>1. Sum(v, S) = Sum(w, S) + v[c] - w[c]
    BY SumChange
  <2> QED BY <1>1, <2>1
<1> QED BY <1>1, <1>2, <1>3

\* A sum over one more element.
LEMMA SumAdd ==
  ASSUME NEW S, IsFiniteSet(S), NEW w, NEW v, NEW c, c \notin S, v[c] \in Int,
         \A x \in S : w[x] \in Int /\ v[x] = w[x]
  PROVE  Sum(v, S \cup {c}) = Sum(w, S) + v[c]
<1> DEFINE T == S \cup {c}
<1>1. IsFiniteSet(T)
  BY FS_AddElement
<1>2. \A x \in T : v[x] \in Int
  OBVIOUS
<1>3. Sum(v, T) = SumFcn(v, T)[T] /\ Sum(v, S) = SumFcn(v, T)[S]
  BY <1>1, SumWithin
<1>4. T \ {c} = S
  OBVIOUS
<1>5. SumFcn(v, T)[T] = SumFcn(v, T)[S] + v[c]
  <2>1. c \in T /\ T \in SUBSET T
    OBVIOUS
  <2> HIDE DEF T
  <2> QED BY <1>1, <1>2, <1>4, <2>1, SumRemove
<1>6. Sum(v, S) = Sum(w, S)
  BY SumSame
<1> QED BY <1>3, <1>5, <1>6

\* The sum after a change of one value.
LEMMA SumExcept ==
  ASSUME NEW S, IsFiniteSet(S), NEW w \in [S -> Nat], NEW c \in S, NEW n \in Nat
  PROVE  Sum([w EXCEPT ![c] = n], S) = Sum(w, S) + n - w[c]
<1> DEFINE v == [w EXCEPT ![c] = n]
<1>1. /\ \A x \in S : w[x] \in Int /\ v[x] \in Int
      /\ \A x \in S \ {c} : v[x] = w[x]
      /\ v[c] = n
  OBVIOUS
<1> HIDE DEF v
<1>2. Sum(v, S) = Sum(w, S) + v[c] - w[c]
  BY <1>1, SumChange
<1> QED BY <1>1, <1>2 DEF v

\* A bound on the sum of numbers that are each at most their share v[x] / t of
\* M, except that those of D may be one more.
LEMMA SharesBound ==
  ASSUME NEW S, IsFiniteSet(S), NEW w, NEW v, NEW D \in SUBSET S, NEW t \in Nat, NEW M \in Nat,
         \A x \in S : w[x] \in Nat /\ v[x] \in Nat,
         \A x \in S \ D : t * w[x] <= v[x] * M,
         \A x \in D : t * (w[x] - 1) <= v[x] * M
  PROVE  t * (Sum(w, S) - Cardinality(D)) <= Sum(v, S) * M
<1> DEFINE it == SumFcn(w, S)
           jt == SumFcn(v, S)
           n(s) == Cardinality(D \cap s)
           G == {s \in SUBSET S : /\ it[s] \in Nat /\ jt[s] \in Nat /\ n(s) \in Nat
                                  /\ t * (it[s] - n(s)) <= jt[s] * M}
<1> HIDE DEF it, jt
<1>1. {} \in G
  <2>1. n({}) = 0
    BY FS_EmptySet
  <2>2. it[{}] = 0 /\ jt[{}] = 0
    BY SumStep DEF it, jt
  <2> HIDE DEF n
  <2>3. it[{}] - n({}) = 0 /\ t * 0 <= 0 * M
    BY <2>1, <2>2
  <2>4. t * (it[{}] - n({})) <= jt[{}] * M
    BY <2>2, <2>3
  <2>5. it[{}] \in Nat /\ jt[{}] \in Nat /\ n({}) \in Nat
    BY <2>1, <2>2
  <2> QED BY <2>4, <2>5
<1>2. ASSUME NEW s \in SUBSET S, s # {}, s \ {Pick(s)} \in G PROVE s \in G
  <2>1. Pick(s) \in s
    BY <1>2, SmallerSubset
  <2>2. it[s] = w[Pick(s)] + it[s \ {Pick(s)}] /\ jt[s] = v[Pick(s)] + jt[s \ {Pick(s)}]
    BY <1>2, SumStep DEF it, jt
  <2> DEFINE p == Pick(s)
             r == s \ {p}
  <2>3. /\ p \in s /\ p \in S /\ it[s] = w[p] + it[r] /\ jt[s] = v[p] + jt[r]
        /\ it[r] \in Nat /\ jt[r] \in Nat /\ w[p] \in Nat /\ v[p] \in Nat /\ n(r) \in Nat
        /\ t * (it[r] - n(r)) <= jt[r] * M
    BY <1>2, <2>1, <2>2
  <2> HIDE DEF p
  <2>4. IsFiniteSet(D \cap r)
    BY FS_Subset
  <2>5. n(s) = IF p \in D THEN n(r) + 1 ELSE n(r)
    <3>1. D \cap s = IF p \in D THEN (D \cap r) \cup {p} ELSE D \cap r
      BY <2>3
    <3>2. p \notin D \cap r
      OBVIOUS
    <3> HIDE DEF r
    <3> QED BY <2>4, <3>1, <3>2, FS_AddElement
  <2> HIDE DEF n, r
  <2>6. \E d \in Int : it[s] - n(s) = d + (it[r] - n(r)) /\ t * d <= v[p] * M
    <3>1. CASE p \in D
      <4>1. it[s] - n(s) = (w[p] - 1) + (it[r] - n(r)) /\ w[p] - 1 \in Int
        <5>1. n(s) = n(r) + 1 /\ it[s] = w[p] + it[r] /\ w[p] \in Nat /\ it[r] \in Nat
              /\ n(r) \in Nat
          BY <2>3, <2>5, <3>1
        <5> QED BY <5>1
      <4> QED BY <2>3, <3>1, <4>1
    <3>2. CASE p \notin D
      <4>1. it[s] - n(s) = w[p] + (it[r] - n(r)) /\ w[p] \in Int
        BY <2>3, <2>5, <3>2
      <4>2. t * w[p] <= v[p] * M
        BY <2>3, <3>2
      <4> QED BY <4>1, <4>2
    <3> QED BY <3>1, <3>2
  <2>7. PICK d \in Int : it[s] - n(s) = d + (it[r] - n(r)) /\ t * d <= v[p] * M
    BY <2>6
  <2>8. t * (it[s] - n(s)) <= jt[s] * M
    <3>1. t * (it[s] - n(s)) = t * d + t * (it[r] - n(r))
      BY <2>3, <2>7
    <3>2. jt[s] * M = v[p] * M + jt[r] * M
      BY <2>3
    <3>3. t * d \in Int /\ t * (it[r] - n(r)) \in Int /\ v[p] * M \in Int /\ jt[r] * M \in Int
      BY <2>3, <2>7
    <3> QED BY <2>3, <2>7, <3>1, <3>2, <3>3
  <2>9. it[s] \in Nat /\ jt[s] \in Nat /\ n(s) \in Nat
    BY <2>3, <2>5
  <2> QED BY <2>8, <2>9
<1>3. G = SUBSET S
  <2> HIDE DEF G
  <2>1. G \in SUBSET (SUBSET S)
    BY DEF G
  <2> QED BY <1>1, <1>2, <2>1, SubsetInduction
<1>4. S \in G /\ D \cap S = D
  BY <1>3
<1> QED BY <1>4, SumIs DEF it, jt
=============================================================================
