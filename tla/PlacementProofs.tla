-------------------------- MODULE PlacementProofs --------------------------
(***************************************************************************)
(* Theorems about Placement: what the comment of Place guarantees, and     *)
(* that the spatial hash answers as a comparison with every footprint      *)
(* would, for any manifest, bounds, recipes and number of attempts.        *)
(***************************************************************************)
EXTENDS Placement, DataLemmas

(* Integer arithmetic.                                                     *)

\* Division rounded up.
LEMMA Ceiling ==
  ASSUME NEW x \in Int, NEW c \in Nat \ {0}
  PROVE  CeilDiv(x, c) \in Int /\ x <= c * CeilDiv(x, c)
<1>1. (-x) \div c \in Int /\ c * ((-x) \div c) <= -x
  BY Floor
<1> QED BY <1>1 DEF CeilDiv

\* Squares grow with their roots.
LEMMA SquareMonotonic ==
  ASSUME NEW d \in Nat, NEW s \in Nat, s <= d
  PROVE  s * s <= d * d
<1>1. s * s <= s * d
  BY TimesMonotonic
<1>2. d * s <= d * d
  BY TimesMonotonic
<1> QED BY <1>1, <1>2

\* A distance is the same from both ends.
LEMMA SquareSymmetric ==
  ASSUME NEW a \in Int, NEW b \in Int
  PROVE  (a - b) * (a - b) = (b - a) * (b - a)
OBVIOUS

\* A point in a circle is in the square around it.
LEMMA CircleInSquare ==
  ASSUME NEW d \in Int, NEW e \in Int, NEW s \in Nat, d * d + e * e < s * s
  PROVE  -s < d /\ d < s
<1>1. e * e >= 0
  OBVIOUS
<1>2. d * d < s * s
  BY <1>1
<1>3. ~(s <= d)
  BY <1>2, SquareMonotonic
<1>4. ~(s <= -d)
  <2>1. ASSUME s <= -d PROVE FALSE
    <3>1. s * s <= (-d) * (-d)
      BY <2>1, SquareMonotonic
    <3>2. (-d) * (-d) = d * d
      OBVIOUS
    <3> QED BY <1>2, <3>1, <3>2
  <2> QED BY <2>1
<1> QED BY <1>3, <1>4

\* Two coordinates less than reach apart are in cells at most span apart.
LEMMA CellsApart ==
  ASSUME NEW x \in Int, NEW y \in Int, NEW c \in Nat \ {0}, NEW reach \in Int,
         y - x < reach
  PROVE  y \div c - x \div c <= CeilDiv(reach, c)
<1> DEFINE a == y \div c
           b == x \div c
           n == CeilDiv(reach, c)
<1>1. a \in Int /\ b \in Int /\ n \in Int /\ c * a <= y /\ x < c * (b + 1) /\ reach <= c * n
  BY Floor, Ceiling
<1> HIDE DEF a, b, n
<1>2. SUFFICES ASSUME n <= a - b - 1 PROVE FALSE
  BY <1>1 DEF a, b, n
<1>3. c * n <= c * (a - b - 1)
  BY <1>1, <1>2, TimesMonotonic
<1>4. c * (a - b - 1) = c * a - c * (b + 1)
  BY <1>1
<1>5. c * a \in Int /\ c * (b + 1) \in Int /\ c * n \in Int
  BY <1>1
<1> QED BY <1>1, <1>3, <1>4, <1>5

-----------------------------------------------------------------------------
(* Sequences.                                                              *)

Items   == [Category : Nat, Count : Nat]
Entries == [Category : DOMAIN Radius, x : Int, y : Int, r : Nat]

\* The items and entries there are.
LEMMA ElementFacts ==
  ASSUME TypeOK
  PROVE  /\ items \in Seq(Items) /\ entries \in Seq(Entries)
         /\ Len(items) \in Nat /\ \A k \in 1..Len(items) : items[k] \in Items
         /\ Len(entries) \in Nat /\ \A k \in 1..Len(entries) : entries[k] \in Entries
<1>1. items \in Seq(Items) /\ entries \in Seq(Entries)
  BY DEF TypeOK, Items, Entries
<1> QED BY <1>1, ElementIn

-----------------------------------------------------------------------------
(* The spatial hash.                                                       *)

\* A footprint near enough to overlap is in one of the cells that are looked
\* into: the hash finds it.
LEMMA HashFinds ==
  ASSUME TypeOK, HashReaches, NEW x \in Int, NEW y \in Int, NEW rad \in Nat,
         rad <= hash.maxR
  PROVE  overlaps(x, y, rad) <=> \E p \in Placed : Near(x, y, rad, p)
<1>0. hash.maxR \in Nat /\ hash.cell \in Nat \ {0}
  BY DEF TypeOK
<1> DEFINE c == hash.cell
           n == CeilDiv(rad + hash.maxR, c)
           base == key(x, y)
<1>1. ASSUME overlaps(x, y, rad) PROVE \E p \in Placed : Near(x, y, rad, p)
  BY <1>1 DEF overlaps, Bucket
<1>2. ASSUME NEW p \in Placed, Near(x, y, rad, p) PROVE overlaps(x, y, rad)
  <2>1. p.x \in Int /\ p.y \in Int /\ p.r \in Nat /\ p.r <= hash.maxR
    <3>1. PICK k \in 1..Len(entries) : p = entries[k]
      BY DEF Placed
    <3>3. entries[k].r <= hash.maxR
      BY DEF HashReaches
    <3>4. entries[k] \in Entries
      BY ElementFacts
    <3> QED BY <3>1, <3>3, <3>4 DEF Entries
  <2> DEFINE s == rad + p.r
  <2>2. /\ (x - p.x) * (x - p.x) + (y - p.y) * (y - p.y) < s * s
        /\ (y - p.y) * (y - p.y) + (x - p.x) * (x - p.x) < s * s
        /\ s \in Nat /\ s <= rad + hash.maxR
    BY <1>0, <1>2, <2>1 DEF Near
  <2>3. /\ x - p.x < s /\ -s < x - p.x
        /\ y - p.y < s /\ -s < y - p.y
    <3> HIDE DEF s
    <3>1. x - p.x \in Int /\ y - p.y \in Int
      BY <2>1
    <3> QED BY <2>2, <3>1, CircleInSquare
  <2>4. /\ x - p.x < rad + hash.maxR /\ p.x - x < rad + hash.maxR
        /\ y - p.y < rad + hash.maxR /\ p.y - y < rad + hash.maxR
        /\ rad + hash.maxR \in Int
    BY <1>0, <2>1, <2>2, <2>3
  <2>5. /\ x \div c - p.x \div c <= n /\ p.x \div c - x \div c <= n
        /\ y \div c - p.y \div c <= n /\ p.y \div c - y \div c <= n
    <3>1. c \in Nat \ {0}
      BY <1>0
    <3> HIDE DEF c
    <3> QED BY <2>1, <2>4, <3>1, CellsApart
  <2>6. /\ x \div c \in Int /\ p.x \div c \in Int
        /\ y \div c \in Int /\ p.y \div c \in Int /\ n \in Int
    BY <1>0, <2>1, <2>4, Floor, Ceiling
  <2> DEFINE dx == p.x \div c - x \div c
             dy == p.y \div c - y \div c
  <2>7. dx \in -n..n /\ dy \in -n..n
    <3> HIDE DEF c, n
    <3> QED BY <2>5, <2>6
  <2>8. /\ base[1] + dx = p.x \div c /\ base[2] + dy = p.y \div c
    <3>1. base = <<x \div c, y \div c>>
      BY DEF key
    <3> HIDE DEF c, n, base
    <3> QED BY <2>6, <3>1
  <2>9. p \in Bucket(<<base[1] + dx, base[2] + dy>>)
    <3>1. key(p.x, p.y) = <<base[1] + dx, base[2] + dy>>
      BY <2>8 DEF key
    <3> QED BY <3>1 DEF Bucket
  <2>10. \E d, e \in -n..n : \E q \in Bucket(<<base[1] + d, base[2] + e>>) : Near(x, y, rad, q)
    <3> HIDE DEF dx, dy, n, base
    <3> QED BY <1>2, <2>7, <2>9
  <2> QED BY <2>10 DEF overlaps
<1> QED BY <1>1, <1>2

-----------------------------------------------------------------------------
(* The entries, and how many are of a category.                            *)

\* How many entries are of a category is a number.
LEMMA CountType ==
  ASSUME NEW S, NEW es \in Seq(S), NEW c
  PROVE  CountOf(es, c) \in Nat /\ CountOf(<< >>, c) = 0
<1>1. IsFiniteSet(1..Len(es))
  BY FS_Interval
<1>2. IsFiniteSet({k \in 1..Len(es) : es[k].Category = c})
  BY <1>1, FS_Subset
<1>3. {k \in 1..Len(<< >>) : << >>[k].Category = c} = {}
  OBVIOUS
<1> QED BY <1>2, <1>3, FS_CardinalityType, FS_EmptySet DEF CountOf

\* An entry more counts for its own category.
LEMMA CountAppend ==
  ASSUME NEW S, NEW es \in Seq(S), NEW e \in S, NEW c
  PROVE  CountOf(Append(es, e), c) = IF e.Category = c THEN CountOf(es, c) + 1
                                                       ELSE CountOf(es, c)
<1> DEFINE K == {k \in 1..Len(es) : es[k].Category = c}
           L == {k \in 1..Len(Append(es, e)) : Append(es, e)[k].Category = c}
<1>1. IsFiniteSet(1..Len(es))
  BY FS_Interval
<1>2. IsFiniteSet(K) /\ Len(es) + 1 \notin K
  BY <1>1, FS_Subset
<1>3. L = IF e.Category = c THEN K \cup {Len(es) + 1} ELSE K
  BY AppendFacts
<1>4. CountOf(es, c) = Cardinality(K) /\ CountOf(Append(es, e), c) = Cardinality(L)
  BY DEF CountOf
<1> HIDE DEF K, L
<1> QED BY <1>2, <1>3, <1>4, FS_AddElement

\* A sorting has the items of the recipe, each once.
LEMMA SortingFacts ==
  ASSUME TypeOK, ItemsInTurn, NEW o \in Sortings
  PROVE  /\ o \in Seq([Category : Nat, Count : Nat]) /\ Len(o) = Len(items)
         /\ \A k \in 1..Len(items) : \E j \in 1..Len(items) : o[k] = items[j]
         /\ \A i, j \in 1..Len(o) : o[i].Category = o[j].Category => i = j
<1> DEFINE n == Len(items)
           T == [Category : Nat, Count : Nat]
<1>1. n \in Nat /\ \A k \in 1..n : items[k] \in T
  BY ElementFacts DEF Items
<1>2. PICK p \in Bijection(1..n, 1..n) : o = [k \in 1..n |-> items[p[k]]]
  BY DEF Sortings
<1>3. p \in [1..n -> 1..n] /\ \A i, j \in 1..n : p[i] = p[j] => i = j
  BY <1>2 DEF Bijection, Injection, IsInjective
<1>4. \A k \in 1..n : p[k] \in 1..n /\ o[k] = items[p[k]]
  BY <1>2, <1>3
<1>5. o \in Seq(T) /\ Len(o) = n
  <2>1. o \in [1..n -> T]
    BY <1>1, <1>2, <1>3
  <2> QED BY <1>1, <1>2, <2>1
<1>6. \A i, j \in 1..n : items[i].Category = items[j].Category => i = j
  BY DEF ItemsInTurn
<1>7. ASSUME NEW i \in 1..n, NEW j \in 1..n, o[i].Category = o[j].Category PROVE i = j
  <2>1. items[p[i]].Category = items[p[j]].Category /\ p[i] \in 1..n /\ p[j] \in 1..n
    BY <1>4, <1>7
  <2>2. p[i] = p[j]
    BY <1>6, <2>1
  <2> QED BY <1>3, <2>2
<1> QED BY <1>4, <1>5, <1>7

\* The largest radius is at least every radius.
LEMMA RadiusMax ==
  ASSUME TypeOK, \A k \in 1..Len(items) : items[k].Category \in DOMAIN Radius
  PROVE  LET R == {0} \cup {Radius[items[k].Category] : k \in 1..Len(items)} IN
         Max(R) \in Nat /\ \A k \in 1..Len(items) : Radius[items[k].Category] <= Max(R)
<1> DEFINE R == {0} \cup {Radius[items[k].Category] : k \in 1..Len(items)}
<1>1. R \subseteq Nat /\ R # {} /\ \A k \in 1..Len(items) : Radius[items[k].Category] \in R
  BY PlacementAssumption
<1>2. IsFiniteSet(1..Len(items))
  BY FS_Interval DEF TypeOK
<1>3. IsFiniteSet({Radius[items[k].Category] : k \in 1..Len(items)})
  <2> DEFINE T == {Radius[items[k].Category] : k \in 1..Len(items)}
             f == [k \in 1..Len(items) |-> Radius[items[k].Category]]
  <2>1. f \in Surjection(1..Len(items), T)
    BY DEF Surjection
  <2> QED BY <1>2, <2>1, FS_Surjection
<1>4. IsFiniteSet(R)
  BY <1>3, FS_AddElement
<1> HIDE DEF R
<1>5. Max(R) \in R /\ \A n \in R : n <= Max(R)
  BY <1>1, <1>4, MaxFacts
<1>6. Max(R) \in Nat /\ \A k \in 1..Len(items) : Radius[items[k].Category] <= Max(R)
  BY <1>1, <1>5
<1> QED BY <1>6 DEF R

-----------------------------------------------------------------------------
(* The steps.                                                              *)

\* The item being placed, its footprint and where its centre may be.
LEMMA ItemFacts ==
  ASSUME TypeOK, HashReaches, Sorted, item <= Len(items)
  PROVE  /\ item \in 1..Len(items) /\ items[item] \in Items
         /\ Category \in DOMAIN Radius /\ r \in Nat /\ r <= hash.maxR
         /\ loX \in Int /\ hiX \in Int /\ loX = boundsMin.x + r /\ hiX = boundsMax.x - r
         /\ loY \in Int /\ hiY \in Int /\ loY = boundsMin.y + r /\ hiY = boundsMax.y - r
<1>1. item \in 1..Len(items) /\ items[item] \in Items
  <2>1. item \in 1..Len(items) + 1 /\ Len(items) \in Nat
    BY ElementFacts DEF TypeOK
  <2>2. item \in 1..Len(items)
    BY <2>1
  <2> QED BY <2>2, ElementFacts
<1>2. Category \in DOMAIN Radius /\ r <= hash.maxR
  BY <1>1 DEF HashReaches, Category, r
<1>3. r \in Nat
  BY <1>2, PlacementAssumption DEF r
<1> QED BY <1>1, <1>2, <1>3, PlacementAssumption DEF loX, hiX, loY, hiY

\* Sorting prepares the hash for every radius of the recipe.
LEMMA StepSort == ASSUME IndInv, Sort PROVE IndInv'
<1> USE DEF IndInv
<1>1. item = 1 /\ entries = << >> /\ attempt < maxAttempts /\ result = "new"
  BY DEF Sort, ItemsInTurn
<1>2. FootprintsFit'
  BY DEF Sort, FootprintsFit, Overlap
<1>3. UNCHANGED <<item, attempt, entries>>
  BY DEF Sort
<1>4. CASE ~ \A k \in 1..Len(items) : items[k].Category \in DOMAIN Radius
  <2>1. result' = "category not in manifest" /\ UNCHANGED <<items, hash>>
    BY <1>4 DEF Sort
  <2>2. TypeOK'
    BY <1>3, <2>1 DEF TypeOK, Errors
  <2>3. HashReaches'
    BY <1>3, <2>1 DEF HashReaches, Sorted, newSpatialHash
  <2>4. ItemsInTurn'
    BY <1>3, <2>1 DEF ItemsInTurn, Errors
  <2> QED BY <1>2, <2>2, <2>3, <2>4
<1>5. CASE \A k \in 1..Len(items) : items[k].Category \in DOMAIN Radius
  <2> DEFINE m == Max({0} \cup {Radius[items[k].Category] : k \in 1..Len(items)})
  <2>1. items' \in Sortings /\ hash' = newSpatialHash(m) /\ result' = "item"
    BY <1>5 DEF Sort
  <2>2. m \in Nat /\ \A k \in 1..Len(items) : Radius[items[k].Category] <= m
    BY <1>5, RadiusMax
  <2> HIDE DEF m
  <2>3. /\ items' \in Seq(Items) /\ Len(items') = Len(items)
        /\ \A k \in 1..Len(items) : \E j \in 1..Len(items) : items'[k] = items[j]
        /\ \A i, j \in 1..Len(items') : items'[i].Category = items'[j].Category => i = j
    BY <2>1, SortingFacts DEF Items
  <2>4. hash' = [maxR |-> m, cell |-> IF m = 0 THEN 1 ELSE 2 * m]
    BY <2>1 DEF newSpatialHash
  <2>5. hash' \in [maxR : Nat, cell : Nat \ {0}] /\ hash'.maxR = m
    BY <2>2, <2>4
  <2>6. TypeOK'
    BY <1>3, <2>1, <2>3, <2>5 DEF TypeOK, Errors, Items
  <2>7. \A k \in 1..Len(items') : /\ items'[k].Category \in DOMAIN Radius
                                  /\ Radius[items'[k].Category] <= m
    BY <1>5, <2>2, <2>3
  <2>8. HashReaches'
    <3>1. hash' = newSpatialHash(hash'.maxR)
      BY <2>1, <2>5
    <3>2. \A i \in 1..Len(entries') : entries'[i].r <= hash'.maxR
      BY <1>1, <1>3
    <3> QED BY <2>5, <2>7, <3>1, <3>2 DEF HashReaches, Sorted
  <2>9. \A k \in 1..Len(items') : /\ CountOf(entries', items'[k].Category) = 0
                                  /\ 0 <= items'[k].Count
    <3>1. Len(items') \in Nat /\ \A k \in 1..Len(items') : items'[k] \in Items
      BY <2>3, ElementIn
    <3>2. \A c : CountOf(<< >>, c) = 0
      BY CountType, ElementFacts
    <3> QED BY <1>1, <1>3, <3>1, <3>2 DEF Items
  <2>10. ItemsInTurn'
    BY <1>1, <1>3, <2>1, <2>3, <2>9 DEF ItemsInTurn, Errors
  <2> QED BY <1>2, <2>6, <2>8, <2>10
<1> QED BY <1>4, <1>5

\* An item that fits into the bounds at all is begun.
LEMMA StepBeginItem == ASSUME IndInv, BeginItem PROVE IndInv'
<1> USE DEF IndInv
<1>1. /\ UNCHANGED <<items, item, attempt, hash, entries>>
      /\ result = "item" /\ item <= Len(items)
      /\ result' = IF loX > hiX \/ loY > hiY THEN "bounds too small" ELSE "darts"
  BY DEF BeginItem
<1>2. TypeOK'
  BY <1>1 DEF TypeOK, Errors
<1>3. HashReaches'
  BY <1>1 DEF HashReaches, Sorted, newSpatialHash
<1>4. FootprintsFit'
  BY <1>1 DEF FootprintsFit, Overlap
<1>5. ItemsInTurn'
  <2>1. (loX > hiX \/ loY > hiY) \/ (loX <= hiX /\ loY <= hiY)
    <3>1. Sorted /\ item <= Len(items)
      BY <1>1 DEF Sorted
    <3>2. loX \in Int /\ hiX \in Int /\ loY \in Int /\ hiY \in Int
      BY <3>1, ItemFacts
    <3> QED BY <3>2
  <2>2. UNCHANGED <<loX, hiX, loY, hiY>>
    BY <1>1 DEF loX, hiX, loY, hiY, r, Category
  <2> QED BY <1>1, <2>1, <2>2 DEF ItemsInTurn, Errors
<1> QED BY <1>2, <1>3, <1>4, <1>5

\* An item is left with as many entries as the recipe asks for.
LEMMA StepEndItem == ASSUME IndInv, EndItem PROVE IndInv'
<1> USE DEF IndInv
<1>1. /\ UNCHANGED <<items, attempt, hash, entries>>
      /\ result = "darts" /\ item' = item + 1 /\ result' = "item"
      /\ PlacedOfItem >= items[item].Count
  BY DEF EndItem
<1>2. item \in 1..Len(items) /\ items[item] \in Items
  <2>1. Sorted /\ item <= Len(items)
    BY <1>1 DEF Sorted, ItemsInTurn
  <2> QED BY <2>1, ItemFacts
<1>3. TypeOK'
  BY <1>1, <1>2, ElementFacts DEF TypeOK
<1>4. HashReaches'
  BY <1>1 DEF HashReaches, Sorted, newSpatialHash
<1>5. FootprintsFit'
  BY <1>1 DEF FootprintsFit, Overlap
<1>6. CountOf(entries, items[item].Category) = items[item].Count
  <2>1. CountOf(entries, items[item].Category) \in Nat
    BY CountType, ElementFacts
  <2>2. CountOf(entries, items[item].Category) <= items[item].Count
    BY <1>1, <1>2 DEF ItemsInTurn, Errors
  <2> QED BY <1>1, <1>2, <2>1, <2>2 DEF PlacedOfItem, Category, Items
<1>7. ItemsInTurn'
  <2>1. \A k \in 1..Len(items) :
          /\ k < item + 1 => CountOf(entries, items[k].Category) = items[k].Count
          /\ k >= item + 1 => CountOf(entries, items[k].Category) = 0
    BY <1>1, <1>2, <1>6, ElementFacts DEF ItemsInTurn, Errors
  <2>2. \A k \in 1..Len(items) : items[k].Count >= 0
    BY ElementFacts DEF Items
  <2>3. \A k \in 1..Len(items) :
          /\ k < item + 1 => CountOf(entries, items[k].Category) = items[k].Count
          /\ k = item + 1 => /\ CountOf(entries, items[k].Category) <= items[k].Count
                             /\ CountOf(entries, items[k].Category) = 0
          /\ k > item + 1 => CountOf(entries, items[k].Category) = 0
    BY <1>2, <2>1, <2>2, ElementFacts
  <2>4. attempt < maxAttempts
    BY <1>1 DEF ItemsInTurn
  <2> QED BY <1>1, <2>3, <2>4 DEF ItemsInTurn, Errors
<1> QED BY <1>3, <1>4, <1>5, <1>7

\* The return of what was placed.
LEMMA StepReturn == ASSUME IndInv, Return PROVE IndInv'
<1> USE DEF IndInv
<1>1. /\ UNCHANGED <<items, item, attempt, hash, entries>>
      /\ result = "item" /\ item > Len(items) /\ result' = "placed"
  BY DEF Return
<1>2. TypeOK'
  BY <1>1 DEF TypeOK
<1>3. HashReaches'
  BY <1>1 DEF HashReaches, Sorted, newSpatialHash
<1>4. FootprintsFit'
  BY <1>1 DEF FootprintsFit, Overlap
<1>5. ItemsInTurn'
  BY <1>1, ElementFacts DEF ItemsInTurn, Errors, TypeOK
<1> QED BY <1>2, <1>3, <1>4, <1>5

\* A dart: what overlaps nothing is placed, within the bounds.
LEMMA StepDart == ASSUME IndInv, Dart PROVE IndInv'
<1> USE DEF IndInv
<1>1. /\ UNCHANGED <<items, item, hash>> /\ result = "darts"
      /\ CountOf(entries, Category) < items[item].Count
  BY DEF Dart, PlacedOfItem
<1>2. Sorted /\ item <= Len(items) /\ attempt < maxAttempts
  BY <1>1 DEF ItemsInTurn, Sorted
<1>3. /\ item \in 1..Len(items) /\ items[item] \in Items
      /\ Category \in DOMAIN Radius /\ r \in Nat /\ r <= hash.maxR
      /\ loX \in Int /\ hiX \in Int /\ loX = boundsMin.x + r /\ hiX = boundsMax.x - r
      /\ loY \in Int /\ hiY \in Int /\ loY = boundsMin.y + r /\ hiY = boundsMax.y - r
  BY <1>2, ItemFacts
<1>4. PICK px \in loX..hiX, py \in loY..hiY :
        IF overlaps(px, py, r)
        THEN /\ attempt' = attempt + 1
             /\ result' = IF GivesUp(attempt + 1) THEN "overcrowded" ELSE "darts"
             /\ UNCHANGED entries
        ELSE /\ entries' = Append(entries, [Category |-> Category, x |-> px, y |-> py, r |-> r])
             /\ attempt' = 0
             /\ UNCHANGED result
  BY DEF Dart
<1>5. px \in Int /\ py \in Int /\ loX <= px /\ px <= hiX /\ loY <= py /\ py <= hiY
  BY <1>3
<1>6. attempt + 1 \in 0..maxAttempts /\ (~GivesUp(attempt + 1) => attempt + 1 < maxAttempts)
      /\ 0 \in 0..maxAttempts /\ 0 < maxAttempts
  BY <1>2, PlacementAssumption DEF GivesUp, TypeOK
<1>7. UNCHANGED <<Category, r, loX, hiX, loY, hiY>>
  BY <1>1 DEF Category, r, loX, hiX, loY, hiY
<1>8. CASE overlaps(px, py, r)
  <2>1. /\ attempt' = attempt + 1 /\ UNCHANGED entries
        /\ result' = IF GivesUp(attempt + 1) THEN "overcrowded" ELSE "darts"
    BY <1>4, <1>8
  <2>2. TypeOK'
    BY <1>1, <1>6, <2>1 DEF TypeOK, Errors
  <2>3. HashReaches'
    BY <1>1, <2>1 DEF HashReaches, Sorted, newSpatialHash
  <2>4. FootprintsFit'
    BY <2>1 DEF FootprintsFit, Overlap
  <2>5. ItemsInTurn'
    BY <1>1, <1>6, <1>7, <2>1 DEF ItemsInTurn, Errors
  <2> QED BY <2>2, <2>3, <2>4, <2>5
<1>9. CASE ~overlaps(px, py, r)
  <2> DEFINE e == [Category |-> Category, x |-> px, y |-> py, r |-> r]
             n == Len(entries)
  <2>1. /\ entries' = Append(entries, e) /\ attempt' = 0 /\ UNCHANGED result
    BY <1>4, <1>9
  <2>2. e \in Entries /\ e.x = px /\ e.y = py /\ e.r = r /\ e.Category = Category
    BY <1>3, <1>5 DEF Entries
  <2> HIDE DEF e
  <2>3. /\ entries' \in Seq(Entries) /\ n \in Nat /\ Len(entries') = n + 1
        /\ entries'[n + 1] = e /\ \A i \in 1..n : entries'[i] = entries[i]
        /\ \A i \in 1..n : entries[i] \in Entries
    BY <2>1, <2>2, ElementFacts, AppendFacts
  <2>4. TypeOK'
    BY <1>1, <1>6, <2>1, <2>3 DEF TypeOK, Errors, Entries
  <2>5. HashReaches'
    <3>1. \A i \in 1..Len(entries') : entries'[i].r <= hash.maxR
      <4>1. \A i \in 1..n : entries[i].r <= hash.maxR
        BY DEF HashReaches
      <4> HIDE DEF n
      <4>2. ASSUME NEW i \in 1..(n + 1) PROVE entries'[i].r <= hash.maxR
        <5>1. CASE i = n + 1
          BY <1>3, <2>2, <2>3, <5>1
        <5>2. CASE i \in 1..n
          BY <2>3, <4>1, <5>2
        <5> QED BY <2>3, <5>1, <5>2
      <4> QED BY <2>3, <4>2
    <3> QED BY <1>1, <2>1, <3>1 DEF HashReaches, Sorted, newSpatialHash
  <2>6. FootprintsFit'
    <3>1. ASSUME NEW i \in 1..n PROVE ~Overlap(e, entries[i]) /\ ~Overlap(entries[i], e)
      <4> DEFINE p == entries[i]
      <4>1. ~Near(px, py, r, p)
        BY <1>3, <1>5, <1>9, HashFinds DEF Placed
      <4>2. p.x \in Int /\ p.y \in Int /\ p.r \in Nat
        BY <2>3 DEF Entries
      <4> HIDE DEF p
      <4>3. ~((px - p.x) * (px - p.x) + (py - p.y) * (py - p.y) < (r + p.r) * (r + p.r))
        BY <4>1 DEF Near
      <4>4. /\ (px - p.x) * (px - p.x) = (p.x - px) * (p.x - px)
            /\ (py - p.y) * (py - p.y) = (p.y - py) * (p.y - py)
        BY <1>5, <4>2, SquareSymmetric
      <4>5. r + p.r = p.r + r
        BY <1>3, <4>2
      <4>6. ~Overlap(e, p) /\ ~Overlap(p, e)
        BY <2>2, <4>3, <4>4, <4>5 DEF Overlap
      <4> QED BY <4>6 DEF p
    <3>2. /\ boundsMin.x <= e.x - e.r /\ e.x + e.r <= boundsMax.x
          /\ boundsMin.y <= e.y - e.r /\ e.y + e.r <= boundsMax.y
      <4>1. boundsMin.x \in Int /\ boundsMax.x \in Int /\ boundsMin.y \in Int /\ boundsMax.y \in Int
        BY PlacementAssumption
      <4> DEFINE Clamped(v, lo, hi, min, max) ==
                   lo = min + r /\ hi = max - r /\ lo <= v /\ v <= hi
      <4>2. \A v, lo, hi, min, max \in Int :
              Clamped(v, lo, hi, min, max) => min <= v - r /\ v + r <= max
        BY <1>3
      <4>3. boundsMin.x <= px - r /\ px + r <= boundsMax.x
        <5>1. Clamped(px, loX, hiX, boundsMin.x, boundsMax.x)
          BY <1>3, <1>5
        <5> QED BY <1>3, <1>5, <4>1, <4>2, <5>1
      <4>4. boundsMin.y <= py - r /\ py + r <= boundsMax.y
        <5>1. Clamped(py, loY, hiY, boundsMin.y, boundsMax.y)
          BY <1>3, <1>5
        <5> QED BY <1>3, <1>5, <4>1, <4>2, <5>1
      <4> QED BY <2>2, <4>3, <4>4
    <3>3. ASSUME NEW i \in 1..(n + 1), NEW j \in 1..(n + 1), i # j
          PROVE  ~Overlap(entries'[i], entries'[j])
      <4>1. CASE i = n + 1
        BY <2>3, <3>1, <3>3, <4>1
      <4>2. CASE j = n + 1
        BY <2>3, <3>1, <3>3, <4>2
      <4>3. CASE i \in 1..n /\ j \in 1..n
        BY <2>3, <3>3, <4>3 DEF FootprintsFit
      <4> QED BY <2>3, <4>1, <4>2, <4>3
    <3>4. ASSUME NEW i \in 1..(n + 1)
          PROVE  LET p == entries'[i] IN
                 /\ boundsMin.x <= p.x - p.r /\ p.x + p.r <= boundsMax.x
                 /\ boundsMin.y <= p.y - p.r /\ p.y + p.r <= boundsMax.y
      <4>1. CASE i = n + 1
        BY <2>3, <3>2, <4>1
      <4>2. CASE i \in 1..n
        BY <2>3, <4>2 DEF FootprintsFit
      <4> QED BY <2>3, <4>1, <4>2
    <3> HIDE DEF n
    <3> QED BY <2>3, <3>3, <3>4 DEF FootprintsFit, Overlap
  <2>7. ItemsInTurn'
    <3>1. \A c : CountOf(entries, c) \in Nat
      BY CountType, ElementFacts
    <3>2. \A k \in 1..Len(items) :
            CountOf(entries', items[k].Category) =
              IF k = item THEN CountOf(entries, items[k].Category) + 1
                          ELSE CountOf(entries, items[k].Category)
      <4>1. \A k \in 1..Len(items) : items[k].Category = e.Category <=> k = item
        BY <1>3, <2>2 DEF ItemsInTurn, Category
      <4>2. \A c : CountOf(entries', c) = IF e.Category = c THEN CountOf(entries, c) + 1
                                                           ELSE CountOf(entries, c)
        BY <2>1, <2>2, CountAppend, ElementFacts
      <4> QED BY <4>1, <4>2
    <3>3. CountOf(entries, items[item].Category) + 1 <= items[item].Count
      BY <1>1, <1>3, <3>1 DEF Category, Items
    <3>4. \A k \in 1..Len(items) :
            /\ k < item => CountOf(entries', items[k].Category) = items[k].Count
            /\ k = item => CountOf(entries', items[k].Category) <= items[k].Count
            /\ k > item => CountOf(entries', items[k].Category) = 0
      BY <1>1, <1>3, <3>2, <3>3, ElementFacts DEF ItemsInTurn, Errors
    <3>5. result' = "darts" /\ attempt' < maxAttempts /\ loX' <= hiX' /\ loY' <= hiY' /\ item <= Len(items)
      BY <1>1, <1>2, <1>6, <1>7, <2>1 DEF ItemsInTurn
    <3>6. \A i, j \in 1..Len(items) : items[i].Category = items[j].Category => i = j
      BY DEF ItemsInTurn
    <3> QED BY <1>1, <3>4, <3>5, <3>6 DEF ItemsInTurn, Errors
  <2> QED BY <2>4, <2>5, <2>6, <2>7
<1> QED BY <1>8, <1>9

-----------------------------------------------------------------------------
(* The theorems.                                                           *)

\* Place begins with nothing placed.
LEMMA InitIndInv == Init => IndInv
<1> SUFFICES ASSUME Init PROVE IndInv
  OBVIOUS
<1>1. /\ items \in Recipes /\ item = 1 /\ attempt = 0 /\ entries = << >> /\ result = "new"
      /\ hash = [maxR |-> 0, cell |-> 1]
  BY DEF Init, newSpatialHash
<1>2. /\ items \in Seq(Items)
      /\ \A i, j \in 1..Len(items) : items[i].Category = items[j].Category => i = j
  BY <1>1, RecipesAssumption DEF Items
<1>3. \A k \in 1..Len(items) : CountOf(entries, items[k].Category) = 0 /\ 0 <= items[k].Count
  <2>1. \A k \in 1..Len(items) : items[k] \in Items
    BY <1>2, ElementIn
  <2>2. \A c : CountOf(<< >>, c) = 0
    <3>1. << >> \in Seq(Entries)
      OBVIOUS
    <3> QED BY <3>1, CountType
  <2> QED BY <1>1, <2>1, <2>2 DEF Items
<1>4. TypeOK
  <2>1. item \in 1..Len(items) + 1
    BY <1>1, <1>2
  <2>2. attempt \in 0..maxAttempts
    BY <1>1, PlacementAssumption
  <2> QED BY <1>1, <1>2, <2>1, <2>2 DEF TypeOK, Errors, Items
<1>5. HashReaches
  BY <1>1 DEF HashReaches, Sorted, newSpatialHash
<1>6. ItemsInTurn
  BY <1>1, <1>2, <1>3, PlacementAssumption DEF ItemsInTurn, Errors
<1>7. FootprintsFit
  BY <1>1 DEF FootprintsFit
<1> QED BY <1>4, <1>5, <1>6, <1>7 DEF IndInv

\* The inductive invariant holds of every behaviour.
THEOREM SpecIndInv == Spec => []IndInv
<1>1. IndInv /\ [Next]_vars => IndInv'
  <2>1. ASSUME IndInv, UNCHANGED vars PROVE IndInv'
    <3>1. UNCHANGED <<items, item, attempt, hash, entries, result>>
      BY <2>1 DEF vars
    <3>2. TypeOK'
      BY <2>1, <3>1 DEF IndInv, TypeOK
    <3>3. HashReaches'
      BY <2>1, <3>1 DEF IndInv, HashReaches, Sorted, newSpatialHash
    <3>4. ItemsInTurn'
      BY <2>1, <3>1 DEF IndInv, ItemsInTurn, loX, hiX, loY, hiY, r, Category
    <3>5. FootprintsFit'
      BY <2>1, <3>1 DEF IndInv, FootprintsFit, Overlap
    <3> QED BY <3>2, <3>3, <3>4, <3>5 DEF IndInv
  <2> QED BY <2>1, StepSort, StepBeginItem, StepDart, StepEndItem, StepReturn DEF Next
<1> QED BY InitIndInv, <1>1, PTL DEF Spec

\* Type correctness: no instance gets more than maxAttempts darts.
THEOREM SpecTypeOK == Spec => []TypeOK
<1>1. IndInv => TypeOK
  BY DEF IndInv
<1> QED BY SpecIndInv, <1>1, PTL

\* No two footprints overlap, although only cells nearby are looked into, and
\* each lies entirely within the bounds.
THEOREM SpecFootprintsFit == Spec => []FootprintsFit
<1>1. IndInv => FootprintsFit
  BY DEF IndInv
<1> QED BY SpecIndInv, <1>1, PTL

\* A placement that is returned has exactly what the recipe asks for.
THEOREM SpecCountsMatch == Spec => []CountsMatch
<1>1. IndInv => CountsMatch
  <2>1. ASSUME IndInv, result = "placed", NEW k \in 1..Len(items)
        PROVE  CountOf(entries, items[k].Category) = items[k].Count
    <3>1. item \in 1..Len(items) + 1 /\ item > Len(items) /\ Len(items) \in Nat
      BY <2>1, ElementFacts DEF IndInv, TypeOK, ItemsInTurn
    <3>2. k < item
      BY <3>1
    <3> QED BY <2>1, <3>2 DEF IndInv, ItemsInTurn, Errors
  <2> QED BY <2>1 DEF CountsMatch
<1> QED BY SpecIndInv, <1>1, PTL

\* The spatial hash leaves out no cell that matters, wherever a dart lands and
\* whatever the radii of the recipe.
THEOREM SpecHashIsExact == Spec => []HashIsExact
<1>1. IndInv => HashIsExact
  <2>1. ASSUME IndInv, result \notin {"new"} \cup Errors, NEW k \in item..Len(items),
               NEW x \in boundsMin.x..boundsMax.x, NEW y \in boundsMin.y..boundsMax.y
        PROVE  overlaps(x, y, Radius[items[k].Category]) <=>
                 \E p \in Placed : Near(x, y, Radius[items[k].Category], p)
    <3>1. Sorted
      BY <2>1 DEF Sorted, Errors
    <3>2. k \in 1..Len(items)
      BY <2>1, ElementFacts DEF IndInv, TypeOK
    <3>3. Radius[items[k].Category] \in Nat /\ Radius[items[k].Category] <= hash.maxR
      BY <2>1, <3>1, <3>2, PlacementAssumption DEF IndInv, HashReaches
    <3>4. x \in Int /\ y \in Int
      BY PlacementAssumption
    <3> QED BY <2>1, <3>3, <3>4, HashFinds DEF IndInv
  <2> QED BY <2>1 DEF HashIsExact
<1> QED BY SpecIndInv, <1>1, PTL
=============================================================================
