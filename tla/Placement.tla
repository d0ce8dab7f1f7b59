----------------------------- MODULE Placement -----------------------------
(***************************************************************************)
(* The placement engine: placement.go.  Place throws darts for every       *)
(* instance of a recipe and keeps a dart that overlaps nothing placed      *)
(* before, which it asks a spatial hash instead of every placed footprint. *)
(*                                                                         *)
(* Coordinates and radii are integers.  The random stream is a choice: a   *)
(* dart, thrown anywhere or around a member of its cluster and clamped,    *)
(* lands between lo and hi on each axis.  Yaw, scale and tags are left out.*)
(***************************************************************************)
EXTENDS Integers, Sequences, FiniteSets, FiniteSetsExt, Functions

CONSTANTS Radius,       \* the manifest: category -> FootprintRadius
          boundsMin, boundsMax,  \* Bounds: two corners
          Recipes,      \* recipes placed: sequences of [Category, Count]
          maxAttempts   \* 512 in the code

ASSUME PlacementAssumption ==
    /\ boundsMin \in [x : Int, y : Int] /\ boundsMax \in [x : Int, y : Int]
    /\ \A c \in DOMAIN Radius : Radius[c] \in Nat
    /\ maxAttempts \in Nat \ {0}

\* A recipe that validateRecipe let through names no category twice.
ASSUME RecipesAssumption ==
    \A s \in Recipes :
        /\ s \in Seq([Category : Nat, Count : Nat])
        /\ \A i, j \in 1..Len(s) : s[i].Category = s[j].Category => i = j

VARIABLES
    items,     \* the recipe, in placement order once sorted
    item,      \* index of the item being placed
    attempt,   \* darts thrown for the current instance
    hash,      \* the spatial hash's maxR and cell size
    entries,   \* what has been placed, in order; the hash holds the same
    result     \* "new", "item", "darts", "placed" or the error

vars == <<items, item, attempt, hash, entries, result>>

CeilDiv(a, b) == -((-a) \div b)

-----------------------------------------------------------------------------
(* The spatial hash: a grid of square cells.                               *)

\* newSpatialHash: a cell is as wide as the largest footprint, or 1.
newSpatialHash(maxRadius) ==
    [maxR |-> maxRadius, cell |-> IF maxRadius = 0 THEN 1 ELSE 2 * maxRadius]

\* Key of the cell a point is in.
key(x, y) == <<x \div hash.cell, y \div hash.cell>>

Placed == {entries[k] : k \in 1..Len(entries)}
Bucket(k) == {p \in Placed : key(p.x, p.y) = k}

\* Mutant: centres are kept one radius apart, not the sum of two.
Near_OneRadius(x, y, r, p) == (x - p.x) * (x - p.x) + (y - p.y) * (y - p.y) < r * r

\* Centres nearer than the sum of the radii.
Near(x, y, r, p) ==
    (x - p.x) * (x - p.x) + (y - p.y) * (y - p.y) < (r + p.r) * (r + p.r)

\* Mutant: the span is rounded down.
overlaps_ShortSpan(x, y, r) ==
    LET span == (r + hash.maxR) \div hash.cell
        base == key(x, y)
    IN  \E dx, dy \in -span..span : \E p \in Bucket(<<base[1] + dx, base[2] + dy>>) :
            Near(x, y, r, p)

\* Does a footprint of radius r at (x, y) overlap one in a cell nearby?
overlaps(x, y, r) ==
    LET span == CeilDiv(r + hash.maxR, hash.cell)
        base == key(x, y)
    IN  \E dx, dy \in -span..span : \E p \in Bucket(<<base[1] + dx, base[2] + dy>>) :
            Near(x, y, r, p)

-----------------------------------------------------------------------------
Init ==
    /\ items \in Recipes
    /\ item = 1 /\ attempt = 0
    /\ hash = newSpatialHash(0) /\ entries = << >>
    /\ result = "new"

Category == items[item].Category
r == Radius[Category]
loX == boundsMin.x + r
hiX == boundsMax.x - r
loY == boundsMin.y + r
hiY == boundsMax.y - r

\* Largest footprints first, the name as tie-break: categories are numbered
\* in the order of their names.
Before(a, b) ==
    \/ Radius[a.Category] > Radius[b.Category]
    \/ Radius[a.Category] = Radius[b.Category] /\ a.Category < b.Category

\* The orders of the items in which none comes before one it has to follow.
Sortings ==
    {o \in {[k \in 1..Len(items) |-> items[p[k]]] :
                p \in Bijection(1..Len(items), 1..Len(items))} :
        \A j, k \in 1..Len(items) : j < k => ~Before(o[k], o[j])}

\* Sort the items, and look every category up in the manifest.
Sort ==
    /\ result = "new"
    /\ IF \A k \in 1..Len(items) : items[k].Category \in DOMAIN Radius
       THEN /\ items' \in Sortings
            /\ hash' = newSpatialHash(Max({0} \cup {Radius[items[k].Category] : k \in 1..Len(items)}))
            /\ result' = "item"
       ELSE result' = "category not in manifest" /\ UNCHANGED <<items, hash>>
    /\ UNCHANGED <<item, attempt, entries>>

\* The next item: its footprint must fit into the bounds at all.
BeginItem ==
    /\ result = "item" /\ item <= Len(items)
    /\ result' = IF loX > hiX \/ loY > hiY THEN "bounds too small" ELSE "darts"
    /\ UNCHANGED <<items, item, attempt, hash, entries>>

\* Mutant: one dart too many.
GivesUp_Late(n) == n > maxAttempts

GivesUp(n) == n = maxAttempts

\* How many of the entries are of a category.
CountOf(es, c) == Cardinality({k \in 1..Len(es) : es[k].Category = c})

PlacedOfItem == CountOf(entries, Category)

\* Mutant: an instance that does not fit is skipped.
Dart_SkipsCrowded ==
    /\ result = "darts" /\ PlacedOfItem < items[item].Count
    /\ \E px \in loX..hiX, py \in loY..hiY :
        IF overlaps(px, py, r)
        THEN /\ attempt' = IF GivesUp(attempt + 1) THEN 0 ELSE attempt + 1
             /\ item' = IF GivesUp(attempt + 1) THEN item + 1 ELSE item
             /\ result' = IF GivesUp(attempt + 1) THEN "item" ELSE "darts"
             /\ UNCHANGED entries
        ELSE /\ entries' = Append(entries, [Category |-> Category, x |-> px, y |-> py, r |-> r])
             /\ attempt' = 0
             /\ UNCHANGED <<item, result>>
    /\ UNCHANGED <<items, hash>>

\* Throw a dart for the next instance: place it, or try again, or give up.
Dart ==
    /\ result = "darts" /\ PlacedOfItem < items[item].Count
    /\ \E px \in loX..hiX, py \in loY..hiY :
        IF overlaps(px, py, r)
        THEN /\ attempt' = attempt + 1
             /\ result' = IF GivesUp(attempt + 1) THEN "overcrowded" ELSE "darts"
             /\ UNCHANGED entries
        ELSE /\ entries' = Append(entries, [Category |-> Category, x |-> px, y |-> py, r |-> r])
             /\ attempt' = 0
             /\ UNCHANGED result
    /\ UNCHANGED <<items, item, hash>>

EndItem ==
    /\ result = "darts" /\ PlacedOfItem >= items[item].Count
    /\ item' = item + 1 /\ result' = "item"
    /\ UNCHANGED <<items, attempt, hash, entries>>

Return ==
    /\ result = "item" /\ item > Len(items)
    /\ result' = "placed"
    /\ UNCHANGED <<items, item, attempt, hash, entries>>

Next == Sort \/ BeginItem \/ Dart \/ EndItem \/ Return

Spec == Init /\ [][Next]_vars

-----------------------------------------------------------------------------
(* Properties.                                                             *)

Errors == {"category not in manifest", "bounds too small", "overcrowded"}

\* The type invariant.
TypeOK ==
    /\ items \in Seq([Category : Nat, Count : Nat])
    /\ item \in 1..Len(items) + 1
    /\ attempt \in 0..maxAttempts
    /\ hash \in [maxR : Nat, cell : Nat \ {0}]
    /\ entries \in Seq([Category : DOMAIN Radius, x : Int, y : Int, r : Nat])
    /\ result \in {"new", "item", "darts", "placed"} \cup Errors

Overlap(p, q) ==
    (p.x - q.x) * (p.x - q.x) + (p.y - q.y) * (p.y - q.y) < (p.r + q.r) * (p.r + q.r)

\* placement.go, of Place: "no two footprints overlap", which depends on the
\* hash, and "every footprint lies entirely within bounds".
FootprintsFit ==
    \A i \in 1..Len(entries) : LET p == entries[i] IN
        /\ \A j \in 1..Len(entries) \ {i} : ~Overlap(p, entries[j])
        /\ boundsMin.x <= p.x - p.r /\ p.x + p.r <= boundsMax.x
        /\ boundsMin.y <= p.y - p.r /\ p.y + p.r <= boundsMax.y

\* "per-category entry counts exactly match the recipe".
CountsMatch ==
    result = "placed" =>
        \A k \in 1..Len(items) :
            CountOf(entries, items[k].Category) = items[k].Count

\* The hash answers as a comparison with every placed footprint would, for
\* any dart of any item still to come: no cell that matters is left out.
HashIsExact ==
    result \notin {"new"} \cup Errors =>
        \A k \in item..Len(items), x \in boundsMin.x..boundsMax.x, y \in boundsMin.y..boundsMax.y :
            LET rad == Radius[items[k].Category] IN
            overlaps(x, y, rad) <=> \E p \in Placed : Near(x, y, rad, p)

\* The strengthening that makes these inductive: no footprint of the recipe is
\* larger than the hash was built for, and the items before the current one
\* are complete, those after it untouched.
Sorted == result \notin {"new", "category not in manifest"}

HashReaches ==
    /\ hash = newSpatialHash(hash.maxR)
    /\ \A i \in 1..Len(entries) : entries[i].r <= hash.maxR
    /\ Sorted =>
        \A k \in 1..Len(items) : /\ items[k].Category \in DOMAIN Radius
                                 /\ Radius[items[k].Category] <= hash.maxR

ItemsInTurn ==
    /\ \A i, j \in 1..Len(items) : items[i].Category = items[j].Category => i = j
    /\ result = "new" => item = 1 /\ entries = << >>
    /\ result = "darts" => item <= Len(items) /\ loX <= hiX /\ loY <= hiY
    /\ result = "placed" => item > Len(items)
    /\ result \in {"new", "item", "darts"} => attempt < maxAttempts
    /\ result \notin Errors => \A k \in 1..Len(items) :
        LET n == CountOf(entries, items[k].Category) IN
        /\ k < item => n = items[k].Count
        /\ k = item => n <= items[k].Count /\ (result = "item" => n = 0)
        /\ k > item => n = 0

IndInv == TypeOK /\ HashReaches /\ ItemsInTurn /\ FootprintsFit
=============================================================================
