------------------------------ MODULE MCRecipe ------------------------------
(* Counts around the caps.  Two items in any order, over two known          *)
(* categories and an unknown one, make every kind of invalid recipe; four   *)
(* categories with counts below and above the caps make the clamp round.    *)
EXTENDS Recipe

CONSTANTS a, b, c, d, other

MCCategories == {a, b, c, d, other}
MCManifest == {a, b, c, d}

Recipes(items, n) == UNION {[1..m -> items] : m \in 0..n}
InOrder == {[i \in 1..4 |-> [Category |-> <<a, b, c, d>>[i], Count |-> n[i]]] :
                n \in [1..4 -> {1, 2, 5}]}

MCAnswers == Recipes([Category : {a, b, other}, Count : {-1, 0, 5}], 2) \cup InOrder

Stale == Readable(<<[Category |-> b, Count |-> 2]>>)
MCStaleDirs ==
    {[k \in K |-> Stale] : K \in SUBSET {NoDetail, NotJSON}} \cup {[k \in {NoDetail} |-> Unreadable]}
=============================================================================
