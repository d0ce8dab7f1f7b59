---------------------------- MODULE MCPlacement ----------------------------
(* A manifest of four footprints, bounds around the origin, and recipes   *)
(* that fit, that are crowded, that do not fit or name an unknown category.*)
EXTENDS Placement

MCMin == [x |-> -3, y |-> -3]
MCMax == [x |-> 3, y |-> 1]
MCRadius == <<1, 2, 0, 3>>
I(c, n) == [Category |-> c, Count |-> n]
MCRecipes == {
    <<I(1, 2), I(2, 1)>>,
    <<I(3, 1), I(1, 2)>>,
    <<I(2, 3)>>,
    <<I(3, 2)>>,
    <<I(1, 1), I(4, 1)>>,
    <<I(1, 0), I(5, 1)>> }
=============================================================================
