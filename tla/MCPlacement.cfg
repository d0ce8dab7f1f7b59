SPECIFICATION Spec
CONSTANTS
    Radius <- MCRadius
    boundsMin <- MCMin
    boundsMax <- MCMax
    Recipes <- MCRecipes
    maxAttempts = 2
CHECK_DEADLOCK FALSE
INVARIANTS
    TypeOK
    FootprintsFit
    CountsMatch
    HashIsExact
