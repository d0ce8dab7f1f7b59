SPECIFICATION FairSpec
CONSTANTS
    tree = tree
    rock = rock
    ghost = ghost
    Cats <- MCCats
    NoPath <- MCNoPath
    Unknown = Unknown
    MaxGens = 2
    MaxEntries = 3
INVARIANTS
    TypeOK
    EntriesAccounted
    OneTransactionEach
    WaitingIsLoading
PROPERTY
    CompleteIsFinalized
