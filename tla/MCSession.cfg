SPECIFICATION FairSpec
CONSTANTS
    MaxConnectAttempts = 2
    MaxGens = 2
    MaxLaunches = 2
    MaxInbox = 2
INVARIANTS
    TypeOK
    GeneratingHasGeneration
    NeverWaitingForNothing
    EndsAgree
    NoLeakedChild
PROPERTIES
    ConnectSettles
    GenerationResolves
    OldChildExits
