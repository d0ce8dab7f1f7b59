SPECIFICATION FairSpec
CONSTANTS
    MaxSockets = 2
    MaxFrames = 2
    Workers <- MCWorkers
    w1 = w1
    w2 = w2
    w3 = w3
INVARIANTS
    TypeOK
    OneDrains
    FramesKeepOrder
    RawIsWatched
PROPERTY
    EveryFrameDispatched
