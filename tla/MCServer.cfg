SPECIFICATION ServerSpec
CONSTANTS
    GenIds <- MCGenIds
    MaxGens = 2
    MaxAssets = 1
    ChunkSize = 1
    SocketCap = 1
    InboundCap = 1
    MaxSent = 3
INVARIANTS
    ServerTypeOK
    RefusalIsFinal
    EndsForCause
PROPERTIES
    ServedImplementsStream
    AlwaysBackToReading
    EveryGenerationAnswered
