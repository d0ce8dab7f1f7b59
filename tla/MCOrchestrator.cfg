SPECIFICATION Spec
CONSTANTS
    GenIds <- MCGenIds
    MaxGens = 2
    MaxAssets = 3
    ChunkSize = 2
    SocketCap = 1
INVARIANTS
    TypeOK
    StreamsNeverInterleave
    OneRunning
    RunningIsReachable
    AtMostOneLateFrame
PROPERTIES
    QuietAfterShutdown
    ImplementsStream
