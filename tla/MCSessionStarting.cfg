SPECIFICATION FairSpec
CONSTANTS
    MaxConnectAttempts = 2
    MaxGens = 1
    MaxLaunches = 2
    MaxInbox = 2
PROPERTY
    StartingEnds
