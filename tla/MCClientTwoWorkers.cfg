SPECIFICATION Spec
CONSTANTS
    MaxSockets = 2
    MaxFrames = 3
    Workers <- MCWorkers
    w1 = w1
    w2 = w2
    w3 = w3
SYMMETRY WorkerSymmetry
INVARIANT
    SingleActiveWorker
