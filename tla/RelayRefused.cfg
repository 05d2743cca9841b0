SPECIFICATION Spec
CONSTANTS
    MaxFrames = 3
    QueueSize = 1
    MaxMessages = 2
    BatchSize = 1
    ProgressEvery = 2
INVARIANT PeersKeepTalking
CHECK_DEADLOCK FALSE
