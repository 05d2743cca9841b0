SPECIFICATION EndingsSpec
CONSTANTS
    MaxFrames = 2
    QueueSize = 1
    MaxMessages = 2
    BatchSize = 1
    ProgressEvery = 2
    t1 = t1
    p = p
    q = q
    x1 = x1
    u1 = u1
    None = None
 
PROPERTY WhatBeginsEnds
CHECK_DEADLOCK FALSE
