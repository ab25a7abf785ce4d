\* A task gives up and the poll loop starts another.
CONSTANTS
    Frames <- RunTwo
    MaxRetries = 1
    MaxDrops = 3
    MaxTorn = 0
    MaxShutdowns = 0
    MaxLateStarts = 0
SPECIFICATION AttachSpec
INVARIANT EmittedOnce
CHECK_DEADLOCK FALSE
