\* JsonlStore, two writers, a client from the start, a channel of one slot, any pair of faults.
CONSTANTS
    r1 = r1
    poll = poll
    attach = attach
    viewer = viewer
    resumer = resumer
    Replicas = {r1}
    Tasks = {poll, attach}
    Home <- HomeOne
    Script <- ScriptShort
    UniqueIndex = FALSE
    SeqConflictRetries = 1
    MaxAppendFaults = 1
    MaxReadFaults = 0
    MaxCrashes = 1
    MaxPrunes = 1
    Subs = {viewer}
    SubHome <- SubHomeOne
    From <- FromMixed
    Capacity = 1
    MaxReplayFaults = 1
SPECIFICATION MCStreamSpec
INVARIANTS StreamSound DurableSeqUnique NoGapOneWriter
PROPERTIES StreamCloses
CHECK_DEADLOCK FALSE
