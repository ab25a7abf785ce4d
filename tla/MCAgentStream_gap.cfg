\* Two writers of one stream, no fault at all: a durable event is never sent.
CONSTANTS
    r1 = r1
    poll = poll
    attach = attach
    viewer = viewer
    resumer = resumer
    Replicas = {r1}
    Tasks = {poll, attach}
    Home <- HomeOne
    Script <- ScriptEnd
    UniqueIndex = TRUE
    SeqConflictRetries = 1
    MaxAppendFaults = 0
    MaxReadFaults = 0
    MaxCrashes = 0
    MaxPrunes = 0
    Subs = {viewer}
    SubHome <- SubHomeOne
    From <- FromMixed
    Capacity = 2
    MaxReplayFaults = 0
SPECIFICATION StreamSpec
INVARIANT NoGap
CHECK_DEADLOCK FALSE
