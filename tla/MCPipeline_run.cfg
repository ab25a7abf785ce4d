\* SQL store with the unique index, two replicas racing on one stream; drops
\* within and beyond the budget at every point, a torn line, a shutdown; two calls of
\* one caliband, well or badly configured, with a lost connection; two replicas that
\* poll, one spawned agent with a timeout; a subscriber over either backend.
CONSTANTS
    r1 = r1
    r2 = r2
    attach = attach
    api = api
    c1 = c1
    c2 = c2
    worker = worker
    w1 = w1
    w2 = w2
    Replicas = {r1, r2}
    Tasks = {attach, api}
    Home <- HomeTwo
    Script <- ScriptThree
    UniqueIndex = TRUE
    SeqConflictRetries = 1
    MaxAppendFaults = 1
    MaxReadFaults = 1
    MaxCrashes = 1
    MaxPrunes = 1
    Frames <- RunFour
    MaxRetries = 2
    MaxDrops = 3
    MaxTorn = 1
    MaxShutdowns = 1
    MaxLateStarts = 1
    Calls = {c1, c2}
    MaxId = 3
    Scenarios <- AllSessions
    Nobody = Nobody
    Pollers = {r1, r2}
    Agents = {worker}
    Budgets <- AllBudgets
    Names = {w1, w2}
    Capacity = 1
    Watches <- AllWatches
SPECIFICATION MCSpec
INVARIANTS EmitterSound DurableOnce AttachSound SessionSound PollSound WatchSound
PROPERTIES PipelineSettles LogKeepsUp SnapshotConverges DeadlineEnforced
CHECK_DEADLOCK FALSE
