\* One task name, up to two replicas, two incarnations, every request and fault.
CONSTANTS
    r1 = r1
    r2 = r2
    Nobody = Nobody
    Replicas = {r1, r2}
    MaxUid = 2
    MaxTasks = 2
    Budgets <- Scenarios
SPECIFICATION Spec
INVARIANTS OutcomeSound OneAgentPerPod StopReaches
PROPERTIES NewIncarnationStreams OutcomeRecorded
CHECK_DEADLOCK FALSE
