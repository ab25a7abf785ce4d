\* A replica on its own under every fault, and two with a stall and a crash.
CONSTANTS
    r1 = r1
    r2 = r2
    poll1 = poll1
    spawn1 = spawn1
    poll2 = poll2
    Nobody = Nobody
    Replicas = {r1, r2}
    Callers = {poll1, spawn1, poll2}
    At <- AtTwo
    Once = {spawn1}
    Ttl = 1
    MaxStalls = 1
    MaxExits = 1
    MaxCrashes = 1
    MaxDbFaults = 1
SPECIFICATION MCSpec
INVARIANTS AttachOnce
PROPERTIES LeaseMoves LossNoticed
CHECK_DEADLOCK FALSE
