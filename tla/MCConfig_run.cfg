\* Automations: two tick loops, two cron ticks, up to two requests, one fault.
\* Registry: one or two poll loops, up to three calls, one failed statement.
CONSTANTS
    r1 = r1
    r2 = r2
    enable = enable
    disable = disable
    delete = delete
    create = create
    run = run
    trigger = trigger
    Tickers = {r1, r2}
    Requests = {disable, enable, delete, create, run, trigger}
    Sessions <- EditAndRun
    Does <- DoesNamed
    Schedule = {1, 2}
    InitialRows <- AnyRow
    HistoryLimit = 1
    MaxNow = 3
    MaxFaults = 1
    h1 = h1
    h2 = h2
    n1 = n1
    n2 = n2
    ra = ra
    rb = rb
    c1 = c1
    c2 = c2
    c3 = c3
    Hosts = {h1, h2}
    Names = {n1, n2}
    Roots = {ra, rb}
    Calls = {c1, c2, c3}
    Scenarios <- AllScenarios
    DefaultEnv <- NoDefaults
    MaxStoreFaults = 1
SPECIFICATION MCSpec
INVARIANTS RegSound EnvCurrent AutomationSound TickOnce
PROPERTIES RegistryConverges ClaimStands TicksKept
CHECK_DEADLOCK FALSE
