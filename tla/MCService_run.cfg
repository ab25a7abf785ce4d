\* Each part of the service on its own small instance (see MCService).
CONSTANTS
    Desks <- AllDesks
    MaxOrphans = 1
    Scripts <- AllScripts
    MaxDrops = 2
    MaxGaps = 1
    Resources <- FoundResources
    Others <- FoundResources
    ProviderNames = {"p", "q"}
    MaxEdits = 3
    MaxOthers = 1
    ra = ra
    rb = rb
    Servers = {ra, rb}
    TokenFiles <- FileVersions
    Installs <- Deployments
    SessionTtl = 2
    EventsDefault = 2
    EventsMax = 3
    PageLimits = {0, 1, 9}
    MaxSeq = 4
    ka = ka
    kb = kb
    Keys = {ka, kb}
    TailKey = ka
    Sites <- AllSites
    FeedBatch = 2
    wa = wa
    wb = wb
    Times <- Instants
    Usages <- Reported
    Queries <- Asked
    SinceArgs <- SinceAsked
    MaxUsageDays = 14
    MaxUsageEvents = 2
    RetentionDays = 2
    Invocations <- CommandLines
SPECIFICATION MCSpec
INVARIANTS DashSound PaneSound AccessSound FeedSound DaemonSound
PROPERTIES PageKeepsUp PaneFollows FormKeeps  UsageTold SignalBringsDown
CHECK_DEADLOCK FALSE
