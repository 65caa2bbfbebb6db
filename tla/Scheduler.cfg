SPECIFICATION FairSpec
CONSTANTS
    r = r
    t = t
    u = u
    s = s
    c = c
    d = d
    None = None
    Active = {r}
    Timer = {t, u}
    Stopper = s
    Fallible = {t}
    Controls = {c, d}
    Delays = {0, 1}
    TickPeriod = 2
    Wrap = 6
    MaxLate = 1
    MaxRunCalls = 1
    MaxCommands = 2
    RunCount = 1
    Priority <- MCPriority
CONSTRAINT Apart
INVARIANTS TypeOK SemaphoreCountsReady NoRequestLost CallbackWhenReady
PROPERTIES TimersOnTime StopEnds ReadyRuns
CHECK_DEADLOCK FALSE
