SPECIFICATION FairSpec
CONSTANTS
    r = r
    t = t
    u = u
    s = s
    c = c
    d = d
    None = None
    Active = {r}
    Timer = {t, u}
    Stopper = s
    Fallible = {}
    Controls = {c, d}
    Delays = {1}
    TickPeriod = 2
    Wrap = 4
    MaxLate = 0
    MaxRunCalls = 1
    MaxCommands = 2
    RunCount = 1
    Priority <- MCPriority
CONSTRAINT Apart
PROPERTY StopAlwaysEnds
CHECK_DEADLOCK FALSE
