\* Nine components, each in a small instance of its own.
SPECIFICATION Spec
CONSTANTS
    Missing = Missing
    Torn = Torn
    MaxRuns = 2
    MaxSeq = 2
    DiskCrashes = 1
    MaxCrashes = 2
    MaxJobs = 2
    Intervals = {0, 2}
    Day = 4
    DailyAt = 3
    LastTime = 7
    MaxIds = 2
    MaxRestarts = 1
    Rooms = {1, 2}
    RoomLocks = 1
    Rounds = 3
    LastMessage = 5
    MaxHuman = 2
    N = 3
    MaxParallel = 2
    Callers = {c1, c2}
    MaxId = 3
    MaxProcess = 2
    MaxTests = 1
    Names = {s1, s2}
    Twin = s2
    Original = s1
    Configs = {u, v}
    Stdio = {u}
    Offers = {t}
    Local = {s1}
    Default = u
    Tasks = {k1}
    MaxChanges = 2
    MaxCalls = 1
    ServerCrashes = 1
    Lanes = {l1, l2}
    MaxTasks = 2
    MaxModels = 3
    Recovered = 1
    Conns = {w1, w2, w3}
    MaxConn = 2
    Handlers = {h1, h2, h3}
    Starter = Starter
    OldNames = {n1}
    MaxFiles = 2
    MaxFailures = 1
INVARIANTS
    TeamsSafe
    McpSafe
    ServingSafe
PROPERTIES
    DiskSafe
    CronKeepsTime
\* Every component stops: at its bounds, at the end of what it does, or, with a
\* journal it cannot read, before it begins.
CHECK_DEADLOCK FALSE
