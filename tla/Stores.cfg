\* The ring and six components with a memory, each in a small instance.
SPECIFICATION StoresSpec
CONSTANTS
    Capacity = 2
    Producers = {p1, p2}
    Consumers = {q1, q2}
    MaxPush = 2
    Nil = Nil
    None = None
    Torn = Torn
    MaxFailures = 1
    MaxCrashes = 1
    Clients = {c1, c2}
    LastId = 2
    Sessions = {s1, s2}
    Questions = {x1}
    Global = Global
    Cut = Cut
    Overview = 2
    Budget = 5
    TopK = 1
    MaxLearns = 3
    Names = {n1, n2, n3, n4}
    Experts = {n1}
    Staff = {n1, n2}
    Hashes = {0, 3, 4, 7}
    FirstCap = 4
    Agents = {a, b}
    Unknown = Unknown
    MaxSteps = 3
    MaxChanges = 1
    Here = Here
    There = There
    Model = Model
    RouteNames = {r1, r2}
    MaxPicks = 2
    Lanes = {l1, l2}
    Tasks = {t1, t2}
    WorkingCap = 1
    EpisodesCap = 1
    Threshold = 1
    Interval = 1
    HalfLife = 1
    MinStrength = 2
    Fresh = 2
    MaxTime = 2
    MaxRuns = 2
INVARIANTS
    CellHasOneUser
PROPERTIES
    RingIsQueue
    KnowledgeSafe
    PoolsSafe
\* A component stops at its bounds, or when its request is over.
CHECK_DEADLOCK FALSE
