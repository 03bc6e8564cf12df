\* Components that keep what clients see, each in a small instance of its own.
SPECIFICATION Spec
CONSTANTS
    None = None
    Torn = Torn
    MaxFailures = 1
    MaxCrashes = 1
    Ids = {x1, x2}
    Lanes = {y1, y2}
    LogAfter = 1
    Cap = 2
    MaxTurns = 2
    Logins = {x1, x2}
    Sites = {w1}
    MaxNamings = 2
    Good = Good
    Bad = Bad
    MaxRequests = 3
    MaxLogins = 1
    Items = {x1, x2}
    Slots = {y1, y2}
    MaxStarts = 4
    Names = {x1, x2}
    Staff = {a1}
    FirstCap = 1
    MaxRooms = 1
    MaxUpdates = 2
    MaxChanges = 1
    MaxWrites = 3
    Planners = {p1}
    Api = Api
    Skills = {s1, s2}
    Demo = s1
    Bodies = {b1, b2}
    DemoBody = b1
    Python = {b2}
    Tools = {t1}
    MaxEdits = 2
    Always = Always
    HookCap = 2
    MaxRules = 3
    MaxCalls = 1
    Self = me
    Fellows = {n1}
    Stale = 3
    MaxTime = 9
    StateKeys = {k1}
    Tasks = {j1}
    Topics = {b1}
    Facts = {b1}
    Values = {v1, v2}
    Queued = Queued
    Finished = Finished
    MaxPuts = 4
INVARIANTS
    SessionsSafe
    AccessSafe
    CapabilitiesSafe
    PeersSafe
SYMMETRY Symmetry
\* Every component stops at its bounds.
CHECK_DEADLOCK FALSE
