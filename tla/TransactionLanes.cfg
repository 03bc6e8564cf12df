\* Two lanes share the store.
SPECIFICATION ToolsSpec
CONSTANTS
    Parts = {"transaction"}
    Lanes = {l1, l2}
    Paths = {f, g}
    Tracked = {f, g}
    Contents = {a, b}
    Binary = {}
    f = f
    g = g
    Absent = Absent
    Uncopied = Uncopied
    Unread = Unread
    Cut = Cut
    Torn = Torn
    ToolCalls <- EitherFile
    Selections <- OneFileCalls
    Crashes = FALSE
    MaxTx = 2
    MaxCalls = 1
    MaxFaults = 0
    MaxRestarts = 0
    Capacity = 2
    Items = {t1, t2}
    Threads = {t1, t2}
    Subscribers = {s1}
    MaxPublish = 2
    MaxDispatch = 2
    StoreBuffers = FALSE
    Plain = Plain
    Quote = Quote
    Least = 2
    MaxText = 4
    MaxDelta = 2
    MaxFailures = 1
    FirstRoom = 3
    Slack = 2
    PipeRoom = 3
    Limit = 2
    MaxOutput = 6
INVARIANTS
    CommitKeepsChanges
CHECK_DEADLOCK FALSE   \* no transaction is left to begin: the lanes wait for work
