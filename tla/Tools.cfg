\* Transactions: one lane, a file to capture and one that git manages, two
\* transactions of two calls, restores and a restart; captures fail, blocks are
\* torn, one content is binary.  The bus: two publishers, a handler registered at
\* any time, the bound of one drain within reach and the flag's store delayed.
\* Secrets: two characters, one of which JSON escapes, one password.
SPECIFICATION ToolsSpec
CONSTANTS
    Parts = {"transaction", "bus", "secrets", "shell"}
    Lanes = {l1}
    Paths = {f, g}
    Tracked = {f}
    Contents = {a, b}
    Binary = {b}
    f = f
    g = g
    Absent = Absent
    Uncopied = Uncopied
    Unread = Unread
    Cut = Cut
    Torn = Torn
    ToolCalls <- TwoFileCalls
    Selections <- OnceOrTwice
    Crashes = TRUE
    MaxTx = 2
    MaxCalls = 2
    MaxFaults = 1
    MaxRestarts = 1
    Capacity = 2
    Items = {t1, t2}
    Threads = {t1, t2}
    Subscribers = {s1}
    MaxPublish = 2
    MaxDispatch = 2
    StoreBuffers = TRUE
    Plain = Plain
    Quote = Quote
    Least = 2
    MaxText = 4
    MaxDelta = 2
    MaxFailures = 1
    FirstRoom = 3
    Slack = 2
    PipeRoom = 3
    Limit = 2
    MaxOutput = 6
SYMMETRY ThreadSymmetry
INVARIANTS
    BusSafe
    SecretsSafe
    CommandsSafe
PROPERTIES
    RollbackStaysInside
    RollbackRestores
    RestoreGivesOriginal
CHECK_DEADLOCK FALSE   \* every part stops at its bounds
