\* API clients: an inspecting and cancelling client, a legacy borrower, worker growth,
\* admission and history limits.
SPECIFICATION Spec
CONSTANTS
    MaxId = 1
    MaxWorkers = 2
    InitWorkers = 1
    MaxActive = 2
    MaxRejected = 1
    Priorities = {0}
    HistoryLimits = {1}
    JournalMarks = {}
    Borrowable = {0}
    Clients = {c1}
INVARIANTS
    TypeOK
    CancelBeforeSettleWins
    QueuedCancelNeverRuns
    NoReclaimInUse
PROPERTIES
    SettledIsFinal
