\* Workers alone: three tasks of two priorities on two workers.
SPECIFICATION Spec
CONSTANTS
    MaxId = 2
    MaxWorkers = 2
    InitWorkers = 2
    MaxActive = 0
    MaxRejected = 1
    Priorities = {0, 1}
    HistoryLimits = {}
    JournalMarks = {1}
    Borrowable = {}
    Clients = {}
INVARIANTS
    OnePlace
    ContinuationStaysHome
    IdleIsQuiescent
    SleepersNotNeeded
    ShutdownLeavesNothing
