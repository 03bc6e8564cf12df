\* Chat lanes: three tasks, two of one session, one lane.  Scheduler: three
\* tasks, two workers, no readers.
\* Event bus: two publishers, the bound of one drain out of reach.
SPECIFICATION ProgressSpec
CONSTANTS
    t1 = t1
    t2 = t2
    t3 = t3
    s1 = s1
    s2 = s2
    Tasks = {t1, t2, t3}
    Sessions = {s1, s2}
    Slots = {l1}
    Locks = {e1, e2, e3}
    Nobody = Nobody
    Null = Null
    SessionOf <- OneShared
    MaxId = 2
    MaxWorkers = 2
    InitWorkers = 2
    MaxActive = 0
    MaxRejected = 0
    Priorities = {0}
    HistoryLimits = {}
    JournalMarks = {}
    Borrowable = {}
    Clients = {}
    Capacity = 2
    Items = {b1, b2}
    Threads = {b1, b2}
    Subscribers = {}
    MaxPublish = 1
    MaxDispatch = 9
    StoreBuffers = FALSE
INVARIANTS
    LanesSafe
PROPERTIES
    EveryChatLeaves
    AcceptedCompletes
    ShutdownDrains
    AcceptedIsDispatched
\* A task that is over and a drained scheduler stop.
CHECK_DEADLOCK FALSE
