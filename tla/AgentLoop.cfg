\* The loop: one action a round, two kinds of them, one to be approved; one round, one message that opens another.
SPECIFICATION AgentSpec
CONSTANTS
    Targets = {a, b}
    Reads = {a}
    Gated = {b}
    Native = TRUE
    MaxRounds = 1
    FailLimit = 2
    ToolLimit = 2
    StallAfter = 2
    SpeechLimit = 2
    MaxMessages = 1
    MaxActions = 1
\* The model: answers of one part, one call of the run, one beside it, one crash.
    Parts = 1
    MaxCalls = 1
    MaxSimple = 1
    MaxCrashes = 1
\* The planner: two calls in a reply.
    MaxItems = 2
    Windows = {1, 1024, 2048, 4096, 8192, 131072, 262144}
    Sizes = {0, 1, 999, 5000, 100000}
\* The evidence: a file and a wrong guess of its name, two actions.
    Files = {p, q}
    Guess = q
    Real = p
    Outputs = {p}
    Pages = 2
    Window = 2
    MaxFailed = 1
    Rejections = 2
    MaxTries = 2
    MaxTools = 2
    MaxOutside = 1
    MaxNews = 1
INVARIANTS
    AnswerKnowsEveryMessage
    NoMessageIsLost
    RepliesSafe
    EvidenceSafe
PROPERTIES
    AllowedFirst
    EveryRunEnds
CHECK_DEADLOCK FALSE
