\* Two actions in a round, no messages: a round of which one action fails.
SPECIFICATION FairSpec
CONSTANTS
    Targets = {a, b}
    Reads = {b}
    Gated = {}
    Native = TRUE
    MaxRounds = 3
    FailLimit = 5
    ToolLimit = 3
    StallAfter = 8
    SpeechLimit = 3
    MaxMessages = 0
    MaxActions = 2
INVARIANTS
    CompletedWorkIsInPlace
