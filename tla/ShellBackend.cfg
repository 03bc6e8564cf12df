\* Any backend, any arguments.
SPECIFICATION Spec
CONSTANTS
    FirstRoom = 3
    Slack = 2
    PipeRoom = 3
    Limit = 2
    MaxOutput = 6
    MaxFailures = 1
INVARIANTS
    RunsInItsTarget
CHECK_DEADLOCK FALSE   \* the command is over
