\* Two lanes, two tasks at a time, two switches of the model; one task id in
\* the journal of the last run.
SPECIFICATION Spec
CONSTANTS
    Lanes = {l1, l2}
    MaxTasks = 2
    MaxModels = 3
    Recovered = 1
INVARIANT RunKeepsItsModel
\* Once shut down, the runtime stops.
CHECK_DEADLOCK FALSE
