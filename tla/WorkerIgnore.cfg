SPECIFICATION Spec
CONSTANTS
    Workers = {w1}
    Jobs = {j1}
    RemoveJobs = {}
    Ignoring = {j1}
    NoJob = NoJob
    Persistent = TRUE
    MaxFeatures = 1
    MaxOutages = 0
INVARIANT FinishedIsStored
