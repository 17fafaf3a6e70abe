SPECIFICATION Spec
CONSTANTS
    Workers = {w1}
    Jobs = {j1}
    RemoveJobs = {}
    Ignoring = {}
    NoJob = NoJob
    Persistent = TRUE
    MaxFeatures = 1
    MaxOutages = 1
INVARIANT ServerSurvives
