SPECIFICATION FairSpec
CONSTANTS
    Workers = {w1, w2}
    Jobs = {j1, j2}
    RemoveJobs = {j2}
    Ignoring = {j1}
    NoJob = NoJob
    Persistent = FALSE
    MaxFeatures = 1
    MaxOutages = 1
INVARIANTS
    TypeOK
    AllOrNothing
    FinishedIsCommitted
    SessionCleanBetweenJobs
PROPERTIES
    ImplementsLifecycle
    StartedIsDone
    QuitEndsWorkers
