SPECIFICATION FairSpec
CONSTANTS
    Workers = {w1, w2}
    Requests = {r1, r2, r3}
    NoJob = NoJob
INVARIANTS
    TypeOK
    NoThreadOutlivesBroker
    AcceptedIsExecuted
    FailedStartAcceptsNothing
PROPERTY StopTerminates
