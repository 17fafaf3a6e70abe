SPECIFICATION FairSpec
CONSTANTS
    Jobs = {j1, j2}
    Workers = {w1}
    Readers = {}
    NoJob = NoJob
    MaxAge = 1
    Start = 2
    MaxTime = 4
PROPERTIES
    DoneIsRemoved
    DestructionTerminates
