SPECIFICATION Spec
CONSTANTS
    Jobs = {j1}
    Workers = {w1}
    Readers = {}
    NoJob = NoJob
    MaxAge = 1
    Start = 2
    MaxTime = 3
PROPERTY DoneIsKeptForMaxAge
