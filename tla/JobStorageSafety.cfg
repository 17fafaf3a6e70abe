SPECIFICATION Spec
CONSTANTS
    Jobs = {j1, j2}
    Workers = {w1}
    Readers = {r1}
    NoJob = NoJob
    MaxAge = 1
    Start = 2
    MaxTime = 4
SYMMETRY Symmetry
INVARIANTS
    TypeOK
    UnfinishedIsListed
    DoneReportHasStatistics
    StatsDescribeTheList
PROPERTY
    RecordedIsKeptForMaxAge
