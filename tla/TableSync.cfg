SPECIFICATION FairSpec
CONSTANTS
    Jobs = {j1, j2}
    Null = Null
    Shape <- MCShape
    Collections <- MCCollections
    Defaults <- MCDefaults
    Layers <- MCLayers
    Tables <- MCTables
    Sources <- MCSources
    AttributeLists <- MCAttributeLists
PROPERTIES
    PullMirrorsSource
    RepeatedPullWritesNothing
    PartialPullKeepsRows
    StatisticsMatchTable
    RemovesDescribedRows
    JobsEnd
