SPECIFICATION Spec
CONSTANTS
    Jobs = {j1}
    Null = Null
    Shape <- MCShape
    Collections <- MCCollections
    Defaults <- MCDefaults
    Layers <- MCLayers
    Tables <- MCTables
    Sources <- MCSources
    AttributeLists <- MCAttributeLists
PROPERTY MissingColumnsUntouched
