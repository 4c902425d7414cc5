CONSTANTS
    Plugins = {"dfsu", "example", "stub", "half"}
    Exports <- MCExports
    Style <- MCStyle
    DatasetCount <- MCDatasetCount
    Handles = {h1}
    Iterators = {i1, i2}
    Shape <- MCShape
    FaceMax = 4
    Blocks <- MCBlocks
    MaxOpened = 2
    MaxRefs = 15
SPECIFICATION FairPluginSpec
INVARIANTS PluginTypeOK LibraryStays
PROPERTIES ReadingEnds ReaderSpec
