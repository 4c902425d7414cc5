CONSTANTS
    Files = {"f"}
    Names = {"h", "H", "h vector", "long", "long cut"}
    ClientNames = {"h", "long"}
    ReadAs <- MCReadAs
    VertexChoices = {0, 1, 2}
    Faults = {"killed", "no open", "no delete", "no rename", "disk full"}
    MaxGroups = 2
    MaxVariables = 3
    MaxSteps = 1
SPECIFICATION SelafinSpec
INVARIANTS SelafinTypeOK LazyReadsItsData PersistedStays TempSupersedes
