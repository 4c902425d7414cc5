CONSTANTS
    Drivers = {"BINARY_DAT", "PLY"}
    DataFiles = {"dat", "dat_els"}
    ElsUris = {"dat_els"}
    ElsNames = {"dat_els"}
    ElsName <- MCElsName
    ClientFiles = {"dat"}
    CountChoices <- MCCountChoices
    ClientLocations = {"Vertices", "Volumes"}
    ScalarChoices = {TRUE}
    ValueSets <- MCTwoValueSets
    VolumeChoices = {2}
    Faults = {"disk full"}
    MaxGroups = 1
    MaxDatasets = 2
    MaxFiles = 2
SPECIFICATION GroupsSpec
INVARIANTS GroupTypeOK WrittenForItsMesh StatisticsCoverDatasets PersistedReloads
PROPERTIES CloseReported ImplementsLifecycle
