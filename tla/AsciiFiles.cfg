CONSTANTS
    Drivers = {"ASCII_DAT"}
    DataFiles = {"dat", "dat_els", "els/dat"}
    ElsUris = {"dat_els", "els/dat"}
    ElsNames = {"dat_els"}
    ElsName <- MCAsciiElsName
    ClientFiles = {"dat", "dat_els", "els/dat"}
    CountChoices <- MCAsciiCounts
    ClientLocations = {"Vertices", "Faces", "Edges"}
    ScalarChoices = {TRUE}
    ValueSets <- MCOneValueSet
    VolumeChoices = {}
    Faults = {"killed"}
    MaxGroups = 1
    MaxDatasets = 1
    MaxFiles = 1
SPECIFICATION GroupsSpec
INVARIANTS DatasetsFitMesh PersistedReloads
