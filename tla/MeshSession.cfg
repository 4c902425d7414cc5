CONSTANTS
    Drivers = {"PLY"}
    MeshFiles = {"mesh"}
    FaceInputs <- MCFaceInputs
    EdgeInputs <- MCEdgeInputs
    VertexBatches = {3}
    MaxVertices = 6
    MaxElements = 1
    MaxBatch = 1
    DataFiles = {"dat", "dat_els"}
    ElsUris = {"dat_els"}
    ElsNames = {"dat_els"}
    ElsName <- MCElsName
    ClientFiles = {"dat"}
    ClientLocations = {"Volumes"}
    ScalarChoices = {TRUE, FALSE}
    ValueSets <- MCValueSets
    VolumeChoices = {0, 2}
    Faults = {}
    MaxGroups = 1
    MaxDatasets = 1
    MaxFiles = 2
SPECIFICATION SessionSpec
INVARIANTS GroupsFitMesh SavedGroupsFit
PROPERTY GroupsLive
