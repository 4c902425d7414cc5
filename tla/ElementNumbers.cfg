CONSTANTS
    Drivers = {"2DM"}
    MeshFiles = {"mesh"}
    FaceInputs <- MCLargeFaceInputs
    EdgeInputs <- MCEdgeInputs
    VertexBatches = {3}
    MaxVertices = 6
    MaxElements = 3
    MaxBatch = 1
    DataFiles = {"dat", "dat_els"}
    ElsUris = {"dat_els"}
    ElsNames = {"dat_els"}
    ElsName <- MCElsName
    ClientFiles = {}
    ClientLocations = {}
    ScalarChoices = {}
    ValueSets <- MCValueSets
    VolumeChoices = {}
    Faults = {}
    MaxGroups = 1
    MaxDatasets = 1
    MaxFiles = 2
SPECIFICATION SessionSpec
INVARIANT GroupsFitMesh
