CONSTANTS
    Drivers = {"2DM", "PLY", "BINARY_DAT"}
    MeshFiles = {"mesh"}
    FaceInputs <- MCFaceInputs
    EdgeInputs <- MCEdgeInputs
    VertexBatches = {3}
    MaxVertices = 6
    MaxElements = 2
    MaxBatch = 2
SPECIFICATION MeshSpec
INVARIANTS MeshTypeOK FaceTableSound EdgeEndsBelow OwnDriverAccepts SavedQuadsReload
PROPERTIES FailedCallKeepsMesh MeshOnlyGrows
