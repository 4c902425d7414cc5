CONSTANTS
    Drivers = {"2DM"}
    MeshFiles = {"mesh"}
    FaceInputs <- MCLargeFaceInputs
    EdgeInputs <- MCEdgeInputs
    VertexBatches = {3}
    MaxVertices = 6
    MaxElements = 2
    MaxBatch = 2
SPECIFICATION MeshSpec
INVARIANT SavedMeshReloads
