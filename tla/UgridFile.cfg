CONSTANTS
    Files = {"f"}
    MeshNames = {"mesh2d", "network", "my mesh", "my_mesh"}
    Networks = {"network"}
    Unspaced <- MCUnspaced
    Names = {"h", "h_y_", "flow", "wind", "edges", "face_nodes"}
    ReadAs <- MCReadAs
    VarNames <- MCVarNames
    VarName <- MCVarName
    OwnVars <- MCOwnVars
    Groups <- MCGroups
    Asked = {"", "my mesh", "my_mesh"}
    MeshChoices <- MCMeshChoices
    Foreign <- MCForeign
    Faults = {"killed", "no create", "no open"}
    MaxVariables = 3
SPECIFICATION UgridSpec
INVARIANTS UgridTypeOK UgridMeshReloads GroupsReload
PROPERTIES GroupsStay
