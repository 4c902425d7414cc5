CONSTANTS
    Folders <- MCFolders
    Names = {"h", "h_0", "h_0_0", "h/max", "h/max_0"}
    Numbered <- MCNumbered
    Above <- MCAbove
    NamesInOrder <- MCNamesInOrder
    Groups <- MCGroups
    OtherFaces = {2, 3}
    Faults = {"killed", "no write"}
    MaxStored = 3
    MaxGroups = 4
SPECIFICATION Flo2dSpec
INVARIANTS Flo2dTypeOK CellsTiled ChannelsLaid Flo2dGroupsReload
PROPERTIES StoredStay
