CONSTANTS
    Folders <- MCSavingFolders
    Names = {"h", "h_0", "h_0_0", "h/max", "h/max_0"}
    Numbered <- MCNumbered
    Above <- MCAbove
    NamesInOrder <- MCNamesInOrder
    Groups <- MCGroups
    OtherFaces = {2}
    Faults = {}
    MaxStored = 3
    MaxGroups = 4
SPECIFICATION FairFlo2dSpec
PROPERTIES EveryCloseEnds
