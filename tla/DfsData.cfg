CONSTANTS
    Files <- MCFiles
    Prebuilt = 1
    Requests <- MCRequests
    Faults = {"values"}
SPECIFICATION DfsSpec
INVARIANTS DfsTypeOK DataTopDown AcceptedIsFilled
PROPERTIES ValuesStay
