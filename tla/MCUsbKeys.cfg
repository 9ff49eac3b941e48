CONSTANTS
    d1 = d1
    d2 = d2
    MaxId = 9
    LastId = 6
    MaxLists = 4
    MaxSignals = 1
    DevName <- TwoDevices
    Label <- SameLabels
    Contents <- TwoLayouts
    Keys <- StoredKeys
SPECIFICATION Spec
INVARIANTS KeysRoundTrip RealizeFindsTarget ReadsAgree
