CONSTANTS
    d1 = d1
    d2 = d2
    MaxId = 4
    LastId = 4
    MaxLists = 3
    MaxSignals = 2
    DevName <- TwoDevices
    Label <- TwoVolumes
    Contents <- OneLayout
    Keys <- NoKeys
SPECIFICATION Spec
INVARIANTS TypeOK ClientView TreeSound InStep
