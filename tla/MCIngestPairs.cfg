CONSTANTS
    c1 = c1
    c2 = c2
    NoCamera = NoCamera
    Cameras <- MCCameras
    GroupCameras <- MCCameras
    Keys <- MCKeys
    Script <- OneSession
    Faulty = {}
    Count = 1
    MaxAttempts = 2
    MaxEntries = 3
    MaxTrouble = 1
    MaxLostReads = 1
SPECIFICATION Spec
INVARIANT PairsKept
CHECK_DEADLOCK FALSE
