CONSTANTS
    c1 = c1
    c2 = c2
    NoCamera = NoCamera
    Cameras <- MCCameras
    GroupCameras <- MCCameras
    Keys <- MCKeys
    Script <- OneSession
    Faulty = {}
    Count = 2
    MaxAttempts = 2
    MaxEntries = 3
    MaxTrouble = 1
    MaxLostReads = 1
SPECIFICATION Spec
INVARIANT DeliveredTwiceChangesNothing
CHECK_DEADLOCK FALSE
