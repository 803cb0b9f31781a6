\* A read whose reply is lost and one failure anywhere besides, and every entry
\* fault that Faulty allows.
CONSTANTS
    c1 = c1
    c2 = c2
    NoCamera = NoCamera
    Cameras <- MCCameras
    GroupCameras <- MCCameras
    Keys <- MCKeys
    Script <- AllKinds
    Faulty <- MCFaulty
    Count = 2
    MaxAttempts = 2
    MaxEntries = 3
    MaxTrouble = 1
    MaxLostReads = 1
SPECIFICATION FairSpec
PROPERTIES
    EverythingSettles
CHECK_DEADLOCK FALSE
