\* Any two failures: calls that fail, a crash, lost data, a deleted camera.
\* Lost replies to reads are in the run MCIngestSettles.
CONSTANTS
    c1 = c1
    c2 = c2
    NoCamera = NoCamera
    Cameras <- MCCameras
    GroupCameras <- MCCameras
    Keys <- MCKeys
    Script <- TwoBoots
    Faulty <- MCFaultyPair
    Count = 3
    MaxAttempts = 2
    MaxEntries = 3
    MaxTrouble = 2
    MaxLostReads = 0
SPECIFICATION Spec
INVARIANTS
    TypeOK
    AckedIsSettled
    RestartSplitsBoots
    MetricIsLatest
    PushedOnce
PROPERTY OrderKept
CHECK_DEADLOCK FALSE
