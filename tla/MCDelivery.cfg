SPECIFICATION FairSpec
CONSTANTS
    KindsOf <- MCKindsOf
    MaxEvents = 3
CHECK_DEADLOCK FALSE
INVARIANTS
    TypeOK
    OneWorker
PROPERTIES
    StatusFollowsConfig
