\* A buffer of two and four sends: overflow of the message in flight, of a
\* queued one and of a report all happen.
CONSTANTS
    BufferSize = 2
    MaxSends = 4
    MaxLostReplies = 1
SPECIFICATION FairSpec
INVARIANTS
    TypeOK
    InSendOrder
    NothingVanishes
    LossesCounted
PROPERTIES
    StopEnds
    Drains
CHECK_DEADLOCK FALSE
