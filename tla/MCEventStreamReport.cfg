CONSTANTS
    BufferSize = 1
    MaxSends = 5
    MaxLostReplies = 0
SPECIFICATION Spec
INVARIANT DropCountArrives
CHECK_DEADLOCK FALSE
