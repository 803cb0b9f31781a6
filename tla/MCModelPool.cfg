SPECIFICATION FairSpec
CONSTANTS
    a = a
    b = b
    Callers = {a, b}
    Main = Main
    Keys = {"model"}
    Kwargs = {"low", "high"}
    Args <- MCArgs
    Stop = Stop
    NoRequest = NoRequest
    MaxBatch = 2
    MaxAcquires = 3
    MaxCalls = 2
    MaxHangs = 1
\* Cameras come and go, and nobody has to call.
CHECK_DEADLOCK FALSE
INVARIANTS
    TypeOK
    HeldIsUsable
    CallsServed
    NoModelLost
PROPERTIES
    ImplementsHandles
    CallersGoOn
