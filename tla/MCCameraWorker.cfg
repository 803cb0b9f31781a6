SPECIFICATION Spec
CONSTANTS
    Script <- MCScript
    UseCases = {"count", "zone"}
    Models = {"m", "n"}
    Streams = {"a", "b"}
    Names = {"x", "y"}
    MaxFailures = 1
CHECK_DEADLOCK FALSE
INVARIANTS
    TypeOK
    NothingLeaks
    FollowsConfig
    NoSilentWait
PROPERTY AppliedForward
