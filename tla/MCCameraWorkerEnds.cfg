SPECIFICATION FairSpec
CONSTANTS
    Script <- MCSwapScript
    UseCases = {"count", "zone"}
    Models = {"m", "n"}
    Streams = {"a", "b"}
    Names = {"x", "y"}
    MaxFailures = 1
CHECK_DEADLOCK FALSE
PROPERTIES
    NewestRuns
    StopEnds
