\* Without failures: a download between two builds.
SPECIFICATION Spec
CONSTANTS
    v1 = v1
    v2 = v2
    Versions = {v1, v2}
    Requests <- MCRequests
    Ships <- MCShips
    Differs = {"lock"}
    OnMac = TRUE
    NoStamp = NoStamp
    MaxCommands = 3
    MaxFaults = 0
INVARIANT BuiltRunnerIsStarted
CHECK_DEADLOCK FALSE
