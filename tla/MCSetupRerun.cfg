\* Without failures: the same command twice.
SPECIFICATION Spec
CONSTANTS
    v1 = v1
    v2 = v2
    Versions = {v1, v2}
    Requests <- MCRequests
    Ships <- MCShips
    Differs = {"lock"}
    OnMac = TRUE
    NoStamp = NoStamp
    MaxCommands = 2
    MaxFaults = 0
INVARIANT RerunSucceeds
CHECK_DEADLOCK FALSE
