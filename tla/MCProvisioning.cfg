\* Three commands, one failure.  Setup is over when its commands are.
SPECIFICATION Spec
CONSTANTS
    v1 = v1
    v2 = v2
    Versions = {v1, v2}
    Requests <- MCRequests
    Ships <- MCShips
    Differs = {"lock"}
    OnMac = TRUE
    NoStamp = NoStamp
    MaxCommands = 3
    MaxFaults = 1
INVARIANTS
    TypeOK
    PrebuiltRepairs
    NothingOlderThanStamp
    RunnerAsAsked
    SourceRepairs
CHECK_DEADLOCK FALSE
