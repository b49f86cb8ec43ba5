\* Liveness without failures: timeouts happen only where the transaction is dead.
SPECIFICATION FairSpec
CONSTANTS
    r1 = r1
    r2 = r2
    s1 = s1
    s2 = s2
    Requests = {r1, r2}
    Sessions = {s1, s2}
    NoTask = NoTask
    House = House
    Player = Player
    Nobody = Nobody
    Routes <- MCDistinctRoutes
    Funds <- MCFunds
    DeployNonce = 0
    MaxFaults = 0
CHECK_DEADLOCK FALSE
PROPERTIES
    EveryTaskEnds
    CoveredPlayIsPaid
    CoveredPlayEndsPaid
