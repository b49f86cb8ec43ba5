\* One failure is enough, or none at all.
SPECIFICATION Spec
CONSTANTS
    r1 = r1
    r2 = r2
    s1 = s1
    s2 = s2
    Requests = {r1, r2}
    Sessions = {s1, s2}
    NoTask = NoTask
    House = House
    Player = Player
    Nobody = Nobody
    Routes <- MCAllRoutes
    Funds <- MCFunds
    DeployNonce = 1
    MaxFaults = 1
CHECK_DEADLOCK FALSE
INVARIANTS
    MatchConfirmedBeforeSeed
