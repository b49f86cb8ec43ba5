\* Safety with two failures of any kind anywhere.
SPECIFICATION Spec
CONSTANTS
    r1 = r1
    r2 = r2
    s1 = s1
    s2 = s2
    Requests = {r1, r2}
    Sessions = {s1, s2}
    NoTask = NoTask
    House = House
    Player = Player
    Nobody = Nobody
    Routes <- MCAllRoutes
    Funds <- MCFunds
    DeployNonce = 1
    MaxFaults = 2
SYMMETRY MCSymmetry
CHECK_DEADLOCK FALSE
INVARIANTS
    TypeOK
    NonceRacesAreAbandoned
    PaidOnlyAfterProof
    MatchedReplyTrue
    ReceiptSeedIsSound
    ProvedOnlyAfterConfirm
    NobodyStuck
PROPERTIES
    SeedFixedOnceRevealed
