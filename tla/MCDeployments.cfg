\* Two deployments of a bank and one of a game, so that a bank's can overlap with
\* another bank's and with a game's, a session, and two failures anywhere.
SPECIFICATION FairSpec
CONSTANTS
    Games = {g1}
    Banks = {b1, b2}
    Sessions = {s1}
    None = None
    MaxFaults = 2
CHECK_DEADLOCK FALSE
INVARIANTS
    TypeOK
    RestartKeepsDeployments
    StrandedOnlyByOverlap
PROPERTIES
    ReplacedOnlyByOverlap
    EveryDeployEnds
