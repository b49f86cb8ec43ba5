\* One failure, as to leave a stale runner for the other job to meet.
SPECIFICATION FairSpec
CONSTANTS
    a = a
    b = b
    Jobs = {a, b}
    Kinds <- MCKinds
    Paths = {"virtual_os"}
    Output <- MCOutput
    Absent = Absent
    NoRunner = NoRunner
    Cloud = Cloud
    Answers <- MCAnswers
    MaxTries = 2
    MaxFaults = 1
CHECK_DEADLOCK FALSE
INVARIANTS
    TypeOK
    RunnersEndWithJobs
    StaleRunnerNeverServes
    ArtifactsBelongTogether
PROPERTIES
    ImplementsPromise
    EveryJobEnds
