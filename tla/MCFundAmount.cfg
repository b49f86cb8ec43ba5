\* Two-bit halves, and a release build.
SPECIFICATION Spec
CONSTANTS
    Bits = 2
    Builds = {"release"}
    Balances = {0, 3, 15}
CHECK_DEADLOCK FALSE
INVARIANTS
    FundMovesAmount
