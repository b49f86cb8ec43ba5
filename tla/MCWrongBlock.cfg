\* Two invokes, and a proof of the second before its block is known.
SPECIFICATION Spec
CONSTANTS
    i1 = i1  i2 = i2  d1 = d1  a1 = a1  f1 = f1
    p1 = p1  b1 = b1  b2 = b2  s1 = s1
    Invokes = {i1, i2}
    Deploys = {d1}
    Accounts = {a1}
    Funds = {f1}
    Scripts = {p1}
    Blocks = {b1, b2}
    Submits = {s1}
    Workloads <- MCWorkloads
    None = None
    First = First
    Absent = Absent
    MaxAttempts = 2
    MaxFaults = 0
CHECK_DEADLOCK FALSE
INVARIANTS
    ProvesAgainstOwnBlock
