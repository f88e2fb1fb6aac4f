CONSTANTS
    c1 = c1
    c2 = c2
    l1 = l1
    Lock = {l1}
    Client = {c1, c2}
    NoOwner = NoOwner
    Expires = {1}
    AcquirementExpire = 1
    MaxTime = 2
    MaxLog = 3
    MaxTakeovers = 0
    MaxLate = 0
SYMMETRY ClientSymmetry
SPECIFICATION ClientSpec
INVARIANT AcquiredMeansGranted
CHECK_DEADLOCK FALSE
