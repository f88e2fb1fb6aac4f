CONSTANTS
    c1 = c1
    c2 = c2
    l1 = l1
    Lock = {l1}
    Client = {c1, c2}
    NoOwner = NoOwner
    Expires = {1}
    AcquirementExpire = 1
    MaxTime = 2
    MaxLog = 3
    MaxTakeovers = 1
    MaxLate = 1
CONSTRAINT Small
SYMMETRY ClientSymmetry
SPECIFICATION ClientSpec
INVARIANTS PromisedLeaseKept ReleasedMeansGone
CHECK_DEADLOCK FALSE
