CONSTANTS
    c1 = c1
    l1 = l1
    Lock = {l1}
    Client = {c1}
    NoOwner = NoOwner
    Expires = {1}
    AcquirementExpire = 1
    MaxTime = 2
    MaxLog = 4
    MaxTakeovers = 1
    MaxLate = 0
SPECIFICATION ClientSpec
INVARIANT ReleasedMeansReleased
CHECK_DEADLOCK FALSE
