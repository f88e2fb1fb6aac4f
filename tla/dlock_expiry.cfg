CONSTANTS
    c1 = c1
    l1 = l1
    Lock = {l1}
    Client = {c1}
    NoOwner = NoOwner
    Expires = {1}
    AcquirementExpire = 1
    MaxTime = 4
    MaxLog = 3
    MaxTakeovers = 0
SPECIFICATION FairSpec
PROPERTY ExpiredLockComesFree
CHECK_DEADLOCK FALSE
