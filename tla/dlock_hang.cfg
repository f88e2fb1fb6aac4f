CONSTANTS
    c1 = c1
    c2 = c2
    l1 = l1
    Lock = {l1}
    Client = {c1, c2}
    NoOwner = NoOwner
    Expires = {1}
    AcquirementExpire = 1
    MaxTime = 3
    MaxLog = 3
    MaxTakeovers = 1
CONSTRAINT Small
SPECIFICATION Spec
INVARIANT NeverHung
CHECK_DEADLOCK FALSE
