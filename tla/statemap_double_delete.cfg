CONSTANTS
    l1 = l1
    k1 = k1
    Lock = {l1}
    Key = {k1}
    None = None
    MaxLog = 4
    MaxNonce = 2
    MaxTerm = 2
SPECIFICATION Spec
INVARIANT KVMapKeepsUp
CHECK_DEADLOCK FALSE
