CONSTANTS
    l1 = l1
    k1 = k1
    Lock = {l1}
    Key = {k1}
    None = None
    MaxLog = 2
    MaxNonce = 2
    MaxTerm = 2
    MaxCrash = 2
    MaxFailures = 0
SPECIFICATION BackupSpec
INVARIANT CrashLeavesFileReadable
CHECK_DEADLOCK FALSE
