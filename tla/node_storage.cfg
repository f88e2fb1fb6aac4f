CONSTANTS
    l1 = l1
    k1 = k1
    Lock = {l1}
    Key = {k1}
    None = None
    MaxLog = 3
    MaxNonce = 2
    MaxTerm = 2
    MaxCrash = 2
    MaxFailures = 1
SPECIFICATION BackupSpec
INVARIANTS DLockMapIsLogPrefix KVMapIsLogPrefix SavedSurvives BackupLeavesNoGap OneCrashIsSurvived
CHECK_DEADLOCK FALSE
