CONSTANTS
    n1 = n1
    n2 = n2
    Node = {n1, n2}
    Nobody = Nobody
    put = put
    lock = lock
    Command = {put, lock}
    Put = {put}
    MaxLogUnitsRecover = 1
    MaxTerm = 4
    MaxLog = 2
    MaxCrash = 1
    MaxBallots = 2
    MaxInFlight = 1
    MaxPolls = 1
CONSTRAINT Small
SYMMETRY NodeSymmetry
SPECIFICATION KVSpec
INVARIANTS TypeOK IndexesInOrder NextIndexInRange HopWonCurrentTerm AckedPutIsOwn
           AckedPutOnMajority
PROPERTIES LeaderAppendOnly CommitNeverDecreases CommittedForGood
CHECK_DEADLOCK FALSE
