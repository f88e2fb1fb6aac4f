CONSTANTS
    n1 = n1
    n2 = n2
    n3 = n3
    Node = {n1, n2, n3}
    Nobody = Nobody
    put = put
    Command = {put}
    MaxLogUnitsRecover = 1
    MaxTerm = 2
    MaxLog = 0
    MaxCrash = 1
    MaxBallots = 1
    MaxInFlight = 1
    MaxPolls = 0
SYMMETRY NodeSymmetry
SPECIFICATION Spec
INVARIANT OneLeaderPerTerm
CHECK_DEADLOCK FALSE
