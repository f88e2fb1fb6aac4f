CONSTANTS
    n1 = n1
    n2 = n2
    n3 = n3
    Node = {n1, n2, n3}
    Nobody = Nobody
    put = put
    Command = {put}
    MaxLogUnitsRecover = 1
    MaxTerm = 3
    MaxLog = 1
    MaxCrash = 0
    MaxBallots = 1
    MaxInFlight = 1
    MaxPolls = 0
SYMMETRY NodeSymmetry
SPECIFICATION Spec
INVARIANT LeaderKeepsCommitted
CHECK_DEADLOCK FALSE
