CONSTANTS
    n1 = n1
    n2 = n2
    n3 = n3
    Node = {n1, n2, n3}
    Nobody = Nobody
    put = put
    Command = {put}
    MaxLogUnitsRecover = 1
    MaxTerm = 4
    MaxLog = 0
    MaxCrash = 0
    MaxBallots = 2
    MaxInFlight = 0
    MaxPolls = 0
CONSTRAINT FewVoteCalls
SYMMETRY NodeSymmetry
SPECIFICATION Spec
INVARIANT OneLeaderPerTerm
CHECK_DEADLOCK FALSE
