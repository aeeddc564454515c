SPECIFICATION FairSpec
CONSTANTS
    Callers = {c1, c2}
    Ports = {1, 2}
    First = 1
    MaxCalls = 2
    MaxAcceptErrors = 1
    MaxSetErrors = 1
INVARIANTS ListenerFollowsPort SystemFollowsState PacFollowsPort
PROPERTIES RestartIsServed CallsReturn
