SPECIFICATION Spec
CONSTANTS
    Callers = {c1, c2}
    Ports = {1, 2}
    First = 1
    MaxCalls = 2
    MaxAcceptErrors = 0
    MaxSetErrors = 0
INVARIANT SendSucceeds
