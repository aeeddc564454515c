SPECIFICATION Spec
CONSTANTS
    Callers = {c1, c2}
    Tunnels = {t1}
    Hosts = {"a", "a443", "b"}
    Canon <- CanonOfThree
    Items = {"x"}
    Configs <- SomeConfigs
    MaxCalls = 2
INVARIANTS DirectOrAssigned DirectOnce PacFollowsDirect OffWithoutServers
SYMMETRY CallersAlike
