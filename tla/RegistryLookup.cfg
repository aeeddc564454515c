SPECIFICATION Spec
CONSTANTS
    Callers = {c1}
    Tunnels = {t1}
    Hosts = {"a", "a443", "b"}
    Canon <- CanonOfThree
    Items = {"x"}
    Configs <- SomeConfigs
    MaxCalls = 2
PROPERTY LookupKeepsRules
