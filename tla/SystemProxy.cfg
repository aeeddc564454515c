SPECIFICATION Spec
CONSTANTS
    Platforms = {"macos", "linux", "windows"}
    Services = {wifi, ethernet}
    Addresses = {p1, p2}
    Callers = {c1, c2}
    Monitor = monitor
    MaxCalls = 3
    MaxFailures = 1
    MaxChanges = 1
    MaxUpdates = 1
INVARIANTS AsAsked NothingForgotten
SYMMETRY Alike
