SPECIFICATION Spec
CONSTANTS
    None = None
    Workers = {w1, w2}
    Names = {n1}
    Zones = {z1, z2}
    Capacities = {1, 2}
    Entries = {e1, e2, e3}
    Ops = {"create", "delete"}
    Lossy = FALSE
    CanRestart = FALSE
    RoundRobin = TRUE
    Flaky = {}
VIEW View
SYMMETRY Symmetry
INVARIANTS
    CacheSound
