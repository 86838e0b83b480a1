SPECIFICATION Spec
CONSTANTS
    None = None
    Workers = {w1, w2}
    Names = {n1}
    Zones = {z1}
    Capacities = {1, 2}
    Entries = {e1, e2, e3}
    Ops = {"create", "delete", "expand"}
    Lossy = TRUE
    CanRestart = TRUE
    RoundRobin = FALSE
    Flaky = {z1}
VIEW View
SYMMETRY Symmetry
INVARIANTS
    TypeOK
    LockInv
PROPERTIES
    CachedOnce
