SPECIFICATION Spec
CONSTANTS
    None = None
    Workers = {w1}
    Names = {n1}
    Zones = {z1, z2}
    Capacities = {1}
    Entries = {e1}
    Ops = {"create"}
    Lossy = TRUE
    CanRestart = FALSE
    RoundRobin = FALSE
    Flaky = {}
SYMMETRY Symmetry
INVARIANTS
    OneStoragePerName
