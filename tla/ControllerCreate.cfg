SPECIFICATION FairSpec
CONSTANTS
    None = None
    Workers = {w1, w2, w3}
    Names = {n1}
    Zones = {z1, z2}
    Capacities = {1, 2}
    Entries = {e1, e2}
    Ops = {"create"}
    Lossy = FALSE
    CanRestart = FALSE
    RoundRobin = FALSE
    Flaky = {z1, z2}
INVARIANTS
    UniqueId
    OneStoragePerName
PROPERTIES
    ImplementsContract
    Answered
