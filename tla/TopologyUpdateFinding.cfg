SPECIFICATION Spec
CONSTANTS
    None = None
    z1 = z1
    z2 = z2
    m1 = m1
    m2 = m2
    m3 = m3
    n1 = n1
    n2 = n2
    f1 = f1
    f2 = f2
    Zone = {z1}
    Management = {m1, m2}
    Node = {n1}
    Fetcher = {f1, f2}
    Replacer = {r1}
    Configs <- Changing
    Homes <- Movers
    MaxEvents = 1
    MaxChanges = 1
    CanDisconnect = FALSE
    Leavers = {}
    CanRestart = FALSE
    CanStop = FALSE
    ApiFails = FALSE
SYMMETRY FetcherSymmetry
INVARIANTS
    NodesSaved
CHECK_DEADLOCK FALSE
