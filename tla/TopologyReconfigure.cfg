SPECIFICATION Spec
CONSTANTS
    None = None
    z1 = z1
    z2 = z2
    m1 = m1
    m2 = m2
    m3 = m3
    n1 = n1
    n2 = n2
    f1 = f1
    f2 = f2
    Zone = {z1}
    Management = {m1, m2}
    Node = {n1}
    Fetcher = {f1, f2, f3}
    Replacer = {r1}
    Configs <- Changing
    Homes <- Settlers
    MaxEvents = 1
    MaxChanges = 2
    CanDisconnect = FALSE
    Leavers = {n1}
    CanRestart = TRUE
    CanStop = FALSE
    ApiFails = TRUE
SYMMETRY FetcherSymmetry
INVARIANTS
    TypeOK
    OneListener
    ListenedEnabled
CHECK_DEADLOCK FALSE
