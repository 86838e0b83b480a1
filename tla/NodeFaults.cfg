SPECIFICATION FairSpec
CONSTANTS
    p1 = p1
    p2 = p2
    Pod = {p1, p2}
    Kinds <- Safe
    Faulty <- All
    MaxFaults = 2
    MaxWishes = 2
    MaxSize = 3
INVARIANTS
    TypeOK
    PublishedWorks
    Released
    ExpandedSize
PROPERTIES
    DataSafe
    Converges
CHECK_DEADLOCK FALSE
