SPECIFICATION Spec
CONSTANTS
    p1 = p1
    p2 = p2
    Pod = {p1}
    Kinds <- EncryptedBlock
    Faulty = {}
    MaxFaults = 0
    MaxWishes = 1
    MaxSize = 1
INVARIANTS
    EncryptedIO
CHECK_DEADLOCK FALSE
