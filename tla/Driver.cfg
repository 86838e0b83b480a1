SPECIFICATION FairSpec
CONSTANTS
    None = None
    main = main
    h1 = h1
    h2 = h2
    Thread = {main, h1, h2}
    Main = main
    Servers = 2
    Retries = 1
    Rotations = 1
    Attempts = 2
    MaxEvents = 1
    MaxExpiries = 1
    Matrix <- Rows
    DriverVersion <- Driver13
    Versions <- Managements
INVARIANTS
    TypeOK
    Failover
    OneApi
    OnlyCompatible
PROPERTIES
    Answered
    Serves
CHECK_DEADLOCK FALSE
