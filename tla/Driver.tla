------------------------------- MODULE Driver -------------------------------
(* The controller's process: start-up with one management cluster, then the   *)
(* handlers, which take their connection from VolumeAPIPool.                  *)
EXTENDS Connection, SemVer

CONSTANTS
    Main,           \* the thread that starts the process; the others are handlers
    Attempts,       \* of init_session_with_single_management
    Matrix,         \* the compatibility matrix: a set of [csi, nvmesh] ranges
    DriverVersion,
    Versions        \* that the management may have

ASSUME DriverAssumption ==
    /\ Main \in Thread /\ Attempts \in Nat \ {0}
    /\ Matrix \subseteq [csi : SUBSET SemVerConstraint, nvmesh : SUBSET SemVerConstraint]
    /\ DriverVersion \in Version /\ Versions \subseteq Version

VARIABLES
    phase,      \* of each thread
    attempts,   \* that the start-up has left
    version,    \* of the management
    pooled,     \* does the pool have an API for the zone?
    lock,       \* the zone's lock, while an API is created
    steady      \* ghost: servers that a thread's call can count on

driver == <<phase, attempts, version, pooled, lock, steady>>
vars == <<connection, driver>>

Handler == Thread \ {Main}
Phase == {"new", "dead", "idle", "pool", "login", "dbUUID", "isAlive", "version", "serve",
          "call"}

serving == phase[Main] = "serve"

Init ==
    /\ mood \in [Server -> Mood] /\ session = FALSE
    /\ index = 0 /\ current = 0
    /\ stack = [t \in Thread |-> <<>>] /\ result = [t \in Thread |-> None]
    /\ events = 0 /\ expiries = 0
    /\ phase = [t \in Thread |-> IF t = Main THEN "new" ELSE "idle"]
    /\ attempts = Attempts
    /\ version \in Versions
    /\ pooled = FALSE /\ lock = None
    /\ steady = [t \in Thread |-> {}]

-----------------------------------------------------------------------------
(* A thread asks the management, one request after another; what the last one *)
(* gave decides what follows.                                                 *)

Turned(t, p) == phase' = [phase EXCEPT ![t] = p]

Ask(t, route, p) ==
    /\ Turned(t, p) /\ Begin(t, route)
    /\ UNCHANGED <<mood, session, index, current, events, expiries>>

\* A new API has a connection and a session of its own, and begins with any of
\* the servers by logging in.
Connect(t) ==
    /\ Turned(t, "login") /\ Begin(t, "/login")
    /\ index' \in Server /\ current' = index' /\ session' = FALSE
    /\ UNCHANGED <<mood, events, expiries>>

Ends(t, p) ==
    /\ Turned(t, p) /\ result' = [result EXCEPT ![t] = None]
    /\ steady' = [steady EXCEPT ![t] = {}]
    /\ UNCHANGED <<mood, session, index, current, stack, events, expiries>>

Gave(t, p) == phase[t] = p /\ Over(t)

\* What a call can count on while no server is slow or sick or comes back, and as
\* long as no other handler is at work: the servers that are up all the time.
Counted(t) ==
    [u \in Thread |->
        IF u = t
        THEN IF /\ \A s \in Server : mood[s] \in {"up", "down"}
                /\ \A v \in Handler \ {t} : phase[v] = "idle"
             THEN {s \in Server : mood[s] = "up"} ELSE {}
        ELSE {}]

-----------------------------------------------------------------------------
(* Start-up *)

Start ==
    /\ phase[Main] = "new"
    /\ Connect(Main) /\ steady' = Counted(Main)
    /\ UNCHANGED <<attempts, version, pooled, lock>>

\* Only a ManagementTimeout is tried again; anything else ends the process.
TryAgain ==
    /\ IF result[Main] \in Raised THEN attempts' = attempts - 1 ELSE UNCHANGED attempts
    /\ Ends(Main, IF result[Main] \in Raised /\ attempts > 1 THEN "new" ELSE "dead")
    /\ UNCHANGED <<version, pooled, lock>>

Identified ==
    /\ Gave(Main, "dbUUID") /\ result[Main] = "data"
    /\ Ask(Main, "/isAlive", "isAlive")
    /\ UNCHANGED <<attempts, version, pooled, lock, steady>>

Reached ==
    /\ Gave(Main, "isAlive") /\ result[Main] = "data"
    /\ Ask(Main, "other", "version")
    /\ UNCHANGED <<attempts, version, pooled, lock, steady>>

NotConnected ==
    /\ \/ Gave(Main, "login") /\ result[Main] \notin {"data", "error"}
       \/ Gave(Main, "dbUUID") /\ result[Main] # "data"
       \/ Gave(Main, "isAlive") /\ result[Main] # "data"
    /\ TryAgain

\* validate_mgmt_version, with a row of the matrix that matches this driver; it
\* raises when there is none.
Verdicts ==
    LET rows == {e \in Matrix : InRange(e.csi, DriverVersion)} IN
    IF result[Main] # "data" \/ rows = {} THEN {FALSE}
    ELSE {InRange(e.nvmesh, version) : e \in rows}

Validate ==
    /\ Gave(Main, "version")
    /\ \E valid \in Verdicts : Ends(Main, IF valid THEN "serve" ELSE "dead")
    /\ attempts' = Attempts
    /\ UNCHANGED <<version, pooled, lock>>

\* The container starts again.
Restart ==
    /\ phase[Main] = "dead"
    /\ Turned(Main, "new") /\ attempts' = Attempts
    /\ UNCHANGED <<connection, version, pooled, lock, steady>>

-----------------------------------------------------------------------------
(* The handlers, and VolumeAPIPool.get_volume_api_for_zone *)

Call(t) ==
    /\ serving /\ phase[t] = "idle"
    /\ Turned(t, "pool") /\ steady' = Counted(t)
    /\ UNCHANGED <<connection, attempts, version, pooled, lock>>

\* Mutant: the pool is not locked while an API is created.
PoolUnlocked(t) ==
    /\ phase[t] = "pool"
    /\ IF pooled THEN Ask(t, "other", "call") ELSE Connect(t)
    /\ UNCHANGED <<attempts, version, pooled, lock, steady>>

Pool(t) ==
    /\ phase[t] = "pool" /\ lock = None
    /\ IF pooled THEN Ask(t, "other", "call") /\ UNCHANGED lock
       ELSE Connect(t) /\ lock' = t
    /\ UNCHANGED <<attempts, version, pooled, steady>>

\* Connection.login: what the login answers is not looked at.
Login(t) ==
    /\ Gave(t, "login") /\ result[t] \in {"data", "error"}
    /\ Ask(t, "other", "dbUUID")
    /\ UNCHANGED <<attempts, version, pooled, lock, steady>>

Pooled(t) ==
    /\ Gave(t, "dbUUID") /\ result[t] = "data"
    /\ pooled' = TRUE /\ lock' = None
    /\ Ask(t, "other", "call")
    /\ UNCHANGED <<attempts, version, steady>>

\* Mutant: an error leaves the pool locked.
KeepLock(t) ==
    /\ \/ Gave(t, "login") /\ result[t] \notin {"data", "error"}
       \/ Gave(t, "dbUUID") /\ result[t] # "data"
    /\ Ends(t, "idle")
    /\ UNCHANGED <<attempts, version, pooled, lock>>

\* An exception, which the caller gets; or the thread exits, with no dbUUID.
NoApi(t) ==
    /\ \/ Gave(t, "login") /\ result[t] \notin {"data", "error"}
       \/ Gave(t, "dbUUID") /\ result[t] # "data"
    /\ lock' = None
    /\ Ends(t, "idle")
    /\ UNCHANGED <<attempts, version, pooled>>

Answer(t) ==
    /\ Gave(t, "call")
    /\ Ends(t, "idle")
    /\ UNCHANGED <<attempts, version, pooled, lock>>

-----------------------------------------------------------------------------
Connecting(t) == Step(t) /\ UNCHANGED driver

Management ==
    /\ Expire \/ \E s \in Server, m \in Mood : Turn(s, m)
    /\ steady' = [t \in Thread |->
          IF \A s \in Server : mood'[s] = mood[s] \/ mood'[s] = "down"
          THEN {s \in steady[t] : mood'[s] = "up"} ELSE {}]
    /\ UNCHANGED <<phase, attempts, version, pooled, lock>>

StartUp == Start \/ Identified \/ Reached \/ NotConnected \/ Validate
Handle(t) == Pool(t) \/ Pooled(t) \/ NoApi(t) \/ Answer(t)

Next ==
    \/ StartUp \/ Restart
    \/ \E t \in Thread : Connecting(t) \/ Login(t)
    \/ \E t \in Handler : Call(t) \/ Handle(t)
    \/ Management

Spec == Init /\ [][Next]_vars

\* Threads run on, and Kubernetes starts a process that ended again; no handler
\* need be called and no server need change.
Fairness ==
    /\ WF_vars(StartUp) /\ WF_vars(Restart)
    /\ \A t \in Thread : WF_vars(Connecting(t)) /\ WF_vars(Login(t))
    /\ \A t \in Handler : WF_vars(Pool(t)) /\ WF_vars(Pooled(t) \/ NoApi(t) \/ Answer(t))

FairSpec == Spec /\ Fairness

-----------------------------------------------------------------------------
(* Properties *)

TypeOK ==
    /\ ConnectionTypeOK
    /\ phase \in [Thread -> Phase] /\ attempts \in 0..Attempts
    /\ version \in Versions
    /\ pooled \in BOOLEAN /\ lock \in Handler \cup {None}
    /\ steady \in [Thread -> SUBSET Server]

\* With one server of the cluster up all the time, a call that has the connection
\* to itself gets its data: whatever goes down and however often the session ends,
\* the retries, the logins and the rotation find that server
\* (ConnectionManager.py:192).  Only isAlive, asked alone, asks a single server.
Failover ==
    \A t \in Thread :
        Over(t) /\ steady[t] # {} /\ phase[t] # "isAlive" => result[t] = "data"

\* While one handler creates the zone's API no other one does, and none is created
\* when there is one (topology_utils.py:170).
OneApi ==
    \A t \in Handler : phase[t] \in {"login", "dbUUID"} =>
        ~pooled /\ \A u \in Handler \ {t} : phase[u] \notin {"login", "dbUUID"}

Supported(e) == \A c \in e.csi : Meets(c, DriverVersion)
Suits(e) == \A c \in e.nvmesh : Meets(c, version)

\* The driver serves only with a management its matrix allows
\* (version_compatibility.py:61).
OnlyCompatible == serving => \E e \in Matrix : Supported(e) /\ Suits(e)

\* A call is answered at some time, unless other calls go on all the time: retries,
\* rotations and logins within requests come to an end, and the pool's lock comes
\* free (ConnectionManager.py:239).
Answered ==
    \A t \in Handler :
        (\A u \in Handler \ {t} : <>[](phase[u] = "idle"))
        => (phase[t] = "pool" ~> phase[t] = "idle")

\* Once every server is up and stays up, the process of a driver that suits the
\* management comes up and stays up (sdk_helper.py:28).
Serves ==
    <>[](\A s \in Server : mood[s] = "up") /\ (\A e \in Matrix : Supported(e) => Suits(e))
        /\ (\E e \in Matrix : Supported(e))
    => <>[]serving

=============================================================================
