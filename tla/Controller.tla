----------------------------- MODULE Controller -----------------------------
(* The controller service of the driver: CreateVolume, DeleteVolume and       *)
(* ControllerExpandVolume as the threads of the gRPC pool run them, over the  *)
(* VolumesCache, the zones temporarily disabled in the Topology object, and   *)
(* one NVMesh management cluster per zone.                                    *)
(*                                                                            *)
(* A thread is a program counter pc, the local variables of its handler and   *)
(* the state http of its HTTP call.  Each action is the code between two      *)
(* points at which another thread, or the management, can be seen to act:     *)
(* taking a lock, reading or writing shared state, sending a request.         *)
EXTENDS Naturals, FiniteSets

CONSTANTS
    Workers,      \* threads of the gRPC server's pool
    Names,        \* NVMesh volume names
    Zones,        \* the zones of Config.TOPOLOGY
    Capacities,   \* sizes a volume may be asked for
    Entries,      \* VolumeCacheEntry objects
    None,         \* Python's None
    Ops,          \* the RPCs the container orchestrator issues
    Lossy,        \* may an HTTP request time out although the management runs it?
    CanRestart,   \* may the controller crash and start again?
    RoundRobin,   \* zoneSelectionPolicy: round-robin, or random
    Flaky         \* the zones whose websocket connection comes and goes

Volume == [name : Names, zone : Zones, capacity : Capacities]
VolumeId == [name : Names, zone : Zones]

ASSUME CapacitiesAssumption == Capacities \subseteq Nat \ {0}
ASSUME NoneAssumption ==
    None \notin Workers \cup Entries \cup Zones \cup Names \cup Volume
ASSUME FlagsAssumption == {Lossy, CanRestart, RoundRobin} \subseteq BOOLEAN
ASSUME FlakyAssumption == Flaky \subseteq Zones
ASSUME OpsAssumption == Ops \subseteq {"create", "delete", "expand"}

VARIABLES
    cache,      \* VolumesCache._dict: the entry of each name
    entryLock,  \* VolumeCacheEntry.lock: the thread that holds it
    csiVolume,  \* VolumeCacheEntry.csi_volume
    disabled,   \* Topology.temp_disabled_zones
    pc, local,  \* where each thread is, and its handler's local variables
    http,       \* the outstanding HTTP request of each thread, or its outcome
    stored,     \* the managements: capacity of each volume in each zone, 0 if none
    late,       \* requests the driver gave up on that a management may still run
    handedOut   \* volume ids the orchestrator was answered with

driver == <<cache, entryLock, csiVolume, disabled>>
thread == <<pc, local, http>>
vars == <<driver, thread, stored, late, handedOut>>

-----------------------------------------------------------------------------
Local == [name : Names \cup {None}, capacity : Capacities \cup {0},
          onlyOne : BOOLEAN, left : SUBSET Zones,
          zone : Zones \cup {None}, entry : Entries \cup {None}]

Blank == [name |-> None, capacity |-> 0, onlyOne |-> FALSE, left |-> {},
          zone |-> None, entry |-> None]

\* The points of CreateVolume at which the thread holds its entry's lock.
Critical == {"pick", "save", "saving", "compare", "commit"}
Labels == {"idle", "lock"} \cup Critical \cup {"deleting", "read", "extending"}

\* What the thread sees of its HTTP call.  "error": no usable answer (refused,
\* timed out, HTTP error); "raised": an exception that is no DriverError;
\* "garbled": an answer the handler's parsing raises on; "invalid": HTTP 422.
Answers == {"ok", "exists", "missing", "failed", "garbled", "invalid"}
HttpStates == {"none", "sent", "error", "raised"} \cup Answers

Kind(w) == CASE pc[w] = "saving" -> "save"
             [] pc[w] = "deleting" -> "delete"
             [] OTHER -> "extend"

Request == [kind : {"save", "delete", "extend"}, name : Names, zone : Zones,
            capacity : Capacities \cup {0}]
RequestOf(w) == [kind |-> Kind(w), name |-> local[w].name,
                 zone |-> local[w].zone, capacity |-> local[w].capacity]

Has(z, n) == stored[z][n] # 0
IdOf(v) == [name |-> v.name, zone |-> v.zone]

\* An entry some thread or the dictionary still refers to.
Live(e) == \/ \E n \in Names : cache[n] = e
           \/ \E w \in Workers : local[w].entry = e

Init ==
    /\ cache = [n \in Names |-> None]
    /\ entryLock = [e \in Entries |-> None]
    /\ csiVolume = [e \in Entries |-> None]
    /\ disabled = {}
    /\ pc = [w \in Workers |-> "idle"]
    /\ local = [w \in Workers |-> Blank]
    /\ http = [w \in Workers |-> "none"]
    /\ stored = [z \in Zones |-> [n \in Names |-> 0]]
    /\ late = {}
    /\ handedOut = {}

-----------------------------------------------------------------------------
(* Steps shared by the handlers *)

Goto(w, l) == pc' = [pc EXCEPT ![w] = l]
Http(w, h) == http' = [http EXCEPT ![w] = h]

\* The handler returns or raises: its locals are gone.
Return(w) == /\ Goto(w, "idle")
             /\ Http(w, "none")
             /\ local' = [local EXCEPT ![w] = Blank]

\* The end of "with volume_cache.lock", on return and on exceptions alike.
Release(w) == entryLock' = [entryLock EXCEPT ![local[w].entry] = None]

Answer(w, v) == handedOut' = handedOut \cup {IdOf(v)}

-----------------------------------------------------------------------------
(* CreateVolume *)

\* Mutant: every request makes an entry of its own.
StartCreateAnew(w) ==
    \E n \in Names, c \in Capacities, zs \in SUBSET Zones \ {{}},
       e \in Entries :
        /\ "create" \in Ops
        /\ pc[w] = "idle"
        /\ ~Live(e)
        /\ cache' = [cache EXCEPT ![n] = e]
        /\ csiVolume' = [csiVolume EXCEPT ![e] = None]
        /\ local' = [local EXCEPT ![w] =
              [name |-> n, capacity |-> c, onlyOne |-> Cardinality(zs) = 1,
               left |-> zs, zone |-> None, entry |-> e]]
        /\ Goto(w, "lock")
        /\ UNCHANGED <<entryLock, disabled, http, stored, late, handedOut>>

\* volume_to_zone_mapping.get_or_create_new, under the dictionary's lock.
StartCreate(w) ==
    \E n \in Names, c \in Capacities, zs \in SUBSET Zones \ {{}},
       e \in Entries :
        /\ "create" \in Ops
        /\ pc[w] = "idle"
        /\ IF cache[n] # None
           THEN e = cache[n] /\ UNCHANGED <<cache, csiVolume>>
           ELSE /\ ~Live(e)
                /\ cache' = [cache EXCEPT ![n] = e]
                /\ csiVolume' = [csiVolume EXCEPT ![e] = None]
        /\ local' = [local EXCEPT ![w] =
              [name |-> n, capacity |-> c, onlyOne |-> Cardinality(zs) = 1, left |-> zs,
               zone |-> None, entry |-> e]]
        /\ Goto(w, "lock")
        /\ UNCHANGED <<entryLock, disabled, http, stored, late, handedOut>>

\* Mutants: the lock is not waited for; the cached volume is not looked at.
EnterCreateUnlocked(w) ==
    LET e == local[w].entry IN
    /\ pc[w] = "lock"
    /\ csiVolume[e] = None
    /\ entryLock' = [entryLock EXCEPT ![e] = w]
    /\ Goto(w, "pick")
    /\ UNCHANGED <<cache, csiVolume, disabled, local, http, stored, late, handedOut>>

EnterCreateUncached(w) ==
    LET e == local[w].entry IN
    /\ pc[w] = "lock" /\ entryLock[e] = None
    /\ entryLock' = [entryLock EXCEPT ![e] = w]
    /\ Goto(w, "pick")
    /\ UNCHANGED <<cache, csiVolume, disabled, local, http, stored, late, handedOut>>

\* The entry's lock is free and nothing is cached: create the volume.
EnterCreate(w) ==
    LET e == local[w].entry IN
    /\ pc[w] = "lock" /\ entryLock[e] = None
    /\ csiVolume[e] = None
    /\ entryLock' = [entryLock EXCEPT ![e] = w]
    /\ Goto(w, "pick")
    /\ UNCHANGED <<cache, csiVolume, disabled, local, http, stored, late, handedOut>>

\* A cached volume is returned if it has the capacity that is asked for;
\* otherwise the call fails with FAILED_PRECONDITION.  The lock is taken and
\* released within the step.
ReturnCached(w) ==
    LET e == local[w].entry IN
    /\ pc[w] = "lock" /\ entryLock[e] = None
    /\ csiVolume[e] # None
    /\ IF csiVolume[e].capacity = local[w].capacity
       THEN Answer(w, csiVolume[e])
       ELSE UNCHANGED handedOut
    /\ Return(w)
    /\ UNCHANGED <<driver, stored, late>>

\* The request's parameters, capabilities or topology do not parse: an
\* exception before the zone loop, within the lock.
RejectRequest(w) ==
    LET e == local[w].entry IN
    /\ pc[w] = "lock" /\ entryLock[e] = None
    /\ csiVolume[e] = None
    /\ Return(w)
    /\ UNCHANGED <<driver, stored, late, handedOut>>

\* The zone loop.  A DriverError of RESOURCE_EXHAUSTED moves on to another
\* zone, the last one ends the call; every other exception ends it at once.
FailLocked(w) == UNCHANGED entryLock /\ Return(w)  \* mutant: the lock is kept
Fail(w) == Release(w) /\ Return(w)

NextZone(w, left) ==
    IF left = {}
    THEN Fail(w)
    ELSE /\ Goto(w, "pick")
         /\ Http(w, "none")
         /\ local' = [local EXCEPT ![w] = [@ EXCEPT !.left = left, !.zone = None]]
         /\ UNCHANGED entryLock

\* The round-robin picker cycles through every configured zone and disregards
\* the zones it is given.
Pickable(w) == IF RoundRobin THEN Zones ELSE local[w].left

Skips(w, z) == z \in disabled /\ ~local[w].onlyOne

PickZone(w) ==
    \E z \in Pickable(w) \cap local[w].left :
        /\ pc[w] = "pick"
        /\ ~Skips(w, z)
        /\ local' = [local EXCEPT ![w] = [@ EXCEPT !.left = local[w].left \ {z}, !.zone = z]]
        /\ Goto(w, "save")
        /\ UNCHANGED <<driver, http, stored, late, handedOut>>

SkipDisabledZone(w) ==
    \E z \in Pickable(w) \cap local[w].left :
        /\ pc[w] = "pick"
        /\ Skips(w, z)
        /\ NextZone(w, local[w].left \ {z})
        /\ UNCHANGED <<cache, csiVolume, disabled, stored, late, handedOut>>

\* zones_left.remove of a zone that is not among them: a KeyError.
PickForeignZone(w) ==
    \E z \in Pickable(w) \ local[w].left :
        /\ pc[w] = "pick"
        /\ Fail(w)
        /\ UNCHANGED <<cache, csiVolume, disabled, stored, late, handedOut>>

SendSave(w) ==
    /\ pc[w] = "save"
    /\ Goto(w, "saving")
    /\ Http(w, "sent")
    /\ UNCHANGED <<driver, local, stored, late, handedOut>>

\* _handle_create_volume_errors, one action per outcome.
SaveError(w) ==
    /\ pc[w] = "saving" /\ http[w] = "error"
    /\ disabled' = disabled \cup {local[w].zone}
    /\ NextZone(w, local[w].left)
    /\ UNCHANGED <<cache, csiVolume, stored, late, handedOut>>

SaveRefused(w) ==
    /\ pc[w] = "saving" /\ http[w] = "failed"
    /\ disabled' = disabled \ {local[w].zone}
    /\ NextZone(w, local[w].left)
    /\ UNCHANGED <<cache, csiVolume, stored, late, handedOut>>

SaveAborted(w) ==
    /\ pc[w] = "saving" /\ http[w] \in {"invalid", "raised", "garbled"}
    /\ disabled' = IF http[w] = "garbled" THEN disabled \ {local[w].zone}
                                          ELSE disabled
    /\ Fail(w)
    /\ UNCHANGED <<cache, csiVolume, stored, late, handedOut>>

\* Mutant: the success flag of the answer is not looked at.
SaveDoneAnyway(w) ==
    /\ pc[w] = "saving" /\ http[w] \in {"ok", "exists", "failed"}
    /\ disabled' = disabled \ {local[w].zone}
    /\ Goto(w, IF http[w] = "exists" THEN "compare" ELSE "commit")
    /\ Http(w, "none")
    /\ UNCHANGED <<cache, entryLock, csiVolume, local, stored, late, handedOut>>

SaveDone(w) ==
    /\ pc[w] = "saving" /\ http[w] \in {"ok", "exists"}
    /\ disabled' = disabled \ {local[w].zone}
    /\ Goto(w, IF http[w] = "ok" THEN "commit" ELSE "compare")
    /\ Http(w, "none")
    /\ UNCHANGED <<cache, entryLock, csiVolume, local, stored, late, handedOut>>

\* The name is taken: read the existing volume's capacity from the management.
\* Without an answer, or without a volume, the call fails; so it does
\* (ALREADY_EXISTS) when the capacities differ.
CompareEqual(w) ==
    /\ pc[w] = "compare"
    /\ stored[local[w].zone][local[w].name] = local[w].capacity
    /\ Goto(w, "commit")
    /\ UNCHANGED <<driver, local, http, stored, late, handedOut>>

CompareFails(w) ==
    /\ pc[w] = "compare"
    /\ Fail(w)
    /\ UNCHANGED <<cache, csiVolume, disabled, stored, late, handedOut>>

\* Remember the volume, answer, release the lock.  The answer may not arrive:
\* the orchestrator's deadline may have passed, and a request without the PVC's
\* metadata makes the log line before the return raise.
Commit(w) ==
    LET v == [name |-> local[w].name, zone |-> local[w].zone,
              capacity |-> local[w].capacity]
    IN  /\ pc[w] = "commit"
        /\ csiVolume' = [csiVolume EXCEPT ![local[w].entry] = v]
        /\ Release(w)
        /\ Answer(w, v) \/ UNCHANGED handedOut
        /\ Return(w)
        /\ UNCHANGED <<cache, disabled, stored, late>>

Create(w) ==
    \/ EnterCreate(w) \/ ReturnCached(w) \/ RejectRequest(w)
    \/ PickZone(w) \/ SkipDisabledZone(w) \/ PickForeignZone(w)
    \/ SendSave(w)
    \/ SaveError(w) \/ SaveRefused(w) \/ SaveAborted(w) \/ SaveDone(w)
    \/ CompareEqual(w) \/ CompareFails(w) \/ Commit(w)

-----------------------------------------------------------------------------
(* DeleteVolume: no entry lock is taken *)

StartDelete(w) ==
    \E id \in handedOut :
        /\ "delete" \in Ops
        /\ pc[w] = "idle"
        /\ local' = [local EXCEPT ![w] = [@ EXCEPT !.name = id.name, !.zone = id.zone]]
        /\ Goto(w, "deleting")
        /\ Http(w, "sent")
        /\ UNCHANGED <<driver, stored, late, handedOut>>

\* Mutant: an entry in use by a CreateVolume is left in the cache.
DeleteDoneUnlessLocked(w) ==
    /\ pc[w] = "deleting" /\ http[w] \in {"ok", "missing"}
    /\ LET e == cache[local[w].name] IN
       cache' = IF e # None /\ entryLock[e] # None
                THEN cache ELSE [cache EXCEPT ![local[w].name] = None]
    /\ Return(w)
    /\ UNCHANGED <<entryLock, csiVolume, disabled, stored, late, handedOut>>

\* Deleted now, or already gone: forget the name, whatever entry it has by now.
DeleteDone(w) ==
    /\ pc[w] = "deleting" /\ http[w] \in {"ok", "missing"}
    /\ cache' = [cache EXCEPT ![local[w].name] = None]
    /\ Return(w)
    /\ UNCHANGED <<entryLock, csiVolume, disabled, stored, late, handedOut>>

DeleteFails(w) ==
    /\ pc[w] = "deleting" /\ http[w] \in {"failed", "error", "raised", "garbled"}
    /\ Return(w)
    /\ UNCHANGED <<driver, stored, late, handedOut>>

-----------------------------------------------------------------------------
(* ControllerExpandVolume: no lock, and the cached capacity is left as it is *)

StartExpand(w) ==
    \E id \in handedOut, c \in Capacities :
        /\ "expand" \in Ops
        /\ pc[w] = "idle"
        /\ local' = [local EXCEPT ![w] = [@ EXCEPT !.name = id.name, !.zone = id.zone,
                                  !.capacity = c]]
        /\ Goto(w, "read")
        /\ UNCHANGED <<driver, http, stored, late, handedOut>>

\* Mutant: the requested size is taken for an increment.
ReadVolumeAdding(w) ==
    /\ pc[w] = "read"
    /\ Has(local[w].zone, local[w].name)
    /\ local' = [local EXCEPT ![w].capacity = @ + stored[local[w].zone][local[w].name]]
    /\ Goto(w, "extending")
    /\ Http(w, "sent")
    /\ UNCHANGED <<driver, stored, late, handedOut>>

\* get_nvmesh_volume, then the POST of the volume with its new capacity.
ReadVolume(w) ==
    /\ pc[w] = "read"
    /\ Has(local[w].zone, local[w].name)
    /\ Goto(w, "extending")
    /\ Http(w, "sent")
    /\ UNCHANGED <<driver, local, stored, late, handedOut>>

\* Not found, or no answer.
ReadFails(w) ==
    /\ pc[w] = "read"
    /\ Return(w)
    /\ UNCHANGED <<driver, stored, late, handedOut>>

\* Success, or an error: either way nothing of the driver's state changes.
ExpandEnds(w) ==
    /\ pc[w] = "extending" /\ http[w] \notin {"none", "sent"}
    /\ Return(w)
    /\ UNCHANGED <<driver, stored, late, handedOut>>

DeleteOrExpand(w) ==
    \/ DeleteDone(w) \/ DeleteFails(w)
    \/ ReadVolume(w) \/ ReadFails(w) \/ ExpandEnds(w)

Start(w) == StartCreate(w) \/ StartDelete(w) \/ StartExpand(w)

-----------------------------------------------------------------------------
(* The management clusters and the network, as the driver uses them *)

\* The outcomes of running a request: the new capacity and the answer.
Outcomes(r) ==
    LET old == stored[r.zone][r.name] IN
    CASE r.kind = "save" /\ old = 0 ->
            {<<r.capacity, "ok">>, <<0, "failed">>, <<0, "garbled">>, <<0, "invalid">>}
      [] r.kind = "save" /\ old # 0 ->
            {<<old, "exists">>, <<old, "garbled">>, <<old, "invalid">>}
      [] r.kind = "delete" /\ old = 0 -> {<<0, "missing">>}
      [] r.kind = "delete" /\ old # 0 -> {<<0, "ok">>, <<old, "failed">>}
      [] r.kind = "extend" /\ old # 0 /\ r.capacity > old ->
            {<<r.capacity, "ok">>, <<old, "failed">>}
      [] r.kind = "extend" /\ ~(old # 0 /\ r.capacity > old) ->
            {<<old, "failed">>}

Store(r, c) == stored' = [stored EXCEPT ![r.zone][r.name] = c]

Manage(w) ==
    /\ http[w] = "sent"
    /\ \E o \in Outcomes(RequestOf(w)) : Store(RequestOf(w), o[1]) /\ Http(w, o[2])
    /\ UNCHANGED <<driver, pc, local, late, handedOut>>

\* The connection is refused, or the SDK raises: the request is never run.
RequestFails(w) ==
    /\ http[w] = "sent"
    /\ \E h \in {"error", "raised"} : Http(w, h)
    /\ UNCHANGED <<driver, pc, local, stored, late, handedOut>>

\* The SDK's timeout ends the call; the request may be run later, or its
\* answer is the one that is lost.
TimeOut(w) ==
    /\ Lossy
    /\ http[w] \in {"sent"} \cup Answers
    /\ late' = IF http[w] = "sent" THEN late \cup {RequestOf(w)} ELSE late
    /\ Http(w, "error")
    /\ UNCHANGED <<driver, pc, local, stored, handedOut>>

\* The SDK repeats a request whose first copy may still be run.
Resend(w) ==
    /\ Lossy
    /\ http[w] = "sent"
    /\ RequestOf(w) \notin late
    /\ late' = late \cup {RequestOf(w)}
    /\ UNCHANGED <<driver, thread, stored, handedOut>>

RunLate ==
    \E r \in late :
        /\ \E o \in Outcomes(r) : Store(r, o[1])
        /\ late' = late \ {r}
        /\ UNCHANGED <<driver, thread, handedOut>>

-----------------------------------------------------------------------------
(* The zone listening threads, and a crash of the controller *)

ZoneDisconnected(z) ==
    /\ disabled' = disabled \cup {z}
    /\ UNCHANGED <<cache, entryLock, csiVolume, thread, stored, late, handedOut>>

ZoneConnected(z) ==
    /\ disabled' = disabled \ {z}
    /\ UNCHANGED <<cache, entryLock, csiVolume, thread, stored, late, handedOut>>

Restart ==
    /\ CanRestart
    /\ cache' = [n \in Names |-> None]
    /\ entryLock' = [e \in Entries |-> None]
    /\ csiVolume' = [e \in Entries |-> None]
    /\ disabled' = {}
    /\ pc' = [w \in Workers |-> "idle"]
    /\ local' = [w \in Workers |-> Blank]
    /\ http' = [w \in Workers |-> "none"]
    /\ late' = late \cup {RequestOf(w) : w \in {x \in Workers : http[x] = "sent"}}
    /\ UNCHANGED <<stored, handedOut>>

-----------------------------------------------------------------------------
Next ==
    \/ \E w \in Workers :
          \/ Start(w) \/ Create(w) \/ DeleteOrExpand(w)
          \/ Manage(w) \/ RequestFails(w) \/ TimeOut(w) \/ Resend(w)
    \/ RunLate
    \/ \E z \in Flaky : ZoneDisconnected(z) \/ ZoneConnected(z)
    \/ Restart

Spec == Init /\ [][Next]_vars

\* A thread runs on, and the SDK's timeout ends every HTTP call.  Nothing is
\* assumed of the lock's order, of new requests or of the zone connections.
Fairness ==
    \A w \in Workers :
        /\ WF_vars(Create(w)) /\ WF_vars(DeleteOrExpand(w))
        /\ WF_vars(Manage(w) \/ RequestFails(w))

FairSpec == Spec /\ Fairness
-----------------------------------------------------------------------------
(* Properties *)

TypeOK ==
    /\ cache \in [Names -> Entries \cup {None}]
    /\ entryLock \in [Entries -> Workers \cup {None}]
    /\ csiVolume \in [Entries -> Volume \cup {None}]
    /\ disabled \subseteq Zones
    /\ pc \in [Workers -> Labels]
    /\ local \in [Workers -> Local]
    /\ http \in [Workers -> HttpStates]
    /\ stored \in [Zones -> [Names -> Capacities \cup {0}]]
    /\ late \subseteq Request
    /\ handedOut \subseteq VolumeId

\* The lock of an entry is held by exactly the thread that is creating its
\* volume (controller_service.py:72, "with volume_cache.lock"), also when
\* DeleteVolume has dropped the entry from the cache meanwhile.
LockInv ==
    \A e \in Entries, w \in Workers :
        entryLock[e] = w <=> pc[w] \in Critical /\ local[w].entry = e

\* Two answers to CreateVolume for one name carry the same volume id: what
\* test_create_volume_idempotency_sequential and _parallel check for one
\* interleaving.  For an orchestrator that does not delete the volume and a
\* controller that does not restart.
UniqueId ==
    \A a, b \in handedOut : a.name = b.name => a = b

\* CreateVolume calls for one name never leave two pieces of storage behind
\* (csi.proto, CreateVolumeRequest.name).
OneStoragePerName ==
    \A n \in Names, y, z \in Zones : Has(y, n) /\ Has(z, n) => y = z

\* The cache never answers for a volume that is gone, except while a
\* DeleteVolume that has removed it is about to drop it from the cache.
CacheSound ==
    \A n \in Names :
        cache[n] # None /\ csiVolume[cache[n]] # None =>
            LET v == csiVolume[cache[n]] IN
            \/ Has(v.zone, n)
            \/ \E w \in Workers : /\ pc[w] = "deleting" /\ http[w] = "ok"
                                  /\ local[w].name = n /\ local[w].zone = v.zone

\* An entry's volume is decided once: as long as the dictionary or a thread
\* refers to the entry, a volume in it is neither replaced nor cleared.
CachedOnce ==
    [][\A e \in Entries :
          csiVolume[e] # None /\ csiVolume'[e] # csiVolume[e]
          => ~Live(e) \/ Restart]_vars

\* While nothing is lost, deleted or restarted the controller keeps the
\* contract of CreateVolume: one piece of storage, and answers that name it.
Contract == INSTANCE VolumeContract WITH
    storage <- [n \in Names |-> {z \in Zones : Has(z, n)}],
    answered <- [n \in Names |-> {z \in Zones : [name |-> n, zone |-> z] \in handedOut}]

ImplementsContract == Contract!Spec

\* Every RPC comes to an end (no thread waits for ever on an entry's lock) once
\* the orchestrator has stopped issuing new ones.
Answered ==
    <>[][\A w \in Workers : ~Start(w)]_vars
    => \A w \in Workers : pc[w] # "idle" ~> pc[w] = "idle"

=============================================================================
