-------------------------- MODULE ControllerProofs --------------------------
(* What holds of the controller service for every number of threads, names,   *)
(* zones, capacities and cache entries.                                       *)
EXTENDS ControllerInvariants, TLAPS

-----------------------------------------------------------------------------
(* Types *)

LEMMA TypeInit == Init => TypeOK
BY DEF Init, TypeOK, Labels, HttpStates, Local, Blank, Critical

LEMMA ZoneUpdate ==
    ASSUME local \in [Workers -> Local], NEW w \in Workers,
           NEW s \in SUBSET Zones, NEW z \in Zones \cup {None},
           local' = [local EXCEPT ![w] = [@ EXCEPT !.left = s, !.zone = z]]
    PROVE  local' \in [Workers -> Local]
<1> DEFINE new == [local[w] EXCEPT !.left = s, !.zone = z]
<1>1. new \in Local
  BY DEF Local
<1>2. local' = [local EXCEPT ![w] = new]
  OBVIOUS
<1> HIDE DEF new
<1> QED
  BY <1>1, <1>2

LEMMA IdUpdate ==
    ASSUME NEW l \in Local, NEW id \in VolumeId, NEW c \in Capacities \cup {0}
    PROVE  /\ [l EXCEPT !.name = id.name, !.zone = id.zone] \in Local
           /\ [l EXCEPT !.name = id.name, !.zone = id.zone, !.capacity = c] \in Local
BY DEF Local, VolumeId

LEMMA FunctionUpdate ==
    ASSUME local \in [Workers -> Local], NEW w \in Workers, NEW new \in Local,
           local' = [local EXCEPT ![w] = new]
    PROVE  local' \in [Workers -> Local]
OBVIOUS

LEMMA ReturnType ==
    ASSUME TypeOK, NEW w \in Workers, Return(w)
    PROVE  /\ pc' \in [Workers -> Labels]
           /\ local' \in [Workers -> Local]
           /\ http' \in [Workers -> HttpStates]
BY DEF TypeOK, Return, Goto, Http, Local, Blank, Labels, HttpStates

LEMMA FailType ==
    ASSUME TypeOK, NEW w \in Workers, Fail(w)
    PROVE  /\ entryLock' \in [Entries -> Workers \cup {None}]
           /\ pc' \in [Workers -> Labels]
           /\ local' \in [Workers -> Local]
           /\ http' \in [Workers -> HttpStates]
BY ReturnType DEF TypeOK, Fail, Release

LEMMA NextZoneType ==
    ASSUME TypeOK, NEW w \in Workers, NEW s \in SUBSET Zones, NextZone(w, s)
    PROVE  /\ entryLock' \in [Entries -> Workers \cup {None}]
           /\ pc' \in [Workers -> Labels]
           /\ local' \in [Workers -> Local]
           /\ http' \in [Workers -> HttpStates]
<1>1. CASE s = {}
  BY <1>1, FailType DEF NextZone
<1>2. CASE s # {}
  <2>1. local' \in [Workers -> Local]
    BY <1>2, ZoneUpdate DEF NextZone, TypeOK
  <2> QED
    BY <1>2, <2>1, SMTT(30) DEF NextZone, TypeOK, Goto, Http, Labels, Critical, HttpStates
<1> QED
  BY <1>1, <1>2

LEMMA RequestType ==
    ASSUME TypeOK, ThreadInv, NEW w \in Workers, http[w] = "sent"
    PROVE  RequestOf(w) \in Request
<1>1. pc[w] \in {"saving", "deleting", "extending"}
  BY DEF ThreadInv
<1>2. Kind(w) \in {"save", "delete", "extend"}
  BY <1>1 DEF Kind
<1>3. /\ local[w].name \in Names /\ local[w].zone \in Zones
      /\ local[w].capacity \in Capacities \cup {0}
  BY <1>1 DEF ThreadInv, TypeOK, Local
<1> QED
  BY <1>2, <1>3 DEF RequestOf, Request

\* Whatever request is run, the management holds a capacity of the type, and
\* the answer is one of the kinds the handlers tell apart.
LEMMA OutcomeType ==
    ASSUME TypeOK, NEW r \in Request, NEW o \in Outcomes(r), Store(r, o[1])
    PROVE  o[2] \in Answers /\ stored' \in [Zones -> [Names -> Capacities \cup {0}]]
<1>1. r.zone \in Zones /\ r.name \in Names /\ r.capacity \in Capacities \cup {0}
      /\ r.kind \in {"save", "delete", "extend"}
  BY DEF Request
<1>2. stored[r.zone][r.name] \in Capacities \cup {0}
  BY <1>1 DEF TypeOK
<1>3. o[1] \in Capacities \cup {0} /\ o[2] \in Answers
  BY <1>1, <1>2, CapacitiesAssumption DEF Outcomes, Answers
<1>4. stored' \in [Zones -> [Names -> Capacities \cup {0}]]
  BY <1>1, <1>3 DEF Store, TypeOK
<1> QED
  BY <1>3, <1>4

LEMMA TypeStep ==
    ASSUME TypeOK, ThreadInv, [Next]_vars
    PROVE  TypeOK'
<1> USE CapacitiesAssumption DEF TypeOK, Labels, Critical, HttpStates, Answers, driver, thread
<1>1. ASSUME NEW w \in Workers, StartCreate(w) PROVE TypeOK'
  BY <1>1 DEF StartCreate, Goto, Local
<1>2. ASSUME NEW w \in Workers, EnterCreate(w) PROVE TypeOK'
  BY <1>2 DEF EnterCreate, Goto
<1>3. ASSUME NEW w \in Workers, ReturnCached(w) PROVE TypeOK'
  <2>1. csiVolume[local[w].entry] \in Volume
    BY <1>3 DEF ReturnCached, ThreadInv
  <2>2. handedOut' \subseteq VolumeId
    BY <1>3, <2>1 DEF ReturnCached, Answer, IdOf, Volume, VolumeId
  <2> QED
    BY <1>3, <2>2, ReturnType DEF ReturnCached
<1>4. ASSUME NEW w \in Workers, PickZone(w) PROVE TypeOK'
  <2>1. PICK z \in Zones :
          local' = [local EXCEPT ![w] = [@ EXCEPT !.left = local[w].left \ {z}, !.zone = z]]
    BY <1>4 DEF PickZone, Pickable, Local
  <2>2. local[w].left \ {z} \in SUBSET Zones
    BY DEF Local
  <2>3. local' \in [Workers -> Local]
    BY <2>1, <2>2, ZoneUpdate
  <2> QED
    BY <1>4, <2>3 DEF PickZone, Goto
<1>5. ASSUME NEW w \in Workers, SkipDisabledZone(w) PROVE TypeOK'
  <2>1. PICK z : NextZone(w, local[w].left \ {z})
    BY <1>5 DEF SkipDisabledZone
  <2>2. local[w].left \ {z} \in SUBSET Zones
    BY DEF Local
  <2> QED
    BY <1>5, <2>1, <2>2, NextZoneType DEF SkipDisabledZone
<1>6. ASSUME NEW w \in Workers, PickForeignZone(w) PROVE TypeOK'
  BY <1>6, FailType DEF PickForeignZone
<1>7. ASSUME NEW w \in Workers, SendSave(w) PROVE TypeOK'
  BY <1>7 DEF SendSave, Goto, Http
<1>8. ASSUME NEW w \in Workers, SaveError(w) \/ SaveRefused(w) PROVE TypeOK'
  <2>1. local[w].left \in SUBSET Zones /\ disabled' \subseteq Zones
    BY <1>8 DEF SaveError, SaveRefused, ThreadInv, Local
  <2> QED
    BY <1>8, <2>1, NextZoneType DEF SaveError, SaveRefused
<1>9. ASSUME NEW w \in Workers, SaveAborted(w) PROVE TypeOK'
  BY <1>9, FailType DEF SaveAborted
<1>10. ASSUME NEW w \in Workers, SaveDone(w) PROVE TypeOK'
  BY <1>10 DEF SaveDone, Goto, Http
<1>11. ASSUME NEW w \in Workers, CompareEqual(w) PROVE TypeOK'
  BY <1>11 DEF CompareEqual, Goto
<1>12. ASSUME NEW w \in Workers, CompareFails(w) PROVE TypeOK'
  BY <1>12, FailType DEF CompareFails
<1>13. ASSUME NEW w \in Workers, Commit(w) PROVE TypeOK'
  <2> DEFINE v == [name |-> local[w].name, zone |-> local[w].zone,
                   capacity |-> local[w].capacity]
  <2>1. v \in Volume /\ IdOf(v) \in VolumeId
    BY <1>13 DEF Commit, ThreadInv, Volume, VolumeId, IdOf
  <2>2. csiVolume' \in [Entries -> Volume \cup {None}] /\ handedOut' \subseteq VolumeId
    BY <1>13, <2>1 DEF Commit, Answer
  <2>3. entryLock' \in [Entries -> Workers \cup {None}]
    BY <1>13 DEF Commit, Release
  <2> QED
    BY <1>13, <2>2, <2>3, ReturnType DEF Commit
<1>14. ASSUME NEW w \in Workers, StartDelete(w) PROVE TypeOK'
  <2>1. PICK id \in VolumeId :
          local' = [local EXCEPT ![w] = [local[w] EXCEPT !.name = id.name, !.zone = id.zone]]
    BY <1>14 DEF StartDelete
  <2>2. [local[w] EXCEPT !.name = id.name, !.zone = id.zone] \in Local
    BY IdUpdate
  <2>3. local' \in [Workers -> Local]
    BY <2>1, <2>2, FunctionUpdate
  <2> QED
    BY <1>14, <2>3 DEF StartDelete, Goto, Http
<1>15. ASSUME NEW w \in Workers, DeleteDone(w) PROVE TypeOK'
  BY <1>15, ReturnType DEF DeleteDone
<1>16. ASSUME NEW w \in Workers,
              DeleteFails(w) \/ ReadFails(w) \/ ExpandEnds(w) \/ RejectRequest(w)
       PROVE  TypeOK'
  BY <1>16, ReturnType DEF DeleteFails, ReadFails, ExpandEnds, RejectRequest
<1>17. ASSUME NEW w \in Workers, StartExpand(w) PROVE TypeOK'
  <2>1. PICK id \in VolumeId, c \in Capacities :
          local' = [local EXCEPT ![w] = [local[w] EXCEPT !.name = id.name, !.zone = id.zone,
                                                         !.capacity = c]]
    BY <1>17 DEF StartExpand
  <2>2. [local[w] EXCEPT !.name = id.name, !.zone = id.zone, !.capacity = c] \in Local
    BY IdUpdate
  <2>3. local' \in [Workers -> Local]
    BY <2>1, <2>2, FunctionUpdate
  <2> QED
    BY <1>17, <2>3 DEF StartExpand, Goto
<1>18. ASSUME NEW w \in Workers, ReadVolume(w) PROVE TypeOK'
  BY <1>18 DEF ReadVolume, Goto, Http
<1>19. ASSUME NEW w \in Workers, Manage(w) PROVE TypeOK'
  BY <1>19, OutcomeType, RequestType DEF Manage, Http
<1>20. ASSUME NEW w \in Workers, RequestFails(w) PROVE TypeOK'
  BY <1>20 DEF RequestFails, Http
<1>21. ASSUME NEW w \in Workers, TimeOut(w) \/ Resend(w) PROVE TypeOK'
  BY <1>21, RequestType DEF TimeOut, Resend, Http
<1>22. CASE RunLate
  BY <1>22, OutcomeType DEF RunLate
<1>23. ASSUME NEW z \in Flaky, ZoneDisconnected(z) \/ ZoneConnected(z) PROVE TypeOK'
  BY <1>23, FlakyAssumption DEF ZoneDisconnected, ZoneConnected
<1>24. CASE Restart
  BY <1>24, RequestType DEF Restart, Local, Blank
<1>25. CASE UNCHANGED vars
  BY <1>25 DEF vars
<1> QED
  BY <1>1, <1>2, <1>3, <1>4, <1>5, <1>6, <1>7, <1>8, <1>9, <1>10, <1>11, <1>12,
     <1>13, <1>14, <1>15, <1>16, <1>17, <1>18, <1>19, <1>20, <1>21, <1>22, <1>23,
     <1>24, <1>25 DEF Next, Start, Create, DeleteOrExpand

-----------------------------------------------------------------------------
(* The handlers' locals *)

LEMMA NextZoneThread ==
    ASSUME TypeOK, ThreadInv, NEW w \in Workers, NEW s \in SUBSET Zones,
           pc[w] \in Critical, NextZone(w, s)
    PROVE  ThreadInv'
<1>1. CASE s = {}
  BY <1>1 DEF TypeOK, ThreadInv, Critical, NextZone, Fail, Return, Goto, Http, Blank
<1>2. CASE s # {}
  <2>1. /\ local'[w].name = local[w].name
        /\ local'[w].entry = local[w].entry
        /\ local'[w].capacity = local[w].capacity
    BY <1>2 DEF NextZone, TypeOK, Local
  <2>2. /\ pc' = [pc EXCEPT ![w] = "pick"] /\ http' = [http EXCEPT ![w] = "none"]
        /\ \A x \in Workers : x # w => local'[x] = local[x]
    BY <1>2 DEF NextZone, Goto, Http, TypeOK
  <2> QED
    BY <2>1, <2>2 DEF TypeOK, ThreadInv, Critical
<1> QED
  BY <1>1, <1>2

LEMMA ThreadStep ==
    ASSUME TypeOK, ThreadInv, [Next]_vars
    PROVE  ThreadInv'
<1> USE DEF TypeOK, ThreadInv, Critical, driver, thread, Goto, Http
<1>1. ASSUME NEW w \in Workers, StartCreate(w) PROVE ThreadInv'
  BY <1>1 DEF StartCreate
<1>2. ASSUME NEW w \in Workers, EnterCreate(w) PROVE ThreadInv'
  BY <1>2 DEF EnterCreate
<1>3. ASSUME NEW w \in Workers, ReturnCached(w) \/ RejectRequest(w) PROVE ThreadInv'
  <2>1. Return(w)
    BY <1>3 DEF ReturnCached, RejectRequest
  <2> QED
    BY <2>1 DEF Return, Blank
<1>4. ASSUME NEW w \in Workers, PickZone(w) PROVE ThreadInv'
  BY <1>4 DEF PickZone, Local
<1>5. ASSUME NEW w \in Workers, SkipDisabledZone(w) PROVE ThreadInv'
  <2>1. PICK z : NextZone(w, local[w].left \ {z})
    BY <1>5 DEF SkipDisabledZone
  <2>2. local[w].left \ {z} \in SUBSET Zones /\ pc[w] \in Critical
    BY <1>5 DEF SkipDisabledZone, Local
  <2> HIDE DEF TypeOK, ThreadInv
  <2> QED
    BY <2>1, <2>2, NextZoneThread
<1>6. ASSUME NEW w \in Workers, PickForeignZone(w) PROVE ThreadInv'
  BY <1>6 DEF PickForeignZone, Fail, Return, Blank
<1>7. ASSUME NEW w \in Workers, SendSave(w) PROVE ThreadInv'
  BY <1>7 DEF SendSave
<1>8. ASSUME NEW w \in Workers, SaveError(w) PROVE ThreadInv'
  <2>1. local[w].left \in SUBSET Zones /\ pc[w] \in Critical
    BY <1>8 DEF SaveError, Local
  <2> HIDE DEF TypeOK, ThreadInv
  <2> QED
    BY <1>8, <2>1, NextZoneThread DEF SaveError
<1>9. ASSUME NEW w \in Workers, SaveRefused(w) PROVE ThreadInv'
  <2>1. local[w].left \in SUBSET Zones /\ pc[w] \in Critical
    BY <1>9 DEF SaveRefused, Local
  <2> HIDE DEF TypeOK, ThreadInv
  <2> QED
    BY <1>9, <2>1, NextZoneThread DEF SaveRefused
<1>10. ASSUME NEW w \in Workers, SaveAborted(w) PROVE ThreadInv'
  BY <1>10 DEF SaveAborted, Fail, Return, Blank
<1>11. ASSUME NEW w \in Workers, SaveDone(w) PROVE ThreadInv'
  BY <1>11 DEF SaveDone
<1>12. ASSUME NEW w \in Workers, CompareEqual(w) PROVE ThreadInv'
  BY <1>12 DEF CompareEqual
<1>13. ASSUME NEW w \in Workers, CompareFails(w) PROVE ThreadInv'
  BY <1>13 DEF CompareFails, Fail, Return, Blank
<1>14. ASSUME NEW w \in Workers, Commit(w) PROVE ThreadInv'
  BY <1>14 DEF Commit, Return, Blank
<1>15. ASSUME NEW w \in Workers, StartDelete(w) PROVE ThreadInv'
  BY <1>15 DEF StartDelete, Blank, Local, VolumeId
<1>16. ASSUME NEW w \in Workers, DeleteDone(w) PROVE ThreadInv'
  BY <1>16 DEF DeleteDone, Return, Blank
<1>17. ASSUME NEW w \in Workers, DeleteFails(w) PROVE ThreadInv'
  BY <1>17 DEF DeleteFails, Return, Blank
<1>18. ASSUME NEW w \in Workers, StartExpand(w) PROVE ThreadInv'
  BY <1>18 DEF StartExpand, Blank, Local, VolumeId
<1>19. ASSUME NEW w \in Workers, ReadVolume(w) PROVE ThreadInv'
  BY <1>19 DEF ReadVolume
<1>20. ASSUME NEW w \in Workers, ReadFails(w) PROVE ThreadInv'
  BY <1>20 DEF ReadFails, Return, Blank
<1>21. ASSUME NEW w \in Workers, ExpandEnds(w) PROVE ThreadInv'
  BY <1>21 DEF ExpandEnds, Return, Blank
<1>22. ASSUME NEW w \in Workers, Manage(w) PROVE ThreadInv'
  BY <1>22 DEF Manage
<1>23. ASSUME NEW w \in Workers, RequestFails(w) PROVE ThreadInv'
  BY <1>23 DEF RequestFails
<1>24. ASSUME NEW w \in Workers, TimeOut(w) PROVE ThreadInv'
  BY <1>24 DEF TimeOut, Answers
<1>25. ASSUME NEW w \in Workers, Resend(w) PROVE ThreadInv'
  BY <1>25 DEF Resend
<1>26. CASE RunLate
  BY <1>26 DEF RunLate
<1>27. ASSUME NEW z \in Flaky, ZoneDisconnected(z) \/ ZoneConnected(z) PROVE ThreadInv'
  BY <1>27 DEF ZoneDisconnected, ZoneConnected
<1>28. CASE Restart
  BY <1>28 DEF Restart, Blank
<1>29. CASE UNCHANGED vars
  BY <1>29 DEF vars
<1> QED
  BY <1>1, <1>2, <1>3, <1>4, <1>5, <1>6, <1>7, <1>8, <1>9, <1>10, <1>11, <1>12, <1>13, <1>14,
     <1>15, <1>16, <1>17, <1>18, <1>19, <1>20, <1>21, <1>22, <1>23, <1>24, <1>25, <1>26,
     <1>27, <1>28, <1>29 DEF Next, Start, Create, DeleteOrExpand

-----------------------------------------------------------------------------
(* The steps that matter to the entries, their locks and their volumes *)

\* Nothing the invariants below speak of changes.
Quiet ==
    /\ UNCHANGED <<cache, entryLock, csiVolume, handedOut>>
    /\ \A w \in Workers : /\ local'[w].name = local[w].name
                          /\ local'[w].entry = local[w].entry
                          /\ pc'[w] \in Critical <=> pc[w] \in Critical
                          /\ pc'[w] = "deleting" <=> pc[w] = "deleting"

\* A handler ends without touching the dictionary, inside its lock or outside.
Leaves(w) ==
    /\ \/ pc[w] \in Critical /\ Fail(w)
       \/ pc[w] \notin Critical /\ Return(w) /\ UNCHANGED entryLock
    /\ UNCHANGED <<cache, csiVolume>>
    /\ handedOut' = handedOut \/ ReturnCached(w)

\* A handler that works on no entry begins.
StartsOther(w) ==
    /\ pc[w] = "idle"
    /\ local' = [local EXCEPT ![w] = local'[w]]
    /\ local'[w].entry = None
    /\ \/ Goto(w, "read")
       \/ Goto(w, "deleting") /\ "delete" \in Ops
    /\ UNCHANGED <<cache, entryLock, csiVolume, handedOut>>

LEMMA NextZoneKind ==
    ASSUME TypeOK, NEW w \in Workers, NEW s \in SUBSET Zones,
           pc[w] \in Critical, NextZone(w, s), UNCHANGED <<cache, csiVolume, handedOut>>
    PROVE  Quiet \/ Leaves(w)
<1>1. CASE s = {}
  BY <1>1 DEF NextZone, Leaves
<1>2. CASE s # {}
  <2>1. /\ local'[w].name = local[w].name
        /\ local'[w].entry = local[w].entry
        /\ pc' = [pc EXCEPT ![w] = "pick"]
        /\ \A x \in Workers : x # w => local'[x] = local[x]
    BY <1>2 DEF NextZone, TypeOK, Goto, Local
  <2> QED
    BY <1>2, <2>1 DEF NextZone, Quiet, TypeOK, Critical
<1> QED
  BY <1>1, <1>2

LEMMA StepKinds ==
    ASSUME TypeOK, ThreadInv, [Next]_vars
    PROVE  \/ Quiet \/ Restart
           \/ \E w \in Workers : \/ StartCreate(w) \/ EnterCreate(w) \/ Commit(w)
                                \/ DeleteDone(w) \/ Leaves(w) \/ StartsOther(w)
<1> USE DEF driver, thread
<1>1. ASSUME NEW w \in Workers, ReturnCached(w) \/ RejectRequest(w) PROVE Leaves(w)
  BY <1>1 DEF ReturnCached, RejectRequest, driver, Leaves, Critical
<1>2. ASSUME NEW w \in Workers, PickZone(w) PROVE Quiet
  BY <1>2 DEF PickZone, Quiet, Goto, Critical, TypeOK, Local
<1>3. ASSUME NEW w \in Workers, SkipDisabledZone(w) PROVE Quiet \/ Leaves(w)
  <2>1. PICK z : NextZone(w, local[w].left \ {z})
    BY <1>3 DEF SkipDisabledZone
  <2>2. local[w].left \ {z} \in SUBSET Zones /\ pc[w] \in Critical
    BY <1>3 DEF SkipDisabledZone, TypeOK, Local, Critical
  <2> QED
    BY <1>3, <2>1, <2>2, NextZoneKind DEF SkipDisabledZone
<1>4. ASSUME NEW w \in Workers, PickForeignZone(w) PROVE Leaves(w)
  BY <1>4 DEF PickForeignZone, Leaves, Critical
<1>5. ASSUME NEW w \in Workers, SendSave(w) \/ SaveDone(w) \/ CompareEqual(w) PROVE Quiet
  BY <1>5 DEF SendSave, SaveDone, CompareEqual, Quiet, Goto, Critical, TypeOK
<1>6. ASSUME NEW w \in Workers, SaveError(w) \/ SaveRefused(w) PROVE Quiet \/ Leaves(w)
  <2>1. local[w].left \in SUBSET Zones /\ pc[w] \in Critical
    BY <1>6 DEF SaveError, SaveRefused, TypeOK, Local, Critical
  <2> QED
    BY <1>6, <2>1, NextZoneKind DEF SaveError, SaveRefused
<1>7. ASSUME NEW w \in Workers, SaveAborted(w) \/ CompareFails(w) PROVE Leaves(w)
  BY <1>7 DEF SaveAborted, CompareFails, Leaves, Critical
<1>8. ASSUME NEW w \in Workers, StartDelete(w) PROVE StartsOther(w)
  <2>1. PICK id \in handedOut :
          local' = [local EXCEPT ![w] = [local[w] EXCEPT !.name = id.name, !.zone = id.zone]]
    BY <1>8 DEF StartDelete
  <2>2. local[w] = Blank /\ pc[w] = "idle"
    BY <1>8 DEF StartDelete, ThreadInv
  <2>3. local'[w].entry = None
    BY <2>1, <2>2 DEF Blank, TypeOK, Local
  <2>4. local' = [local EXCEPT ![w] = local'[w]]
    BY <2>1 DEF TypeOK
  <2> QED
    BY <1>8, <2>2, <2>3, <2>4 DEF StartDelete, StartsOther
<1>9. ASSUME NEW w \in Workers, StartExpand(w) PROVE StartsOther(w)
  <2>1. PICK id \in handedOut, c \in Capacities :
          local' = [local EXCEPT ![w] = [local[w] EXCEPT !.name = id.name, !.zone = id.zone,
                                                         !.capacity = c]]
    BY <1>9 DEF StartExpand
  <2>2. local[w] = Blank /\ pc[w] = "idle"
    BY <1>9 DEF StartExpand, ThreadInv
  <2>3. local'[w].entry = None
    BY <2>1, <2>2 DEF Blank, TypeOK, Local
  <2>4. local' = [local EXCEPT ![w] = local'[w]]
    BY <2>1 DEF TypeOK
  <2> QED
    BY <1>9, <2>2, <2>3, <2>4 DEF StartExpand, StartsOther
<1>10. ASSUME NEW w \in Workers, DeleteFails(w) \/ ReadFails(w) \/ ExpandEnds(w)
       PROVE  Leaves(w)
  BY <1>10 DEF DeleteFails, ReadFails, ExpandEnds, Leaves, Critical
<1>11. ASSUME NEW w \in Workers, ReadVolume(w) PROVE Quiet
  BY <1>11 DEF ReadVolume, Quiet, Goto, Critical, TypeOK
<1>12. ASSUME NEW w \in Workers,
              Manage(w) \/ RequestFails(w) \/ TimeOut(w) \/ Resend(w)
       PROVE  Quiet
  BY <1>12 DEF Manage, RequestFails, TimeOut, Resend, Quiet
<1>13. CASE RunLate
  BY <1>13 DEF RunLate, Quiet
<1>14. ASSUME NEW z \in Flaky, ZoneDisconnected(z) \/ ZoneConnected(z) PROVE Quiet
  BY <1>14 DEF ZoneDisconnected, ZoneConnected, Quiet
<1>15. CASE UNCHANGED vars
  BY <1>15 DEF vars, Quiet
<1> QED
  BY <1>1, <1>2, <1>3, <1>4, <1>5, <1>6, <1>7, <1>8, <1>9, <1>10, <1>11, <1>12, <1>13,
     <1>14, <1>15 DEF Next, Start, Create, DeleteOrExpand

-----------------------------------------------------------------------------
(* The entries, their locks and their volumes *)

LEMMA LockStep ==
    ASSUME TypeOK, ThreadInv, LockInv, [Next]_vars
    PROVE  LockInv'
<1> USE NoneAssumption DEF TypeOK, LockInv
<1>1. CASE Quiet
  BY <1>1 DEF Quiet
<1>2. CASE Restart
  BY <1>2 DEF Restart, Critical
<1>3. ASSUME NEW w \in Workers, StartCreate(w) PROVE LockInv'
  BY <1>3 DEF StartCreate, Goto, Critical
<1>4. ASSUME NEW w \in Workers, EnterCreate(w) PROVE LockInv'
  <2>1. local[w].entry \in Entries
    BY <1>4 DEF EnterCreate, ThreadInv
  <2> QED
    BY <1>4, <2>1 DEF EnterCreate, Goto, Critical
<1>5. ASSUME NEW w \in Workers, Leaves(w) PROVE LockInv'
  <2>1. pc' = [pc EXCEPT ![w] = "idle"] /\ local' = [local EXCEPT ![w] = Blank]
    BY <1>5 DEF Leaves, Fail, Return, Goto
  <2>2. CASE pc[w] \in Critical
    <3>1. local[w].entry \in Entries /\ entryLock' = [entryLock EXCEPT ![local[w].entry] = None]
      BY <1>5, <2>2 DEF Leaves, Fail, Release, ThreadInv
    <3> QED
      BY <2>1, <2>2, <3>1 DEF Critical
  <2>3. CASE pc[w] \notin Critical
    BY <1>5, <2>1, <2>3 DEF Leaves, Fail, Critical
  <2> QED
    BY <2>2, <2>3
<1>6. ASSUME NEW w \in Workers, Commit(w) PROVE LockInv'
  <2>1. pc[w] \in Critical /\ local[w].entry \in Entries
    BY <1>6 DEF Commit, Critical, ThreadInv
  <2> QED
    BY <1>6, <2>1 DEF Commit, Release, Return, Goto, Critical
<1>7. ASSUME NEW w \in Workers, DeleteDone(w) PROVE LockInv'
  BY <1>7 DEF DeleteDone, Return, Goto, Critical
<1>8. ASSUME NEW w \in Workers, StartsOther(w) PROVE LockInv'
  BY <1>8 DEF StartsOther, Goto, Critical
<1> HIDE DEF TypeOK, LockInv
<1> QED
  BY <1>1, <1>2, <1>3, <1>4, <1>5, <1>6, <1>7, <1>8, StepKinds

LEMMA CacheStep ==
    ASSUME TypeOK, ThreadInv, CacheInv, [Next]_vars
    PROVE  CacheInv'
<1> USE NoneAssumption DEF TypeOK, CacheInv
<1>1. CASE Quiet
  BY <1>1 DEF Quiet
<1>2. CASE Restart
  BY <1>2 DEF Restart
<1>3. ASSUME NEW w \in Workers, StartCreate(w) PROVE CacheInv'
  <2>1. PICK n \in Names, e \in Entries :
          /\ local'[w].name = n /\ local'[w].entry = e
          /\ \A x \in Workers : x # w => local'[x] = local[x]
          /\ \/ /\ e = cache[n] /\ UNCHANGED <<cache, csiVolume>>
             \/ /\ ~Live(e) /\ cache' = [cache EXCEPT ![n] = e]
                /\ csiVolume' = [csiVolume EXCEPT ![e] = None]
    BY <1>3 DEF StartCreate
  <2>2. CASE e = cache[n] /\ UNCHANGED <<cache, csiVolume>>
    BY <2>1, <2>2
  <2>3. CASE /\ ~Live(e) /\ cache' = [cache EXCEPT ![n] = e]
             /\ csiVolume' = [csiVolume EXCEPT ![e] = None]
    <3>1. \A m \in Names : cache[m] # e
      BY <2>3 DEF Live
    <3>2. \A x \in Workers : local[x].entry # e
      BY <2>3 DEF Live
    <3>3. /\ cache'[n] = e /\ csiVolume'[e] = None
          /\ \A m \in Names : m # n => cache'[m] = cache[m]
      BY <2>3
    <3>4. \A m \in Names : m # n /\ cache[m] # None => csiVolume'[cache[m]] = csiVolume[cache[m]]
      BY <2>3, <3>1
    <3>5. ASSUME NEW m \in Names, cache'[m] # None
          PROVE  /\ \A k \in Names : cache'[k] = cache'[m] => k = m
                 /\ \A x \in Workers : local'[x].entry = cache'[m] => local'[x].name = m
                 /\ csiVolume'[cache'[m]] # None => csiVolume'[cache'[m]].name = m
      <4>1. CASE m = n
        BY <2>1, <3>1, <3>2, <3>3, <4>1
      <4>2. CASE m # n
        BY <2>1, <3>1, <3>3, <3>4, <3>5, <4>2
      <4> QED
        BY <4>1, <4>2
    <3> QED
      BY <3>5
  <2> QED
    BY <2>1, <2>2, <2>3
<1>4. ASSUME NEW w \in Workers, EnterCreate(w) PROVE CacheInv'
  BY <1>4 DEF EnterCreate
<1>5. ASSUME NEW w \in Workers, Leaves(w) PROVE CacheInv'
  BY <1>5 DEF Leaves, Fail, Return, Blank
<1>6. ASSUME NEW w \in Workers, Commit(w) PROVE CacheInv'
  <2>1. local[w].entry \in Entries
    BY <1>6 DEF Commit, Critical, ThreadInv
  <2>2. /\ csiVolume'[local[w].entry].name = local[w].name
        /\ \A e \in Entries : e # local[w].entry => csiVolume'[e] = csiVolume[e]
        /\ cache' = cache /\ local' = [local EXCEPT ![w] = Blank]
    BY <1>6, <2>1 DEF Commit, Return
  <2> QED
    BY <2>1, <2>2 DEF Blank
<1>7. ASSUME NEW w \in Workers, DeleteDone(w) PROVE CacheInv'
  BY <1>7 DEF DeleteDone, Return, Blank
<1>8. ASSUME NEW w \in Workers, StartsOther(w) PROVE CacheInv'
  BY <1>8 DEF StartsOther
<1> HIDE DEF TypeOK, CacheInv
<1> QED
  BY <1>1, <1>2, <1>3, <1>4, <1>5, <1>6, <1>7, <1>8, StepKinds

LEMMA VacantStep ==
    ASSUME TypeOK, ThreadInv, LockInv, VacantInv, [Next]_vars
    PROVE  VacantInv'
<1> USE NoneAssumption DEF TypeOK, VacantInv
<1>1. CASE Quiet
  BY <1>1 DEF Quiet
<1>2. CASE Restart
  BY <1>2 DEF Restart, Critical
<1>3. ASSUME NEW w \in Workers, StartCreate(w) PROVE VacantInv'
  <2>1. PICK e \in Entries : csiVolume' = csiVolume \/ csiVolume' = [csiVolume EXCEPT ![e] = None]
    BY <1>3 DEF StartCreate
  <2> QED
    BY <1>3, <2>1 DEF StartCreate, Goto, Critical, ThreadInv
<1>4. ASSUME NEW w \in Workers, EnterCreate(w) PROVE VacantInv'
  BY <1>4 DEF EnterCreate, Goto
<1>5. ASSUME NEW w \in Workers, Leaves(w) PROVE VacantInv'
  BY <1>5 DEF Leaves, Fail, Return, Goto, Critical
<1>6. ASSUME NEW w \in Workers, Commit(w) PROVE VacantInv'
  <2>1. pc[w] \in Critical
    BY <1>6 DEF Commit, Critical
  <2>2. \A x \in Workers : x # w /\ pc[x] \in Critical => local[x].entry # local[w].entry
    BY <2>1 DEF LockInv, ThreadInv
  <2> QED
    BY <1>6, <2>1, <2>2 DEF Commit, Return, Goto, Critical
<1>7. ASSUME NEW w \in Workers, DeleteDone(w) PROVE VacantInv'
  BY <1>7 DEF DeleteDone, Return, Goto, Critical
<1>8. ASSUME NEW w \in Workers, StartsOther(w) PROVE VacantInv'
  BY <1>8 DEF StartsOther, Goto, Critical
<1> HIDE DEF TypeOK, VacantInv
<1> QED
  BY <1>1, <1>2, <1>3, <1>4, <1>5, <1>6, <1>7, <1>8, StepKinds

LEMMA InitInv == Init => IInv
<1>1. Init => ThreadInv /\ LockInv /\ CacheInv /\ VacantInv
  BY NoneAssumption DEF Init, ThreadInv, LockInv, CacheInv, VacantInv, Critical, Blank
<1> QED
  BY <1>1, TypeInit DEF IInv

LEMMA StepInv == IInv /\ [Next]_vars => IInv'
BY TypeStep, ThreadStep, LockStep, CacheStep, VacantStep DEF IInv

\* Every variable, and every local of a handler, keeps to its type: whatever
\* the management answers and whatever is lost, late or restarted.
THEOREM TypeCorrect == Spec => []TypeOK
<1>1. IInv => TypeOK
  BY DEF IInv
<1> QED
  BY <1>1, InitInv, StepInv, PTL DEF Spec

\* The lock of a cache entry is held by the one thread that is creating its
\* volume and by nobody else, at every line of CreateVolume's locked part.
THEOREM LockCorrect == Spec => []LockInv
<1>1. IInv => LockInv
  BY DEF IInv
<1> QED
  BY <1>1, InitInv, StepInv, PTL DEF Spec

\* A volume in an entry that is in use is neither replaced nor cleared.
THEOREM VolumeCachedOnce == Spec => CachedOnce
<1>1. ASSUME IInv, [Next]_vars, NEW e \in Entries,
             csiVolume[e] # None, csiVolume'[e] # csiVolume[e]
      PROVE  ~Live(e) \/ Restart
  <2>1. ASSUME NEW w \in Workers, StartCreate(w) PROVE ~Live(e)
    BY <1>1, <2>1 DEF StartCreate, IInv, TypeOK
  <2>2. ASSUME NEW w \in Workers, Commit(w) PROVE FALSE
    <3>1. csiVolume[local[w].entry] = None
      BY <2>2, <1>1 DEF Commit, IInv, VacantInv, Critical
    <3> QED
      BY <1>1, <2>2, <3>1 DEF Commit, IInv, TypeOK
  <2> QED
    BY <1>1, <2>1, <2>2, StepKinds
    DEF IInv, Quiet, EnterCreate, DeleteDone, Leaves, StartsOther
<1>2. IInv /\ [Next]_vars
      => [\A e \in Entries : csiVolume[e] # None /\ csiVolume'[e] # csiVolume[e]
                             => ~Live(e) \/ Restart]_vars
  BY <1>1
<1> QED
  BY <1>2, InitInv, StepInv, PTL DEF Spec, CachedOnce

-----------------------------------------------------------------------------
(* An orchestrator that does not delete, a controller that does not restart *)

\* A volume in a thread's entry is the one the dictionary has for its name.
LEMMA AnsweredFromCache ==
    ASSUME IInv, KeptInv, NEW w \in Workers, ReturnCached(w)
    PROVE  LET n == local[w].name IN
           /\ n \in Names /\ cache[n] # None /\ csiVolume[cache[n]] \in Volume
           /\ csiVolume[cache[n]] # None /\ csiVolume[cache[n]].name = n
           /\ handedOut' \in {handedOut, handedOut \cup {IdOf(csiVolume[cache[n]])}}
<1>1. /\ pc[w] = "lock" /\ local[w].entry \in Entries /\ local[w].name \in Names
      /\ csiVolume[local[w].entry] # None
  BY DEF ReturnCached, IInv, ThreadInv
<1>2. cache[local[w].name] = local[w].entry /\ local[w].entry # None
  BY <1>1, NoneAssumption DEF KeptInv
<1>3. csiVolume[local[w].entry] \in Volume /\ csiVolume[local[w].entry].name = local[w].name
  BY <1>1, <1>2 DEF IInv, TypeOK, CacheInv
<1>4. handedOut' \in {handedOut, handedOut \cup {IdOf(csiVolume[local[w].entry])}}
  BY DEF ReturnCached, Answer
<1> QED
  BY <1>1, <1>2, <1>3, <1>4

LEMMA KeptStep ==
    ASSUME IInv, KeptInv, [Next]_vars, "delete" \notin Ops, ~CanRestart
    PROVE  KeptInv'
<1> USE NoneAssumption DEF KeptInv, IInv, TypeOK
<1>1. CASE Quiet
  BY <1>1 DEF Quiet, IdOf
<1>2. CASE Restart
  BY <1>2 DEF Restart
<1>3. ASSUME NEW w \in Workers, StartCreate(w) PROVE KeptInv'
  <2>1. PICK n \in Names, e \in Entries :
          /\ local'[w].name = n /\ local'[w].entry = e
          /\ \A x \in Workers : x # w => local'[x] = local[x]
          /\ pc' = [pc EXCEPT ![w] = "lock"]
          /\ handedOut' = handedOut
          /\ \/ /\ e = cache[n] /\ UNCHANGED <<cache, csiVolume>>
             \/ /\ ~Live(e) /\ cache[n] = None /\ cache' = [cache EXCEPT ![n] = e]
                /\ csiVolume' = [csiVolume EXCEPT ![e] = None]
    BY <1>3 DEF StartCreate, Goto
  <2>2. cache'[n] = e
    BY <2>1
  <2>3. CASE UNCHANGED <<cache, csiVolume>>
    BY <2>1, <2>2, <2>3 DEF IdOf
  <2>4. CASE /\ ~Live(e) /\ cache[n] = None /\ cache' = [cache EXCEPT ![n] = e]
             /\ csiVolume' = [csiVolume EXCEPT ![e] = None]
    <3>1. \A x \in Workers : x # w /\ local[x].entry # None =>
             local[x].name \in Names /\ local[x].name # n
      BY <2>4 DEF ThreadInv, Blank
    <3>2. \A id \in handedOut : id.name \in Names /\ id.name # n
      BY <2>4 DEF VolumeId
    <3>3. \A m \in Names : m # n => cache'[m] = cache[m] /\ cache[m] # e
      BY <2>4 DEF Live
    <3>4. \A m \in Names : m # n /\ cache[m] # None => csiVolume'[cache[m]] = csiVolume[cache[m]]
      BY <2>4, <3>3
    <3>5. \A x \in Workers : /\ pc'[x] # "deleting"
                             /\ local'[x].entry # None => cache'[local'[x].name] = local'[x].entry
      BY <2>1, <2>2, <3>1, <3>3
    <3>6. \A id \in handedOut : /\ cache'[id.name] # None
                                /\ csiVolume'[cache'[id.name]] # None
                                /\ IdOf(csiVolume'[cache'[id.name]]) = id
      BY <3>2, <3>3, <3>4
    <3> QED
      BY <2>1, <3>5, <3>6
  <2> QED
    BY <2>1, <2>3, <2>4
<1>4. ASSUME NEW w \in Workers, EnterCreate(w) PROVE KeptInv'
  BY <1>4 DEF EnterCreate, Goto, IdOf
<1>5. ASSUME NEW w \in Workers, Leaves(w) PROVE KeptInv'
  <2>1. /\ local' = [local EXCEPT ![w] = Blank] /\ pc' = [pc EXCEPT ![w] = "idle"]
        /\ UNCHANGED <<cache, csiVolume>>
    BY <1>5 DEF Leaves, Fail, Return, Goto
  <2>2. \A id \in handedOut' : /\ cache[id.name] # None
                               /\ csiVolume[cache[id.name]] # None
                               /\ IdOf(csiVolume[cache[id.name]]) = id
    <3>1. CASE ReturnCached(w)
      <4> HIDE DEF KeptInv, IInv
      <4> DEFINE n == local[w].name
      <4>1. /\ cache[n] # None /\ csiVolume[cache[n]] # None
            /\ csiVolume[cache[n]].name = n
            /\ handedOut' \in {handedOut, handedOut \cup {IdOf(csiVolume[cache[n]])}}
        BY <3>1, AnsweredFromCache
      <4>2. IdOf(csiVolume[cache[n]]).name = n
        BY <4>1 DEF IdOf
      <4> QED
        BY <4>1, <4>2 DEF KeptInv
    <3> QED
      BY <1>5, <3>1 DEF Leaves
  <2> QED
    BY <2>1, <2>2 DEF Blank, IdOf
<1>6. ASSUME NEW w \in Workers, Commit(w) PROVE KeptInv'
  <2> DEFINE n == local[w].name
             e == local[w].entry
             v == [name |-> n, zone |-> local[w].zone, capacity |-> local[w].capacity]
  <2>1. e \in Entries /\ n \in Names /\ cache[n] = e /\ v # None /\ IdOf(v).name = n
    BY <1>6 DEF Commit, Critical, ThreadInv, IdOf, Volume
  <2>2. csiVolume[e] = None
    BY <1>6 DEF Commit, Critical, VacantInv
  <2>3. /\ cache' = cache /\ csiVolume' = [csiVolume EXCEPT ![e] = v]
        /\ handedOut' \in {handedOut, handedOut \cup {IdOf(v)}}
        /\ local' = [local EXCEPT ![w] = Blank] /\ pc' = [pc EXCEPT ![w] = "idle"]
    BY <1>6 DEF Commit, Answer, Return, Goto
  <2> QED
    BY <2>1, <2>2, <2>3 DEF CacheInv, Blank, VolumeId
<1>7. ASSUME NEW w \in Workers, DeleteDone(w) PROVE KeptInv'
  BY <1>7 DEF DeleteDone
<1>8. ASSUME NEW w \in Workers, StartsOther(w) PROVE KeptInv'
  BY <1>8 DEF StartsOther, Goto, IdOf
<1> HIDE DEF TypeOK, KeptInv
<1> QED
  BY <1>1, <1>2, <1>3, <1>4, <1>5, <1>6, <1>7, <1>8, StepKinds DEF IInv

\* Two answers for one name carry the same volume id, in every interleaving.
THEOREM OneIdPerName ==
    ASSUME "delete" \notin Ops, ~CanRestart
    PROVE  Spec => []UniqueId
<1>1. Init => KeptInv
  BY NoneAssumption DEF Init, KeptInv, Blank
<1>2. IInv /\ KeptInv /\ [Next]_vars => KeptInv'
  BY KeptStep
<1>3. KeptInv => UniqueId
  BY DEF KeptInv, UniqueId
<1> QED
  BY <1>1, <1>2, <1>3, InitInv, StepInv, PTL DEF Spec

-----------------------------------------------------------------------------
(* No request is lost either *)

Removing(w) == pc[w] = "deleting" /\ http[w] = "ok"

Same(w) == /\ local'[w].name = local[w].name
           /\ local'[w].zone = local[w].zone
           /\ local'[w].entry = local[w].entry

\* The storage and the cache stay as they are, and so does what the threads
\* know of the storage, except that one may cease to need it.
Still ==
    /\ UNCHANGED <<cache, csiVolume, stored, late>>
    /\ \A w \in Workers : /\ Saved(w)' <=> Saved(w)
                          /\ Found(w)' => Found(w)
                          /\ Removing(w)' <=> Removing(w)
                          /\ Found(w)' \/ Removing(w)' => Same(w)

LEMMA ReturnStill ==
    ASSUME TypeOK, NEW w \in Workers, Return(w), ~Saved(w), ~Removing(w),
           UNCHANGED <<cache, csiVolume, stored, late>>
    PROVE  Still
BY DEF TypeOK, Return, Goto, Http, Still, Saved, Found, Removing, Same

LEMMA NextZoneStill ==
    ASSUME TypeOK, NEW w \in Workers, NEW s \in SUBSET Zones, NextZone(w, s),
           ~Saved(w), ~Removing(w), UNCHANGED <<cache, csiVolume, stored, late>>
    PROVE  Still
<1>1. CASE s = {}
  BY <1>1, ReturnStill DEF NextZone, Fail
<1>2. CASE s # {}
  <2>1. /\ pc' = [pc EXCEPT ![w] = "pick"] /\ http' = [http EXCEPT ![w] = "none"]
        /\ \A x \in Workers : x # w => local'[x] = local[x]
    BY <1>2 DEF NextZone, Goto, Http, TypeOK
  <2> QED
    BY <2>1 DEF TypeOK, Still, Saved, Found, Removing, Same
<1> QED
  BY <1>1, <1>2

LEMMA StillKinds ==
    ASSUME TypeOK, ThreadInv, [Next]_vars, ~Lossy, ~CanRestart, late = {}
    PROVE  \/ Still
           \/ \E w \in Workers : \/ StartCreate(w) \/ CompareEqual(w) \/ Commit(w)
                                \/ DeleteDone(w) \/ Manage(w)
<1> USE DEF driver, thread
<1>1. ASSUME NEW w \in Workers, EnterCreate(w) \/ SendSave(w) \/ SaveDone(w) PROVE Still
  BY <1>1 DEF EnterCreate, SendSave, SaveDone, Goto, Http, TypeOK, Still, Saved, Found,
              Removing, Same
<1>2. ASSUME NEW w \in Workers,
             \/ ReturnCached(w) \/ RejectRequest(w)
             \/ DeleteFails(w) \/ ReadFails(w) \/ ExpandEnds(w)
      PROVE  Still
  BY <1>2, ReturnStill DEF ReturnCached, RejectRequest, DeleteFails, ReadFails, ExpandEnds, Saved, Removing
<1>3. ASSUME NEW w \in Workers,
             PickForeignZone(w) \/ SaveAborted(w) \/ CompareFails(w)
      PROVE  Still
  BY <1>3, ReturnStill DEF PickForeignZone, SaveAborted, CompareFails, Fail, Saved, Removing
<1>4. ASSUME NEW w \in Workers, PickZone(w) PROVE Still
  <2>1. /\ pc[w] = "pick" /\ pc' = [pc EXCEPT ![w] = "save"] /\ http' = http
        /\ \A x \in Workers : x # w => local'[x] = local[x]
    BY <1>4 DEF PickZone, Goto, TypeOK
  <2> QED
    BY <1>4, <2>1 DEF PickZone, TypeOK, Still, Saved, Found, Removing, Same
<1>5. ASSUME NEW w \in Workers, SkipDisabledZone(w) PROVE Still
  <2>1. PICK z : NextZone(w, local[w].left \ {z})
    BY <1>5 DEF SkipDisabledZone
  <2>2. local[w].left \ {z} \in SUBSET Zones
    BY DEF TypeOK, Local
  <2> QED
    BY <1>5, <2>1, <2>2, NextZoneStill DEF SkipDisabledZone, Saved, Removing
<1>6. ASSUME NEW w \in Workers, SaveError(w) \/ SaveRefused(w) PROVE Still
  <2>1. local[w].left \in SUBSET Zones
    BY DEF TypeOK, Local
  <2> QED
    BY <1>6, <2>1, NextZoneStill DEF SaveError, SaveRefused, Saved, Removing
<1>7. ASSUME NEW w \in Workers, StartDelete(w) PROVE Still
  <2>1. /\ pc' = [pc EXCEPT ![w] = "deleting"] /\ http' = [http EXCEPT ![w] = "sent"]
        /\ \A x \in Workers : x # w => local'[x] = local[x]
    BY <1>7 DEF StartDelete, Goto, Http, TypeOK
  <2> QED
    BY <1>7, <2>1 DEF StartDelete, TypeOK, Still, Saved, Found, Removing, Same
<1>8. ASSUME NEW w \in Workers, StartExpand(w) PROVE Still
  <2>1. /\ pc' = [pc EXCEPT ![w] = "read"] /\ http' = http
        /\ \A x \in Workers : x # w => local'[x] = local[x]
    BY <1>8 DEF StartExpand, Goto, TypeOK
  <2> QED
    BY <1>8, <2>1 DEF StartExpand, TypeOK, Still, Saved, Found, Removing, Same
<1>9. ASSUME NEW w \in Workers, ReadVolume(w) \/ RequestFails(w) PROVE Still
  BY <1>9 DEF ReadVolume, RequestFails, Goto, Http, TypeOK, Still, Saved, Found, Removing, Same
<1>10. ASSUME NEW z \in Flaky, ZoneDisconnected(z) \/ ZoneConnected(z) PROVE Still
  BY <1>10 DEF ZoneDisconnected, ZoneConnected, Still, Saved, Found, Removing, Same
<1>11. CASE UNCHANGED vars
  BY <1>11 DEF vars, Still, Saved, Found, Removing, Same
<1>12. ~RunLate /\ ~Restart /\ \A w \in Workers : ~TimeOut(w) /\ ~Resend(w)
  BY DEF RunLate, Restart, TimeOut, Resend
<1> QED
  BY <1>1, <1>2, <1>3, <1>4, <1>5, <1>6, <1>7, <1>8, <1>9, <1>10, <1>11, <1>12
  DEF Next, Start, Create, DeleteOrExpand

\* What Manage does to the storage, one case per kind of request.
LEMMA ManageEffect ==
    ASSUME TypeOK, ThreadInv, NEW w \in Workers, Manage(w)
    PROVE  /\ UNCHANGED <<cache, csiVolume, pc, local, late, handedOut>>
           /\ \A x \in Workers : x # w => http'[x] = http[x]
           /\ http[w] = "sent" /\ pc[w] \in {"saving", "deleting", "extending"}
           /\ local[w].name \in Names /\ local[w].zone \in Zones
           /\ \A y \in Zones, m \in Names :
                 y # local[w].zone \/ m # local[w].name => stored'[y][m] = stored[y][m]
           /\ LET old == stored[local[w].zone][local[w].name]
                  new == stored'[local[w].zone][local[w].name]
              IN  /\ pc[w] = "saving" =>
                        \/ http'[w] = "ok" /\ old = 0 /\ new = local[w].capacity /\ new # 0
                        \/ http'[w] = "exists" /\ old # 0 /\ new = old
                        \/ http'[w] \notin {"ok", "exists"} /\ new = old
                  /\ pc[w] = "deleting" => http'[w] = "ok" \/ new = old
                  /\ pc[w] = "extending" => (new = 0 <=> old = 0)
<1>1. http[w] = "sent" /\ pc[w] \in {"saving", "deleting", "extending"}
  BY DEF Manage, ThreadInv
<1>2. local[w].name \in Names /\ local[w].zone \in Zones
  BY <1>1 DEF ThreadInv
<1>3. PICK o \in Outcomes(RequestOf(w)) : Store(RequestOf(w), o[1]) /\ Http(w, o[2])
  BY DEF Manage
<1>4. http' = [http EXCEPT ![w] = o[2]]
  BY <1>3 DEF Http
<1>5. stored' = [stored EXCEPT ![local[w].zone][local[w].name] = o[1]]
  BY <1>3 DEF Store, RequestOf
<1>6. http'[w] = o[2] /\ stored'[local[w].zone][local[w].name] = o[1]
  BY <1>2, <1>4, <1>5 DEF TypeOK
<1>7. \A y \in Zones, m \in Names :
         y # local[w].zone \/ m # local[w].name => stored'[y][m] = stored[y][m]
  BY <1>2, <1>5 DEF TypeOK
<1> DEFINE old == stored[local[w].zone][local[w].name]
<1>8. old \in Nat /\ local[w].capacity \in Nat
  <2>1. old \in Capacities \cup {0}
    BY <1>2 DEF TypeOK
  <2>2. local[w].capacity \in Capacities \cup {0}
    BY DEF TypeOK, Local
  <2>3. \A c \in Capacities \cup {0} : c \in Nat
    BY CapacitiesAssumption
  <2> QED
    BY <2>1, <2>2, <2>3
<1>9. CASE pc[w] = "saving"
  <2>1. local[w].capacity # 0
    BY <1>9, CapacitiesAssumption DEF ThreadInv, Critical
  <2>2. \/ o = <<local[w].capacity, "ok">> /\ old = 0
        \/ o \in {<<0, "failed">>, <<0, "garbled">>, <<0, "invalid">>} /\ old = 0
        \/ o \in {<<old, "exists">>, <<old, "garbled">>, <<old, "invalid">>} /\ old # 0
    BY <1>3, <1>9 DEF Outcomes, RequestOf, Kind
  <2> QED
    BY <1>1, <1>2, <1>4, <1>6, <1>7, <1>9, <2>1, <2>2 DEF Manage, driver, TypeOK
<1>10. CASE pc[w] = "deleting"
  <2>1. (o \in {<<0, "missing">>} /\ old = 0) \/ o \in {<<0, "ok">>, <<old, "failed">>}
    BY <1>3, <1>10 DEF Outcomes, RequestOf, Kind
  <2> QED
    BY <1>1, <1>2, <1>4, <1>6, <1>7, <1>10, <2>1 DEF Manage, driver, TypeOK
<1>11. CASE pc[w] = "extending"
  <2>1. \/ o = <<local[w].capacity, "ok">> /\ old # 0 /\ local[w].capacity > old
        \/ o = <<old, "failed">>
    BY <1>3, <1>11 DEF Outcomes, RequestOf, Kind
  <2> QED
    BY <1>1, <1>2, <1>4, <1>6, <1>7, <1>8, <1>11, <2>1 DEF Manage, driver, TypeOK
<1> QED
  BY <1>1, <1>9, <1>10, <1>11

LEMMA PieceStep ==
    ASSUME IInv, KeptInv, PieceInv, [Next]_vars,
           "delete" \notin Ops, ~CanRestart, ~Lossy
    PROVE  PieceInv'
<1> USE DEF IInv
<1>1. CASE Still
  BY <1>1 DEF Still, PieceInv, Cached, Same, Has, Found, Saved
<1>2. ASSUME NEW w \in Workers, StartCreate(w) PROVE PieceInv'
  <2>1. PICK n \in Names, e \in Entries :
          /\ \A x \in Workers : x # w => local'[x] = local[x]
          /\ pc[w] = "idle" /\ pc' = [pc EXCEPT ![w] = "lock"]
          /\ UNCHANGED <<http, stored, late>>
          /\ \/ UNCHANGED <<cache, csiVolume>>
             \/ /\ ~Live(e) /\ cache[n] = None /\ cache' = [cache EXCEPT ![n] = e]
                /\ csiVolume' = [csiVolume EXCEPT ![e] = None]
    BY <1>2 DEF StartCreate, Goto
  <2>2. \A m \in Names : cache[m] # None =>
           cache'[m] = cache[m] /\ csiVolume'[cache[m]] = csiVolume[cache[m]]
    BY <2>1 DEF TypeOK, Live
  <2>3. \A x \in Workers : Saved(x)' <=> x # w /\ Saved(x)
    BY <2>1 DEF Saved, TypeOK
  <2>4. ~Saved(w)
    BY <2>1 DEF Saved
  <2>5. \A z \in Zones, m \in Names : Cached(z, m)' <=> Cached(z, m)
    BY <2>1, <2>2 DEF Cached, TypeOK
  <2> QED
    BY <2>1, <2>3, <2>4, <2>5 DEF PieceInv, Has
<1>3. ASSUME NEW w \in Workers, CompareEqual(w) PROVE PieceInv'
  <2>1. local[w].name \in Names /\ local[w].zone \in Zones /\ Has(local[w].zone, local[w].name)
    BY <1>3, CapacitiesAssumption DEF CompareEqual, ThreadInv, Has, Critical
  <2>2. \A x \in Workers : Saved(x)' <=> x = w \/ Saved(x)
    BY <1>3 DEF CompareEqual, Goto, Saved, TypeOK
  <2> QED
    BY <1>3, <2>1, <2>2 DEF CompareEqual, PieceInv, Cached, Has, driver
<1>4. ASSUME NEW w \in Workers, Commit(w) PROVE PieceInv'
  <2> DEFINE n == local[w].name
             e == local[w].entry
             v == [name |-> n, zone |-> local[w].zone, capacity |-> local[w].capacity]
  <2>1. e \in Entries /\ n \in Names /\ cache[n] = e /\ v # None /\ v.zone = local[w].zone
    BY <1>4, NoneAssumption DEF Commit, Critical, ThreadInv, KeptInv, Volume
  <2>2. /\ csiVolume[e] = None
        /\ \A m \in Names : cache[m] = e => m = n
    BY <1>4, <2>1, NoneAssumption DEF Commit, Critical, VacantInv, CacheInv
  <2>3. /\ UNCHANGED <<cache, stored, late>>
        /\ csiVolume' = [csiVolume EXCEPT ![e] = v]
        /\ \A x \in Workers : x # w => local'[x] = local[x]
        /\ pc' = [pc EXCEPT ![w] = "idle"] /\ http' = [http EXCEPT ![w] = "none"]
    BY <1>4 DEF Commit, Return, Goto, Http
  <2>4. \A x \in Workers : Saved(x)' <=> x # w /\ Saved(x)
    BY <2>3 DEF Saved, TypeOK
  <2>5. csiVolume'[e] = v /\ \A f \in Entries : f # e => csiVolume'[f] = csiVolume[f]
    BY <2>1, <2>3 DEF TypeOK
  <2> HIDE DEF v, e, n
  <2>6. \A z \in Zones, m \in Names :
           Cached(z, m)' <=> Cached(z, m) \/ (m = n /\ z = local[w].zone)
    BY <2>1, <2>2, <2>3, <2>5, NoneAssumption DEF Cached, TypeOK
  <2>7. Has(local[w].zone, n) /\ Saved(w)
    BY <1>4 DEF Commit, Saved, PieceInv, n
  <2>8. \A z \in Zones, m \in Names : Has(z, m)' <=> Has(z, m)
    BY <2>3 DEF Has
  <2>9. \A z \in Zones, m \in Names : Has(z, m)' =>
          \/ Cached(z, m)'
          \/ \E x \in Workers : /\ Saved(x)'
                                /\ local'[x].name = m /\ local'[x].zone = z
    BY <2>3, <2>4, <2>6, <2>8 DEF PieceInv, n
  <2>10. \A z \in Zones, m \in Names : Cached(z, m)' => Has(z, m)'
    BY <2>6, <2>7, <2>8 DEF PieceInv
  <2> QED
    BY <2>3, <2>4, <2>9, <2>10 DEF PieceInv, Has
<1>5. ASSUME NEW w \in Workers, DeleteDone(w) PROVE PieceInv'
  BY <1>5 DEF DeleteDone, KeptInv
<1>6. ASSUME NEW w \in Workers, Manage(w) PROVE PieceInv'
  <2>1. pc[w] \in {"saving", "extending"} /\ ~Saved(w)
    BY <1>6, ManageEffect DEF KeptInv, Saved
  <2>2. \A x \in Workers : x # w => (Saved(x)' <=> Saved(x))
    BY <1>6, ManageEffect DEF Saved
  <2>3. Saved(w)' <=> pc[w] = "saving" /\ http'[w] = "ok"
    BY <1>6, <2>1, ManageEffect DEF Saved
  <2>4. \A z \in Zones, n \in Names :
          Has(z, n)' <=> Has(z, n) \/ (Saved(w)' /\ z = local[w].zone /\ n = local[w].name)
    BY <1>6, <2>1, <2>3, ManageEffect DEF Has
  <2>5. UNCHANGED <<cache, csiVolume, local, late>>
    BY <1>6, ManageEffect
  <2>6. \A x \in Workers : Saved(x) => Saved(x)'
    BY <2>1, <2>2
  <2>7. ASSUME NEW n \in Names, NEW z \in Zones, Has(z, n)'
        PROVE  \/ Cached(z, n)
               \/ \E x \in Workers : local[x].name = n /\ local[x].zone = z /\ Saved(x)'
    BY <2>4, <2>6, <2>7 DEF PieceInv
  <2>8. \A x \in Workers : Saved(x)' => Has(local[x].zone, local[x].name)'
    <3>1. UNCHANGED local
      BY <2>5
    <3>2. local[w].name \in Names /\ local[w].zone \in Zones
      BY <1>6, ManageEffect
    <3>3. \A x \in Workers : Saved(x) => local[x].name \in Names /\ local[x].zone \in Zones
      BY DEF Saved, ThreadInv
    <3>4. ASSUME NEW x \in Workers, Saved(x)'
          PROVE  Has(local[x].zone, local[x].name)'
      <4>1. CASE x = w
        BY <2>4, <3>1, <3>2, <3>4, <4>1
      <4>2. CASE x # w
        BY <2>2, <2>4, <3>1, <3>3, <3>4, <4>2 DEF PieceInv
      <4> QED
        BY <4>1, <4>2
    <3> QED
      BY <3>4
  <2>9. \A z \in Zones, n \in Names : (Cached(z, n)' <=> Cached(z, n)) /\ (Has(z, n) => Has(z, n)')
    BY <2>4, <2>5 DEF Cached
  <2> QED
    BY <2>5, <2>7, <2>8, <2>9 DEF PieceInv
<1> QED
  BY <1>1, <1>2, <1>3, <1>4, <1>5, <1>6, StillKinds DEF PieceInv

LEMMA OnePiece ==
    ASSUME IInv, KeptInv, PieceInv
    PROVE  OneStoragePerName
<1> SUFFICES ASSUME NEW n \in Names, NEW y \in Zones, NEW z \in Zones, Has(y, n), Has(z, n)
             PROVE  y = z
  BY DEF OneStoragePerName
<1> DEFINE Held(w, x) == local[w].name = n /\ local[w].zone = x /\ Saved(w)
<1>1. /\ Cached(y, n) \/ \E w \in Workers : Held(w, y)
      /\ Cached(z, n) \/ \E w \in Workers : Held(w, z)
  BY DEF PieceInv
<1>2. ASSUME NEW w \in Workers, NEW x \in Zones, Held(w, x)
      PROVE  /\ cache[n] = local[w].entry /\ local[w].entry \in Entries
             /\ entryLock[local[w].entry] = w
             /\ csiVolume[local[w].entry] = None
  <2>1. pc[w] \in Critical
    BY <1>2 DEF Saved, Critical
  <2>2. local[w].entry \in Entries /\ local[w].entry # None
    BY <2>1, NoneAssumption DEF IInv, ThreadInv
  <2> QED
    BY <1>2, <2>1, <2>2 DEF IInv, LockInv, VacantInv, KeptInv
<1>3. CASE Cached(y, n) /\ Cached(z, n)
  BY <1>3 DEF Cached
<1>4. CASE Cached(y, n) /\ \E w \in Workers : Held(w, z)
  BY <1>2, <1>4 DEF Cached
<1>5. CASE Cached(z, n) /\ \E w \in Workers : Held(w, y)
  BY <1>2, <1>5 DEF Cached
<1>6. CASE (\E w \in Workers : Held(w, y)) /\ \E w \in Workers : Held(w, z)
  <2>1. PICK v \in Workers : Held(v, y)
    BY <1>6
  <2>2. PICK w \in Workers : Held(w, z)
    BY <1>6
  <2>3. v = w
    BY <1>2, <2>1, <2>2
  <2> QED
    BY <2>1, <2>2, <2>3
<1> QED
  BY <1>1, <1>3, <1>4, <1>5, <1>6

LEMMA PieceInit == Init => KeptInv /\ PieceInv
BY NoneAssumption DEF Init, KeptInv, PieceInv, Cached, Has, Saved, Blank

\* CreateVolume leaves at most one piece of storage per name, whichever zones
\* its threads try, are refused by and fall back to.
THEOREM OnePiecePerName ==
    ASSUME "delete" \notin Ops, ~CanRestart, ~Lossy
    PROVE  Spec => []OneStoragePerName
<1>1. IInv /\ KeptInv /\ PieceInv /\ [Next]_vars => KeptInv' /\ PieceInv'
  BY KeptStep, PieceStep
<1>2. IInv /\ KeptInv /\ PieceInv => OneStoragePerName
  BY OnePiece
<1> QED
  BY <1>1, <1>2, PieceInit, InitInv, StepInv, PTL DEF Spec

-----------------------------------------------------------------------------
(* The contract of CreateVolume *)

\* Only the management's answer to a save adds to the storage of a name.
LEMMA StorageSteps ==
    ASSUME IInv, KeptInv, PieceInv, [Next]_vars,
           "delete" \notin Ops, ~CanRestart, ~Lossy
    PROVE  \/ \A z \in Zones, n \in Names : Has(z, n)' <=> Has(z, n)
           \/ \E y \in Zones, m \in Names :
                 /\ ~Has(y, m) /\ Has(y, m)' /\ handedOut' = handedOut
                 /\ \A z \in Zones, n \in Names :
                       z # y \/ n # m => (Has(z, n)' <=> Has(z, n))
<1>1. CASE Still
  BY <1>1 DEF Still, Has
<1>2. ASSUME NEW w \in Workers,
             StartCreate(w) \/ CompareEqual(w) \/ Commit(w) \/ DeleteDone(w)
      PROVE  UNCHANGED stored
  BY <1>2 DEF StartCreate, CompareEqual, Commit, DeleteDone
<1>3. ASSUME NEW w \in Workers, Manage(w)
      PROVE  \/ \A z \in Zones, n \in Names : Has(z, n)' <=> Has(z, n)
             \/ /\ ~Has(local[w].zone, local[w].name)
                /\ stored'[local[w].zone][local[w].name] # 0
                /\ handedOut' = handedOut
                /\ \A z \in Zones, n \in Names :
                      z # local[w].zone \/ n # local[w].name => (Has(z, n)' <=> Has(z, n))
  <2>1. TypeOK /\ ThreadInv /\ pc[w] # "deleting"
    BY DEF IInv, KeptInv
  <2> QED
    BY <1>3, <2>1, ManageEffect DEF Has
<1>4. ASSUME NEW w \in Workers, Manage(w)
      PROVE  local[w].name \in Names /\ local[w].zone \in Zones
  BY <1>4, ManageEffect DEF IInv
<1>5. TypeOK /\ ThreadInv /\ late = {}
  BY DEF IInv, PieceInv
<1> QED
  BY <1>1, <1>2, <1>3, <1>4, <1>5, StillKinds DEF Has

LEMMA AnswerSteps ==
    ASSUME IInv, KeptInv, PieceInv, [Next]_vars
    PROVE  \/ handedOut' = handedOut
           \/ \E m \in Names, y \in Zones :
                 /\ Has(y, m) /\ UNCHANGED stored
                 /\ handedOut' = handedOut \cup {[name |-> m, zone |-> y]}
<1>1. ASSUME NEW w \in Workers, Commit(w)
      PROVE  \/ handedOut' = handedOut
             \/ \E m \in Names, y \in Zones :
                   /\ Has(y, m) /\ UNCHANGED stored
                   /\ handedOut' = handedOut \cup {[name |-> m, zone |-> y]}
  <2>1. /\ local[w].name \in Names /\ local[w].zone \in Zones
        /\ stored[local[w].zone][local[w].name] # 0
        /\ UNCHANGED stored
        /\ handedOut' \in {handedOut, handedOut \cup
                                    {[name |-> local[w].name, zone |-> local[w].zone]}}
    BY <1>1 DEF Commit, Saved, PieceInv, IInv, ThreadInv, Answer, IdOf, Has
  <2> QED
    BY <2>1 DEF Has
<1>2. ASSUME NEW w \in Workers, Leaves(w)
      PROVE  \/ handedOut' = handedOut
             \/ \E m \in Names, y \in Zones :
                   /\ Has(y, m) /\ UNCHANGED stored
                   /\ handedOut' = handedOut \cup {[name |-> m, zone |-> y]}
  <2>1. CASE ReturnCached(w)
    <3>1. PICK n \in Names, v \in Volume :
            /\ Cached(v.zone, n) /\ v.name = n
            /\ handedOut' \in {handedOut, handedOut \cup {IdOf(v)}}
      BY <2>1, AnsweredFromCache DEF Cached
    <3>2. v.zone \in Zones
      BY DEF Volume
    <3>3. Has(v.zone, n)
      BY <3>1, <3>2 DEF PieceInv
    <3> QED
      BY <2>1, <3>1, <3>2, <3>3 DEF ReturnCached, IdOf
  <2> QED
    BY <1>2, <2>1 DEF Leaves
<1>3. Quiet => handedOut' = handedOut
  BY DEF Quiet
<1>4. Restart => handedOut' = handedOut
  BY DEF Restart
<1>5. ASSUME NEW w \in Workers,
             StartCreate(w) \/ EnterCreate(w) \/ DeleteDone(w) \/ StartsOther(w)
      PROVE  handedOut' = handedOut
  BY <1>5 DEF StartCreate, EnterCreate, DeleteDone, StartsOther
<1> QED
  BY <1>1, <1>2, <1>3, <1>4, <1>5, StepKinds DEF IInv

storageBar == [n \in Names |-> {z \in Zones : Has(z, n)}]
answeredBar == [n \in Names |-> {z \in Zones : [name |-> n, zone |-> z] \in handedOut}]

LEMMA ContractStep ==
    ASSUME IInv, KeptInv, PieceInv, [Next]_vars, OneStoragePerName',
           "delete" \notin Ops, ~CanRestart, ~Lossy
    PROVE  [Contract!Next]_<<storageBar, answeredBar>>
<1>1. CASE \E y \in Zones, m \in Names :
              /\ ~Has(y, m) /\ Has(y, m)' /\ handedOut' = handedOut
              /\ \A z \in Zones, n \in Names :
                    z # y \/ n # m => (Has(z, n)' <=> Has(z, n))
  <2>1. PICK y \in Zones, m \in Names :
          /\ ~Has(y, m) /\ Has(y, m)' /\ handedOut' = handedOut
          /\ \A z \in Zones, n \in Names : z # y \/ n # m => (Has(z, n)' <=> Has(z, n))
    BY <1>1
  <2>2. \A z \in Zones : Has(z, m)' => z = y
    BY <2>1 DEF OneStoragePerName
  <2>3. storageBar[m] = {}
    BY <2>1, <2>2 DEF storageBar
  <2>4. storageBar' = [storageBar EXCEPT ![m] = {y}]
    <3>1. \A n \in Names : storageBar'[n] = IF n = m THEN {y} ELSE storageBar[n]
      BY <2>1, <2>2 DEF storageBar
    <3> QED
      BY <3>1 DEF storageBar
  <2>5. answeredBar' = answeredBar
    BY <2>1 DEF answeredBar
  <2>6. Contract!Provision(m, y)
    BY <2>3, <2>4, <2>5 DEF Contract!Provision, storageBar, answeredBar
  <2> QED
    BY <2>6 DEF Contract!Next
<1>2. CASE (\A z \in Zones, n \in Names : Has(z, n)' <=> Has(z, n)) /\ handedOut' = handedOut
  BY <1>2 DEF storageBar, answeredBar
<1>3. ASSUME NEW m \in Names, NEW y \in Zones, Has(y, m), UNCHANGED stored,
             handedOut' = handedOut \cup {[name |-> m, zone |-> y]}
      PROVE  Contract!Next
  <2>1. y \in storageBar[m]
    BY <1>3 DEF storageBar
  <2>2. answeredBar' = [answeredBar EXCEPT ![m] = @ \cup {y}]
    <3>1. \A n \in Names, z \in Zones :
             [name |-> n, zone |-> z] \in handedOut' <=>
               [name |-> n, zone |-> z] \in handedOut \/ (n = m /\ z = y)
      BY <1>3
    <3>2. \A n \in Names : answeredBar'[n] = IF n = m THEN answeredBar[n] \cup {y}
                                                     ELSE answeredBar[n]
      BY <1>3, <3>1 DEF answeredBar
    <3> QED
      BY <1>3, <3>2 DEF answeredBar
  <2>3. storageBar' = storageBar
    BY <1>3 DEF storageBar, Has
  <2>4. Contract!Answer(m, y)
    BY <2>1, <2>2, <2>3 DEF Contract!Answer, storageBar, answeredBar
  <2> QED
    BY <2>4 DEF Contract!Next
<1>4. UNCHANGED stored => \A z \in Zones, n \in Names : Has(z, n)' <=> Has(z, n)
  BY DEF Has
<1> QED
  BY <1>1, <1>2, <1>3, <1>4, StorageSteps, AnswerSteps

\* While nothing is lost, deleted or restarted, CreateVolume keeps its contract:
\* a name is given one piece of storage, and each answer names its zone.
THEOREM ContractKept ==
    ASSUME "delete" \notin Ops, ~CanRestart, ~Lossy
    PROVE  Spec => ImplementsContract
<1>1. Init => Contract!Init
  BY DEF Init, Contract!Init, Has
<1>2. IInv /\ KeptInv /\ PieceInv /\ [Next]_vars => KeptInv' /\ PieceInv'
  BY KeptStep, PieceStep
<1>3. IInv /\ KeptInv /\ PieceInv => OneStoragePerName
  BY OnePiece
<1>4. IInv /\ KeptInv /\ PieceInv /\ OneStoragePerName' /\ [Next]_vars
      => [Contract!Next]_<<storageBar, answeredBar>>
  BY ContractStep
<1> QED
  BY <1>1, <1>2, <1>3, <1>4, PieceInit, InitInv, StepInv, PTL
  DEF Spec, ImplementsContract, Contract!Spec, storageBar, answeredBar

-----------------------------------------------------------------------------
(* Deletions, while no request is lost *)

LEMMA SoundStep ==
    ASSUME IInv, SoundInv, [Next]_vars, ~CanRestart, ~Lossy
    PROVE  SoundInv'
<1> USE DEF IInv
<1>1. CASE Still
  <2>1. \A z \in Zones, n \in Names : Present(z, n) => Present(z, n)'
    BY <1>1 DEF Still, Present, Has, Removing, Same
  <2>2. \A z \in Zones, n \in Names : Trusts(z, n)' => Trusts(z, n)
    BY <1>1 DEF Still, Trusts, Cached, Same
  <2> QED
    BY <1>1, <2>1, <2>2 DEF SoundInv, Still
<1>2. ASSUME NEW w \in Workers, StartCreate(w) PROVE SoundInv'
  <2>1. PICK n \in Names, e \in Entries :
          /\ \A x \in Workers : x # w => local'[x] = local[x]
          /\ pc[w] = "idle" /\ pc' = [pc EXCEPT ![w] = "lock"]
          /\ UNCHANGED <<http, stored, late>>
          /\ \/ UNCHANGED <<cache, csiVolume>>
             \/ /\ ~Live(e) /\ cache' = [cache EXCEPT ![n] = e]
                /\ csiVolume' = [csiVolume EXCEPT ![e] = None]
    BY <1>2 DEF StartCreate, Goto
  <2>2. \A x \in Workers : /\ Found(x)' => x # w /\ Found(x)
                           /\ Removing(x) => x # w /\ Removing(x)'
    BY <2>1 DEF Found, Removing, TypeOK
  <2>3. \A z \in Zones, m \in Names : Present(z, m) => Present(z, m)'
    BY <2>1, <2>2 DEF Present, Has, Removing
  <2>4. CASE UNCHANGED <<cache, csiVolume>>
    <3>1. \A z \in Zones, m \in Names : Trusts(z, m)' => Trusts(z, m)
      BY <2>1, <2>2, <2>4 DEF Trusts, Cached
    <3> QED
      BY <2>1, <2>3, <3>1 DEF SoundInv
  <2>5. CASE /\ ~Live(e) /\ cache' = [cache EXCEPT ![n] = e]
             /\ csiVolume' = [csiVolume EXCEPT ![e] = None]
    <3>1. /\ cache'[n] = e /\ csiVolume'[e] = None
          /\ \A x \in Workers : local[x].entry # e
          /\ \A m \in Names : m # n => cache'[m] = cache[m]
          /\ \A m \in Names : cache[m] # None => csiVolume'[cache[m]] = csiVolume[cache[m]]
      BY <2>5 DEF Live, TypeOK
    <3>2. \A z \in Zones, m \in Names : Trusts(z, m)' => Trusts(z, m)
      BY <2>1, <2>2, <3>1 DEF Trusts, Cached
    <3> QED
      BY <2>1, <2>3, <3>2 DEF SoundInv
  <2> QED
    BY <2>1, <2>4, <2>5
<1>3. ASSUME NEW w \in Workers, CompareEqual(w) PROVE SoundInv'
  <2>1. \A x \in Workers : (Found(x)' <=> Found(x)) /\ (Removing(x)' <=> Removing(x))
    BY <1>3 DEF CompareEqual, Goto, Found, Removing, TypeOK
  <2>2. \A z \in Zones, m \in Names : /\ Present(z, m) => Present(z, m)'
                                      /\ Trusts(z, m)' => Trusts(z, m)
    BY <1>3, <2>1 DEF CompareEqual, driver, Present, Has, Trusts, Cached, Removing
  <2> QED
    BY <1>3, <2>2 DEF CompareEqual, SoundInv
<1>4. ASSUME NEW w \in Workers, Commit(w) PROVE SoundInv'
  <2> DEFINE e == local[w].entry
             v == [name |-> local[w].name, zone |-> local[w].zone,
                   capacity |-> local[w].capacity]
  <2>1. /\ Found(w) /\ e \in Entries /\ v.zone = local[w].zone
        /\ UNCHANGED <<cache, stored, late>>
        /\ csiVolume' = [csiVolume EXCEPT ![e] = v]
        /\ \A x \in Workers : x # w => local'[x] = local[x]
        /\ pc' = [pc EXCEPT ![w] = "idle"] /\ http' = [http EXCEPT ![w] = "none"]
    BY <1>4 DEF Commit, Return, Goto, Http, Found, ThreadInv, Critical
  <2>2. csiVolume'[e] = v /\ \A f \in Entries : f # e => csiVolume'[f] = csiVolume[f]
    BY <2>1 DEF TypeOK
  <2>3. \A x \in Workers : /\ Found(x)' => x # w /\ Found(x)
                           /\ Removing(x) => x # w /\ Removing(x)'
    BY <1>4, <2>1 DEF Commit, Found, Removing, TypeOK
  <2>4. \A z \in Zones, m \in Names : Present(z, m) => Present(z, m)'
    BY <2>1, <2>3 DEF Present, Has, Removing
  <2> HIDE DEF v
  <2>5. ASSUME NEW z \in Zones, NEW m \in Names, Trusts(z, m)' PROVE Trusts(z, m)
    <3>1. CASE csiVolume'[cache[m]] # None /\ csiVolume'[cache[m]].zone = z
      <4>1. cache[m] \in Entries
        BY <2>1, <2>5 DEF Trusts, Cached, TypeOK
      <4>2. CASE cache[m] = e
        BY <2>1, <2>2, <2>5, <3>1, <4>2 DEF Trusts, Cached
      <4>3. CASE cache[m] # e
        BY <2>1, <2>2, <2>5, <3>1, <4>1, <4>3 DEF Trusts, Cached
      <4> QED
        BY <4>2, <4>3
    <3>2. CASE \E x \in Workers : local'[x].entry = cache[m] /\ Found(x)' /\ local'[x].zone = z
      BY <2>1, <2>3, <2>5, <3>2 DEF Trusts, Cached
    <3> QED
      BY <2>1, <2>5, <3>1, <3>2 DEF Trusts, Cached
  <2> QED
    BY <2>1, <2>4, <2>5 DEF SoundInv
<1>5. ASSUME NEW w \in Workers, DeleteDone(w) PROVE SoundInv'
  <2>1. /\ cache' = [cache EXCEPT ![local[w].name] = None]
        /\ UNCHANGED <<csiVolume, stored, late>>
        /\ \A x \in Workers : x # w => local'[x] = local[x]
        /\ pc[w] = "deleting" /\ local[w].name \in Names
        /\ pc' = [pc EXCEPT ![w] = "idle"] /\ http' = [http EXCEPT ![w] = "none"]
    BY <1>5 DEF DeleteDone, Return, Goto, Http, ThreadInv
  <2>2. \A x \in Workers : /\ Found(x)' => x # w /\ Found(x)
                           /\ x # w => (Removing(x)' <=> Removing(x))
    BY <2>1 DEF Found, Removing, TypeOK
  <2>3. \A z \in Zones, m \in Names : m # local[w].name /\ Present(z, m) => Present(z, m)'
    BY <2>1, <2>2 DEF Present, Has, Removing
  <2>4. \A m \in Names : cache'[m] # None => m # local[w].name /\ cache'[m] = cache[m]
    BY <2>1 DEF TypeOK
  <2>5. \A z \in Zones, m \in Names : Trusts(z, m)' => m # local[w].name /\ Trusts(z, m)
    BY <2>1, <2>2, <2>4 DEF Trusts, Cached
  <2> QED
    BY <2>1, <2>3, <2>5 DEF SoundInv
<1>6. ASSUME NEW w \in Workers, Manage(w) PROVE SoundInv'
  <2>1. /\ UNCHANGED <<cache, csiVolume, pc, local, late>>
        /\ \A x \in Workers : x # w => http'[x] = http[x]
        /\ http[w] = "sent" /\ pc[w] \in {"saving", "deleting", "extending"}
        /\ local[w].name \in Names /\ local[w].zone \in Zones
        /\ \A y \in Zones, m \in Names :
              y # local[w].zone \/ m # local[w].name => stored'[y][m] = stored[y][m]
    BY <1>6, ManageEffect
  <2>2. \A x \in Workers : /\ Removing(x) => Removing(x)' /\ x # w
                           /\ x # w => (Found(x)' <=> Found(x))
    BY <2>1 DEF Found, Removing
  <2>3. ASSUME NEW z \in Zones, NEW m \in Names, Has(z, m), ~Has(z, m)'
        PROVE  z = local[w].zone /\ m = local[w].name /\ Removing(w)'
    <3>1. z = local[w].zone /\ m = local[w].name
      BY <2>1, <2>3 DEF Has
    <3> QED
      BY <1>6, <2>1, <2>3, <3>1, ManageEffect DEF Has, Removing
  <2>4. \A z \in Zones, m \in Names : Present(z, m) => Present(z, m)'
    BY <2>1, <2>2, <2>3 DEF Present, Removing
  <2>5. Found(w)' => stored'[local[w].zone][local[w].name] # 0
    BY <1>6, <2>1, ManageEffect DEF Found
  <2>6. ASSUME NEW z \in Zones, NEW m \in Names, Trusts(z, m)'
        PROVE  Trusts(z, m) \/ Has(z, m)'
    <3>1. CASE /\ local[w].entry = cache[m] /\ Found(w)' /\ local[w].zone = z
      <4>1. local[w].name = m
        BY <2>1, <2>6, <3>1 DEF CacheInv, Trusts, Cached
      <4> QED
        BY <2>5, <3>1, <4>1 DEF Has
    <3>2. CASE ~(local[w].entry = cache[m] /\ Found(w)' /\ local[w].zone = z)
      BY <2>1, <2>2, <2>6, <3>2 DEF Trusts, Cached
    <3> QED
      BY <3>1, <3>2
  <2> QED
    BY <2>1, <2>4, <2>6 DEF SoundInv, Present
<1> QED
  BY <1>1, <1>2, <1>3, <1>4, <1>5, <1>6, StillKinds DEF SoundInv

\* Although DeleteVolume takes no lock, the cache answers for a volume that is
\* gone at most while its own DeleteVolume has not returned yet.
THEOREM CacheNeverStale ==
    ASSUME ~CanRestart, ~Lossy
    PROVE  Spec => []CacheSound
<1>1. Init => SoundInv
  BY DEF Init, SoundInv, Trusts, Cached
<1>2. IInv /\ SoundInv /\ [Next]_vars => SoundInv'
  BY SoundStep
<1>3. IInv /\ SoundInv => CacheSound
  <2> SUFFICES ASSUME IInv, SoundInv, NEW n \in Names,
                      cache[n] # None, csiVolume[cache[n]] # None,
                      NEW z \in Zones, csiVolume[cache[n]].zone = z
               PROVE  Present(z, n)
    BY DEF CacheSound, Present, IInv, TypeOK, Volume, Has
  <2> QED
    BY DEF SoundInv, Trusts, Cached
<1> QED
  BY <1>1, <1>2, <1>3, InitInv, StepInv, PTL DEF Spec
=============================================================================
