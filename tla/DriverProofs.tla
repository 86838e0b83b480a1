---------------------------- MODULE DriverProofs ----------------------------
(* Proofs about the controller's process, for any number of threads, servers, *)
(* retries and events, and for any matrix.                                    *)
EXTENDS Driver, TLAPS

-----------------------------------------------------------------------------
(* Versions *)

\* compare is the order in which the first part that differs decides
\* (semver.py:38).
THEOREM CompareOrders ==
    ASSUME NEW a \in Version, NEW b \in Version
    PROVE  /\ compare(a, b) < 0 <=> Before(a, b)
           /\ compare(a, b) = 0 <=> a = b
           /\ compare(a, b) > 0 <=> Before(b, a)
  <1>1. PICK a1 \in Nat, a2 \in Nat, a3 \in Nat : a = <<a1, a2, a3>> BY DEF Version
  <1>2. PICK b1 \in Nat, b2 \in Nat, b3 \in Nat : b = <<b1, b2, b3>> BY DEF Version
  <1>3. \A u, v : Before(u, v) <=> \/ u[1] < v[1]
                                   \/ u[1] = v[1] /\ u[2] < v[2]
                                   \/ u[1] = v[1] /\ u[2] = v[2] /\ u[3] < v[3]
    BY DEF Before
  <1> QED BY <1>1, <1>2, <1>3 DEF compare

\* A constraint accepts the versions its comparator says (semver.py:91).
THEOREM ConstraintMeets ==
    ASSUME NEW c \in SemVerConstraint, NEW v \in Version
    PROVE  is_valid(c, v) <=> Meets(c, v)
  <1>1. /\ c.semver \in Version
        /\ c.comparator \in Comparator
    BY DEF SemVerConstraint
  <1>2. compare(v, c.semver) \in Int
    <2>1. \A u \in Version : u[1] \in Nat /\ u[2] \in Nat /\ u[3] \in Nat BY DEF Version
    <2> QED BY <1>1, <2>1 DEF compare
  <1>3. /\ compare(v, c.semver) < 0 <=> Before(v, c.semver)
        /\ compare(v, c.semver) = 0 <=> v = c.semver
        /\ compare(v, c.semver) > 0 <=> Before(c.semver, v)
    BY <1>1, CompareOrders
  <1> HIDE DEF Before, compare
  <1>4. CASE c.comparator = "<" BY <1>2, <1>3, <1>4 DEF is_valid, Meets
  <1>5. CASE c.comparator = "<=" BY <1>2, <1>3, <1>5 DEF is_valid, Meets
  <1>6. CASE c.comparator = "=" BY <1>2, <1>3, <1>6 DEF is_valid, Meets
  <1>7. CASE c.comparator = ">=" BY <1>2, <1>3, <1>7 DEF is_valid, Meets
  <1>8. CASE c.comparator = ">" BY <1>2, <1>3, <1>8 DEF is_valid, Meets
  <1> QED BY <1>1, <1>4, <1>5, <1>6, <1>7, <1>8 DEF Comparator

-----------------------------------------------------------------------------
(* The pool *)

\* The thread that creates an API holds the zone's lock, and there is none yet.
PoolInv ==
    /\ phase \in [Thread -> Phase]
    /\ \A t \in Handler : phase[t] \in {"login", "dbUUID"} => lock = t /\ ~pooled

LEMMA TurnedAlone ==
    ASSUME PoolInv, NEW t \in Thread, NEW p \in Phase, Turned(t, p)
    PROVE  /\ phase' \in [Thread -> Phase] /\ phase'[t] = p
           /\ \A u \in Thread \ {t} : phase'[u] = phase[u]
  BY DEF PoolInv, Turned

\* A thread goes on to a phase that creates no API, with the lock left alone.
LEMMA Leaves ==
    ASSUME PoolInv, NEW t \in Thread, NEW p \in Phase, Turned(t, p),
           p \notin {"login", "dbUUID"} \/ t = Main, UNCHANGED <<pooled, lock>>
    PROVE  PoolInv'
  BY TurnedAlone DEF PoolInv, Handler

LEMMA PoolInit == Init => PoolInv
  BY DEF Init, PoolInv, Handler, Phase

LEMMA PoolStep ==
    ASSUME PoolInv, [Next]_vars
    PROVE  PoolInv'
  <1> USE DriverAssumption
  <1>1. CASE Start BY <1>1, Leaves DEF Start, Connect, Phase
  <1>2. CASE Identified BY <1>2, Leaves DEF Identified, Ask, Phase
  <1>3. CASE Reached BY <1>3, Leaves DEF Reached, Ask, Phase
  <1>4. CASE NotConnected
    BY <1>4, Leaves DEF NotConnected, TryAgain, Ends, Phase
  <1>5. CASE Validate BY <1>5, Leaves DEF Validate, Ends, Phase
  <1>6. CASE Restart BY <1>6, Leaves DEF Restart, Phase
  <1>7. ASSUME NEW t \in Thread, Connecting(t) PROVE PoolInv'
    BY <1>7 DEF PoolInv, Connecting, driver
  <1>8. ASSUME NEW t \in Thread, Login(t) PROVE PoolInv'
    <2>1. phase[t] = "login" BY <1>8 DEF Login, Gave
    <2>2. Turned(t, "dbUUID") /\ UNCHANGED <<pooled, lock>> BY <1>8 DEF Login, Ask
    <2> QED BY <2>1, <2>2, TurnedAlone DEF PoolInv, Handler, Phase
  <1>9. ASSUME NEW t \in Handler, Call(t) PROVE PoolInv'
    BY <1>9, Leaves DEF Call, Handler, Phase
  <1>10. ASSUME NEW t \in Handler, Pool(t) PROVE PoolInv'
    <2>1. CASE pooled
      BY <1>10, <2>1, Leaves DEF Pool, Ask, Handler, Phase
    <2>2. CASE ~pooled
      <3>1. Turned(t, "login") /\ lock' = t /\ lock = None /\ pooled' = pooled
        BY <1>10, <2>2 DEF Pool, Connect
      <3>2. \A u \in Handler : phase[u] \notin {"login", "dbUUID"}
        BY <3>1, ConnectionAssumption DEF PoolInv, Handler
      <3> QED BY <2>2, <3>1, <3>2, TurnedAlone DEF PoolInv, Handler, Phase
    <2> QED BY <2>1, <2>2
  <1>11. ASSUME NEW t \in Handler, Pooled(t) \/ NoApi(t) PROVE PoolInv'
    <2>1. phase[t] \in {"login", "dbUUID"} BY <1>11 DEF Pooled, NoApi, Gave
    <2>2. \A u \in Handler \ {t} : phase[u] \notin {"login", "dbUUID"}
      BY <2>1 DEF PoolInv
    <2>3. Turned(t, "call") \/ Turned(t, "idle")
      BY <1>11 DEF Pooled, NoApi, Ask, Ends
    <2> QED BY <2>2, <2>3, TurnedAlone DEF PoolInv, Handler, Phase
  <1>12. ASSUME NEW t \in Handler, Answer(t) PROVE PoolInv'
    BY <1>12, Leaves DEF Answer, Ends, Handler, Phase
  <1>13. CASE Management BY <1>13 DEF Management, PoolInv
  <1>14. CASE UNCHANGED vars BY <1>14 DEF vars, driver, PoolInv
  <1> QED
    BY <1>1, <1>2, <1>3, <1>4, <1>5, <1>6, <1>7, <1>8, <1>9, <1>10, <1>11, <1>12,
       <1>13, <1>14
    DEF Next, StartUp, Handle

\* Never do two handlers create the API of a zone, nor one while there is one
\* (topology_utils.py:170).
THEOREM OneApiAtATime == Spec => []OneApi
  <1>1. PoolInv => OneApi BY DEF PoolInv, OneApi
  <1> QED BY <1>1, PoolInit, PoolStep, PTL DEF Spec

-----------------------------------------------------------------------------
(* The compatibility matrix *)

CompatibleInv ==
    /\ phase \in [Thread -> Phase] /\ version \in Versions
    /\ OnlyCompatible

LEMMA RangeMeets ==
    ASSUME NEW range \in SUBSET SemVerConstraint, NEW v \in Version
    PROVE  InRange(range, v) <=> \A c \in range : Meets(c, v)
  BY ConstraintMeets DEF InRange

LEMMA CompatibleInit == Init => CompatibleInv
  BY DriverAssumption DEF Init, CompatibleInv, OnlyCompatible, serving, Phase

LEMMA CompatibleStep ==
    ASSUME CompatibleInv, PoolInv', [Next]_vars
    PROVE  CompatibleInv'
  <1> USE DriverAssumption
  <1>1. version' = version
    BY DEF Next, StartUp, Start, Identified, Reached, NotConnected, TryAgain, Validate, Restart,
           Connecting, Login, Call, Handle, Pool, Pooled, NoApi, Answer, Management, vars, driver
  <1>2. ASSUME serving', ~serving PROVE Validate
    <2>1. ASSUME NEW t \in Handler PROVE t # Main BY DEF Handler
    <2>2. \A t \in Thread : \A p : Turned(t, p) =>
             phase'[Main] = IF t = Main THEN p ELSE phase[Main]
      BY DEF Turned, CompatibleInv
    <2>3. ~Start /\ ~Identified /\ ~Reached /\ ~Restart
      BY <1>2, <2>2 DEF Start, Identified, Reached, Restart, Connect, Ask, serving
    <2>4. ~NotConnected BY <1>2, <2>2 DEF NotConnected, TryAgain, Ends, serving
    <2>5. \A t \in Thread : ~Connecting(t) /\ ~Login(t)
      BY <1>2, <2>2 DEF Connecting, Login, Ask, driver, serving
    <2>6. \A t \in Handler : ~Call(t) /\ ~Pool(t)
      BY <1>2, <2>1, <2>2 DEF Call, Pool, Connect, Ask, serving, Handler
    <2>7. \A t \in Handler : ~Pooled(t) /\ ~NoApi(t) /\ ~Answer(t)
      BY <1>2, <2>1, <2>2 DEF Pooled, NoApi, Answer, Ask, Ends, serving, Handler
    <2>8. ~Management /\ ~UNCHANGED vars BY <1>2 DEF Management, vars, driver, serving
    <2> QED BY <2>3, <2>4, <2>5, <2>6, <2>7, <2>8 DEF Next, StartUp, Handle
  <1>3. CASE serving /\ serving'
    BY <1>1, <1>3 DEF CompatibleInv, PoolInv, OnlyCompatible, Suits, Supported
  <1>4. CASE ~serving'
    BY <1>1, <1>4 DEF CompatibleInv, PoolInv, OnlyCompatible
  <1>5. CASE serving' /\ ~serving
    <2>1. Validate BY <1>2, <1>5
    <2>2. PICK valid \in Verdicts : Ends(Main, IF valid THEN "serve" ELSE "dead")
      BY <2>1 DEF Validate
    <2>3. valid BY <1>5, <2>2 DEF Ends, Turned, CompatibleInv, serving
    <2>4. PICK e \in Matrix : InRange(e.csi, DriverVersion) /\ InRange(e.nvmesh, version)
      BY <2>3 DEF Verdicts
    <2>5. /\ e.csi \in SUBSET SemVerConstraint /\ e.nvmesh \in SUBSET SemVerConstraint
          /\ version \in Version
      BY DEF CompatibleInv
    <2>6. Supported(e) /\ Suits(e) BY <2>4, <2>5, RangeMeets DEF Supported, Suits
    <2>7. Suits(e)' BY <1>1, <2>6 DEF Suits
    <2> QED BY <1>1, <2>6, <2>7 DEF CompatibleInv, PoolInv, OnlyCompatible
  <1> QED BY <1>3, <1>4, <1>5

\* The driver serves only with a management that its matrix allows, whatever the
\* matrix and the versions are (version_compatibility.py:61).
THEOREM ServesCompatible == Spec => []OnlyCompatible
  <1>1. CompatibleInv => OnlyCompatible BY DEF CompatibleInv
  <1> QED BY <1>1, PoolInit, PoolStep, CompatibleInit, CompatibleStep, PTL DEF Spec

=============================================================================
