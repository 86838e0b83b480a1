------------------------- MODULE TopologyGrowProofs -------------------------
(* The ConfigMap never loses a node that stays, and gets every node.          *)
EXTENDS TopologyListenProofs

USE DEF topology, threads, saving, service, outside

\* The zones stay as they are, no two share a management, every node belongs
\* to one management at most, and the controller runs on.
Settlement ==
    /\ MaxChanges = 0 /\ ~CanRestart
    /\ \A c \in Configs : \A y, z \in Zone : c[y] = c[z] /\ c[y] # None => y = z
    /\ \A n \in Node, l, m \in Management : <<n, l>> \in Homes /\ <<n, m>> \in Homes => l = m

\* The nodes that are at home in a zone.
HomeOf(z) == {n \in Node : <<n, config[z]>> \in Homes}

-----------------------------------------------------------------------------
(* What a thread may add *)

LEMMA HomeInit == Init => HomeInv /\ GrowInv
BY DEF Init, HomeInv, EventsInv, FetchedInv, ClientsInv, MembersInv, GrowInv, NoFetch,
   Waiting, Nobody

\* add_nodes_for_zone takes no node from another zone.
LEMMA AddGrows ==
    ASSUME TypeOK, StaticInv, Agreement, MembersInv, Settlement,
           NEW z \in Known, NEW ns \in SUBSET HomeOf(z), AddNodes(z, ns)
    PROVE  \A y \in Zone : /\ zones[y].nodes \subseteq zones'[y].nodes
                           /\ zones'[y].nodes \subseteq zones[y].nodes \cup HomeOf(y)
<1>1. z \in Zone /\ zones[z].management # None
  BY DEF Known
<1> DEFINE s == Moved(z, ns)
<1>2. s \subseteq HomeOf(z)
  BY DEF Moved
<1>3. Put(z, s)
  BY DEF AddNodes
<1> HIDE DEF s
<1>4. \A y \in Zone :
         zones'[y].nodes = IF y = z THEN zones[y].nodes \cup s
                           ELSE zones[y].nodes \ {n \in s : nodes[n] = y}
  BY <1>3 DEF TypeOK, ZoneInfo, Put
<1>5. ASSUME NEW y \in Zone, y # z, NEW n \in s PROVE nodes[n] # y
  <2>1. n \in Node /\ <<n, config[z]>> \in Homes
    BY <1>2 DEF HomeOf
  <2>2. SUFFICES ASSUME n \in zones[y].nodes PROVE FALSE
    BY <2>1 DEF Agreement
  <2>3. <<n, config[y]>> \in Homes
    BY <2>2 DEF MembersInv
  <2>4. config[y] \in Management /\ config[z] \in Management
    BY <2>1, <2>3, HomesAssumption
  <2>5. config[y] = config[z]
    BY <2>1, <2>3, <2>4 DEF Settlement
  <2>6. config[y] # None
    BY <2>4, NoneAssumption
  <2> QED
    BY <1>1, <1>5, <2>5, <2>6 DEF Settlement, StaticInv
<1> QED
  BY <1>1, <1>2, <1>4, <1>5

LEMMA StepGrows ==
    ASSUME TypeOK, ThreadInv, StaticInv, Agreement, HomeInv, Settlement,
           NEW f \in Fetcher, FetcherStep(f)
    PROVE  \A y \in Zone : /\ zones[y].nodes \ Leavers \subseteq zones'[y].nodes
                           /\ zones'[y].nodes \subseteq zones[y].nodes \cup HomeOf(y)
<1>1. fetchers[f].pc # "unused" => /\ fetchers[f].zone \in Known
                                   /\ fetchers[f].management = config[fetchers[f].zone]
  BY DEF StaticInv
<1>2. CASE OpenClient(f) \/ EndFetcher(f) \/ Connect(f) \/ Receive(f) \/ Disconnect(f)
           \/ StartFetch(f) \/ AnswerFetch(f) \/ ExitFetch(f) \/ RetryFetch(f)
  BY <1>2 DEF OpenClient, EndFetcher, Connect, Receive, Disconnect, StartFetch, AnswerFetch,
     ExitFetch, RetryFetch
<1>3. CASE HandleEvent(f) \/ EventRaises(f)
  <2>1. fetchers[f].pc = "received" /\ events[f] # <<>> /\ events[f] \in Seq(Event)
    BY <1>3 DEF HandleEvent, EventRaises, Received, ThreadInv, FetcherInv, TypeOK
  <2>2. Head(events[f]) = events[f][1] /\ 1 \in 1..Len(events[f]) /\ Head(events[f]) \in Event
    BY <2>1, HeadType
  <2>3. fetchers[f].zone \in Known
    BY <1>1, <2>1
  <2>4. CASE Head(events[f]).name = "newClientEvent"
    <3>1. Head(events[f]).node \in HomeOf(fetchers[f].zone)
      BY <1>1, <2>1, <2>2, <2>4 DEF HomeInv, EventsInv, HomeOf, Event
    <3>2. {Head(events[f]).node} \in SUBSET Node
      BY <3>1 DEF HomeOf
    <3>3. AddNodes(fetchers[f].zone, {Head(events[f]).node})
      BY <1>3, <2>3, <2>4, <3>1, <3>2, AddKeeps DEF HandleEvent, EventRaises, Received
    <3> QED
      BY <2>3, <3>1, <3>3, AddGrows DEF HomeInv
  <2>5. CASE Head(events[f]).name # "newClientEvent"
    <3>1. Head(events[f]).node \in Leavers
      BY <2>1, <2>2, <2>5 DEF HomeInv, EventsInv
    <3>2. RemoveNode(fetchers[f].zone, Head(events[f]).node)
      BY <1>3, <2>3, <2>5 DEF HandleEvent, EventRaises, Received
    <3>3. \A y \in Zone : /\ zones'[y].nodes \subseteq zones[y].nodes
                          /\ zones[y].nodes \ Leavers \subseteq zones'[y].nodes
      BY <3>1, <3>2 DEF RemoveNode, TypeOK, ZoneInfo
    <3> QED
      BY <3>3
  <2> QED
    BY <2>4, <2>5
<1>4. CASE AddFetched(f)
  <2>1. fetchers[f].pc # "unused"
    BY <1>4 DEF AddFetched, ThreadInv, FetcherInv
  <2>2. fetches[f].nodes \in SUBSET Node
    BY FetchFields DEF TypeOK
  <2>3. fetches[f].nodes \in SUBSET HomeOf(fetchers[f].zone)
    BY <1>1, <2>1, <2>2 DEF HomeInv, FetchedInv, HomeOf
  <2>4. AddNodes(fetchers[f].zone, fetches[f].nodes)
    BY <1>1, <1>4, <2>1, <2>2, AddKeeps DEF AddFetched
  <2> QED
    BY <1>1, <2>1, <2>3, <2>4, AddGrows DEF HomeInv
<1> QED
  BY <1>2, <1>3, <1>4 DEF FetcherStep, Listen, Fetch, Ask

-----------------------------------------------------------------------------
(* What a thread hears of and fetches *)

\* A thread's own steps forget events only.
LEMMA EventsStep ==
    ASSUME TypeOK, ThreadInv, NEW f \in Fetcher, FetcherStep(f) \/ MarkStep(f)
    PROVE  \A g \in Fetcher : \/ events'[g] = events[g] \/ events'[g] = <<>>
                              \/ events[g] # <<>> /\ events'[g] = Tail(events[g])
<1>1. CASE OpenClient(f) \/ EndFetcher(f) \/ Receive(f) \/ Fetch(f) \/ Ask(f) \/ MarkStep(f)
  BY <1>1 DEF OpenClient, EndFetcher, Connect, Receive, Fetch, Ask, StartFetch, AnswerFetch,
     ExitFetch, RetryFetch, AddFetched, MarkStep, MarkChange, MarkFetched
<1>2. CASE Disconnect(f) \/ EventRaises(f)
  BY <1>2 DEF Disconnect, EventRaises, Leave, TypeOK
<1>3. CASE HandleEvent(f)
  <2>1. events[f] # <<>>
    BY <1>3 DEF HandleEvent, Received, ThreadInv, FetcherInv
  <2> QED
    BY <1>3, <2>1 DEF HandleEvent, TypeOK
<1> QED
  BY <1>1, <1>2, <1>3 DEF FetcherStep, Listen, Ask

LEMMA FetchedStep ==
    ASSUME TypeOK, ThreadInv, NEW f \in Fetcher, FetcherStep(f) \/ MarkStep(f)
    PROVE  \A g \in Fetcher :
              \/ fetches'[g].nodes \subseteq fetches[g].nodes
              \/ /\ fetchers[g].management \in Management
                 /\ fetches'[g].nodes = clients[fetchers[g].management]
<1>1. CASE OpenClient(f) \/ EndFetcher(f) \/ Receive(f) \/ HandleEvent(f) \/ EventRaises(f)
           \/ Disconnect(f) \/ MarkChange(f)
  BY <1>1 DEF OpenClient, EndFetcher, Receive, HandleEvent, EventRaises, Disconnect,
     MarkChange
<1>2. CASE Connect(f)
  BY <1>2 DEF Connect, TypeOK, FetchState
<1>3. CASE StartFetch(f)
  BY <1>3 DEF StartFetch, TypeOK, FetchState
<1>4. CASE ExitFetch(f) \/ RetryFetch(f) \/ MarkFetched(f)
  <2>1. \E l \in FetchPc : fetches' = [fetches EXCEPT ![f].pc = l]
    BY <1>4 DEF ExitFetch, RetryFetch, MarkFetched, FetchPc
  <2> QED
    BY <2>1 DEF TypeOK, FetchState
<1>5. CASE AnswerFetch(f)
  <2>1. fetchers[f].management \in Management
    BY <1>5 DEF AnswerFetch, ThreadInv, FetcherInv
  <2> QED
    BY <1>5, <2>1 DEF AnswerFetch, TypeOK, FetchState
<1>6. CASE AddFetched(f)
  BY <1>6 DEF AddFetched, TypeOK, FetchState
<1> QED
  BY <1>1, <1>2, <1>3, <1>4, <1>5, <1>6 DEF FetcherStep, MarkStep, Listen, Fetch, Ask

LEMMA HomeThreadStep ==
    ASSUME TypeOK, ThreadInv, StaticInv, Agreement, HomeInv, Settlement,
           NEW f \in Fetcher, FetcherStep(f) \/ MarkStep(f)
    PROVE  HomeInv'
<1>1. UNCHANGED <<config, clients>>
  BY MarkEffect DEF FetcherStep, MarkStep, MarkChange, MarkFetched, Listen, Fetch, Ask,
     OpenClient, EndFetcher, Connect, Receive, HandleEvent, EventRaises, Disconnect,
     StartFetch, AnswerFetch, ExitFetch, RetryFetch, AddFetched
<1>2. \A g \in Fetcher : fetchers'[g].pc # "unused" =>
         fetchers[g].pc # "unused" /\ fetchers'[g].management = fetchers[g].management
  BY FetcherKept
<1>3. EventsInv'
  <2> SUFFICES ASSUME NEW g \in Fetcher, fetchers'[g].pc # "unused",
                      NEW i \in 1..Len(events'[g])
               PROVE  IF events'[g][i].name = "newClientEvent"
                      THEN <<events'[g][i].node, fetchers'[g].management>> \in Homes
                      ELSE events'[g][i].node \in Leavers
    BY DEF EventsInv
  <2>1. events[g] \in Seq(Event)
    BY DEF TypeOK
  <2>2. \E j \in 1..Len(events[g]) : events'[g][i] = events[g][j]
    <3>1. CASE events'[g] = events[g]
      BY <3>1
    <3>2. CASE events'[g] = <<>>
      BY <3>2
    <3>3. CASE events[g] # <<>> /\ events'[g] = Tail(events[g])
      <4>1. /\ Len(events'[g]) = Len(events[g]) - 1
            /\ events'[g][i] = events[g][i + 1]
        BY <2>1, <3>3, HeadTailProperties
      <4> QED
        BY <2>1, <4>1
    <3> QED
      BY <3>1, <3>2, <3>3, EventsStep
  <2> QED
    BY <1>2, <2>2 DEF HomeInv, EventsInv
<1>4. FetchedInv'
  BY <1>2, FetchedStep DEF HomeInv, FetchedInv, ClientsInv
<1>5. ClientsInv'
  BY <1>1 DEF HomeInv, ClientsInv
<1>6. MembersInv'
  <2>1. CASE MarkStep(f)
    BY <1>1, <2>1, MarkEffect DEF HomeInv, MembersInv
  <2>2. CASE FetcherStep(f)
    BY <1>1, <2>2, StepGrows DEF HomeInv, MembersInv, HomeOf
  <2> QED
    BY <2>1, <2>2
<1> QED
  BY <1>3, <1>4, <1>5, <1>6 DEF HomeInv

LEMMA HomeClientStep ==
    ASSUME TypeOK, HomeInv, NEW n \in Node, NEW m \in Management,
           ClientJoins(n, m) \/ ClientLeaves(n, m)
    PROVE  HomeInv'
<1>1. PICK e \in Event :
         /\ IF e.name = "newClientEvent" THEN <<e.node, m>> \in Homes
                                         ELSE e.node \in Leavers
         /\ Notify(m, e)
  <2>1. CASE ClientJoins(n, m)
    BY <2>1 DEF ClientJoins, Event
  <2>2. CASE ClientLeaves(n, m)
    BY <2>2 DEF ClientLeaves, Event
  <2> QED
    BY <2>1, <2>2
<1>2. \A f \in Fetcher : \/ events'[f] = events[f]
                         \/ fetchers[f].management = m /\ events'[f] = Append(events[f], e)
  BY <1>1 DEF Notify, Registered
<1>3. UNCHANGED <<fetchers, fetches, zones, config>>
  BY DEF ClientJoins, ClientLeaves
<1>4. EventsInv'
  <2> SUFFICES ASSUME NEW f \in Fetcher, fetchers[f].pc # "unused",
                      NEW i \in 1..Len(events'[f])
               PROVE  IF events'[f][i].name = "newClientEvent"
                      THEN <<events'[f][i].node, fetchers[f].management>> \in Homes
                      ELSE events'[f][i].node \in Leavers
    BY <1>3 DEF EventsInv
  <2>1. events[f] \in Seq(Event)
    BY DEF TypeOK
  <2>2. CASE events'[f] = events[f]
    BY <2>2 DEF HomeInv, EventsInv
  <2>3. CASE fetchers[f].management = m /\ events'[f] = Append(events[f], e)
    <3>1. /\ Len(events'[f]) = Len(events[f]) + 1
          /\ i \in 1..Len(events[f]) => events'[f][i] = events[f][i]
          /\ i = Len(events[f]) + 1 => events'[f][i] = e
      BY <1>1, <2>1, <2>3, AppendProperties
    <3>2. CASE i \in 1..Len(events[f])
      BY <3>1, <3>2 DEF HomeInv, EventsInv
    <3>3. CASE i = Len(events[f]) + 1
      BY <1>1, <2>3, <3>1, <3>3
    <3> QED
      BY <2>1, <3>1, <3>2, <3>3
  <2> QED
    BY <1>2, <2>2, <2>3
<1>5. FetchedInv' /\ MembersInv'
  BY <1>3 DEF HomeInv, FetchedInv, MembersInv
<1>6. ClientsInv'
  BY DEF ClientJoins, ClientLeaves, HomeInv, ClientsInv, TypeOK
<1> QED
  BY <1>4, <1>5, <1>6 DEF HomeInv

LEMMA HomeStep ==
    ASSUME TypeOK, ThreadInv, StaticInv, Agreement, HomeInv, Settlement, [Next]_vars
    PROVE  HomeInv'
<1>1. ASSUME UNCHANGED <<config, zones, fetchers, events, fetches, clients>> PROVE HomeInv'
  BY <1>1 DEF HomeInv, EventsInv, FetchedInv, ClientsInv, MembersInv
<1>2. ASSUME NEW f \in Fetcher, FetcherStep(f) \/ MarkStep(f) PROVE HomeInv'
  BY <1>2, HomeThreadStep
<1>3. CASE Save \/ WriteFails
  BY <1>1, <1>3 DEF Save, StartSave, WriteConfigMap, ReadZone, WriteFails
<1>4. ASSUME NEW n \in Node, NEW m \in Management, ClientJoins(n, m) \/ ClientLeaves(n, m)
      PROVE  HomeInv'
  BY <1>4, HomeClientStep
<1>5. ASSUME Stop \/ LeaveLoop \/ ShutDown PROVE HomeInv'
  <2>1. UNCHANGED <<config, zones, events, fetches, clients>>
    BY <1>5, ShutDownEffect
  <2>2. \A f \in Fetcher : /\ fetchers'[f].pc = fetchers[f].pc
                           /\ fetchers'[f].management = fetchers[f].management
    BY <1>5, ShutDownEffect
  <2> QED
    BY <2>1, <2>2 DEF HomeInv, EventsInv, FetchedInv, ClientsInv, MembersInv
<1>6. CASE UNCHANGED vars
  BY <1>1, <1>6 DEF vars
<1> QED
  BY <1>2, <1>3, <1>4, <1>5, <1>6, StaticSteps DEF Settlement, Restart

-----------------------------------------------------------------------------
(* What is saved *)

SavedNeverShrinks == \A z \in Zone : saved[z] \ Leavers \subseteq saved'[z]

LEMMA GrowSaveStep ==
    ASSUME TypeOK, StaticInv, GrowInv, Save \/ WriteFails
    PROVE  GrowInv' /\ SavedNeverShrinks
<1>1. CASE StartSave
  <2>1. /\ saver'.pc = "saving" /\ saver'.left = Known /\ saver'.snapshot = Nobody
        /\ UNCHANGED <<zones, saved>>
    BY <1>1 DEF StartSave
  <2>2. \A z \in Zone \ Known : saved[z] \ Leavers = {}
    BY DEF GrowInv, StaticInv
  <2> QED
    BY <2>1, <2>2 DEF GrowInv, SavedNeverShrinks, Nobody
<1>2. ASSUME NEW z \in Zone, ReadZone(z) PROVE GrowInv' /\ SavedNeverShrinks
  <2>1. /\ saver.pc = "saving" /\ saver'.pc = "saving"
        /\ saver'.left = saver.left \ {z}
        /\ \A y \in Zone : saver'.snapshot[y] = IF y = z THEN zones[z].nodes
                                                ELSE saver.snapshot[y]
        /\ UNCHANGED <<zones, saved>>
    BY <1>2 DEF ReadZone, GrowInv, TypeOK, SaverState
  <2> QED
    BY <2>1 DEF GrowInv, SavedNeverShrinks
<1>3. CASE WriteConfigMap \/ WriteFails
  <2>1. /\ saver.pc = "saving" /\ saver.left = {}
        /\ saver'.pc # "saving" /\ saver'.left = {}
        /\ zones' = zones /\ saved' \in {saved, saver.snapshot}
    BY <1>3 DEF WriteConfigMap, WriteFails, Waiting
  <2> QED
    BY <2>1 DEF GrowInv, SavedNeverShrinks
<1> QED
  BY <1>1, <1>2, <1>3 DEF Save

LEMMA GrowStep ==
    ASSUME TypeOK, ThreadInv, StaticInv, Agreement, HomeInv, GrowInv, Settlement, [Next]_vars
    PROVE  GrowInv' /\ SavedNeverShrinks
<1>1. ASSUME UNCHANGED <<saver, saved>>,
             \A z \in Zone : zones[z].nodes \ Leavers \subseteq zones'[z].nodes
      PROVE  GrowInv' /\ SavedNeverShrinks
  BY <1>1 DEF GrowInv, SavedNeverShrinks
<1>2. ASSUME NEW f \in Fetcher, FetcherStep(f) PROVE GrowInv' /\ SavedNeverShrinks
  <2>1. UNCHANGED <<saver, saved>>
    BY <1>2 DEF FetcherStep, Listen, Fetch, Ask, OpenClient, EndFetcher, Connect, Receive,
       HandleEvent, EventRaises, Disconnect, StartFetch, AnswerFetch, ExitFetch,
       RetryFetch, AddFetched
  <2> QED
    BY <1>1, <1>2, <2>1, StepGrows
<1>3. ASSUME NEW f \in Fetcher, MarkStep(f) PROVE GrowInv' /\ SavedNeverShrinks
  BY <1>1, <1>3, MarkEffect
<1>4. CASE Save \/ WriteFails
  BY <1>4, GrowSaveStep
<1>5. ASSUME NEW n \in Node, NEW m \in Management, ClientJoins(n, m) \/ ClientLeaves(n, m)
      PROVE  GrowInv' /\ SavedNeverShrinks
  BY <1>1, <1>5 DEF ClientJoins, ClientLeaves
<1>6. ASSUME Stop \/ LeaveLoop \/ ShutDown PROVE GrowInv' /\ SavedNeverShrinks
  <2>1. UNCHANGED <<zones, saved>>
    BY <1>6, ShutDownEffect
  <2>2. CASE saver' = saver
    BY <1>1, <2>1, <2>2
  <2>3. CASE saver.pc = "waiting" /\ saver' = [saver EXCEPT !.pc = "dead"]
    <3>1. saver'.pc = "dead" /\ saver'.left = {}
      BY <2>3 DEF TypeOK, SaverState, GrowInv
    <3> QED
      BY <2>1, <3>1 DEF GrowInv, SavedNeverShrinks
  <2> QED
    BY <1>6, <2>2, <2>3, ShutDownEffect
<1>7. CASE UNCHANGED vars
  BY <1>1, <1>7 DEF vars
<1> QED
  BY <1>2, <1>3, <1>4, <1>5, <1>6, <1>7, StaticSteps DEF Settlement, Restart

\* While the zones stay and the controller runs on, no write of the ConfigMap takes
\* a node out of it that stays, through lost connections, repeated fetches, writes
\* that fail half-way and other nodes that come and go (topology_service.py:172,
\* 209).
THEOREM SavedKept ==
    ASSUME Settlement
    PROVE  Spec => SavedGrows
<1> DEFINE IInv == TypeOK /\ ThreadInv /\ StaticInv /\ Agreement /\ HomeInv /\ GrowInv
<1>1. Init => IInv
  BY TypeInit, StaticInit, HomeInit
<1>2. IInv /\ [Next]_vars => IInv'
  BY TypeStep, StaticStep, HomeStep, GrowStep DEF Settlement
<1>3. IInv /\ [Next]_vars => [SavedNeverShrinks]_vars
  BY GrowStep
<1>4. SavedGrows <=> [][SavedNeverShrinks]_vars
  BY DEF SavedGrows, SavedNeverShrinks
<1> QED
  BY <1>1, <1>2, <1>3, <1>4, PTL DEF Spec

-----------------------------------------------------------------------------
(* Events under way *)

LEMMA TailHeard ==
    ASSUME NEW q \in Seq(Event), q # <<>>, NEW n
    PROVE  /\ Announced(q, n) => \/ Announced(Tail(q), n)
                                 \/ /\ Head(q) = [name |-> "newClientEvent", node |-> n]
                                    /\ Unmentioned(Tail(q), n)
           /\ Unmentioned(q, n) => Unmentioned(Tail(q), n) /\ Head(q).node # n
<1>1. /\ Len(Tail(q)) = Len(q) - 1 /\ Len(q) \in Nat /\ Len(q) > 0
      /\ \A i \in 1..Len(Tail(q)) : Tail(q)[i] = q[i + 1]
      /\ Head(q) = q[1]
  BY HeadTailProperties, EmptySeq, LenProperties
<1> DEFINE t == Tail(q)
<1> HIDE DEF t
<1>2. ASSUME Announced(q, n)
      PROVE  \/ Announced(t, n)
             \/ Head(q) = [name |-> "newClientEvent", node |-> n] /\ Unmentioned(t, n)
  <2>1. PICK i \in 1..Len(q) : /\ q[i] = [name |-> "newClientEvent", node |-> n]
                               /\ \A j \in i + 1..Len(q) : q[j].node # n
    BY <1>2 DEF Announced
  <2>2. \A j \in 1..Len(t) : t[j] = q[j + 1] /\ j + 1 \in 1..Len(q)
    BY <1>1 DEF t
  <2>3. CASE i = 1
    <3>1. \A j \in 1..Len(t) : j + 1 \in i + 1..Len(q)
      BY <1>1, <2>3 DEF t
    <3> QED
      BY <1>1, <2>1, <2>2, <2>3, <3>1 DEF Unmentioned
  <2>4. CASE i # 1
    <3>1. i - 1 \in 1..Len(t) /\ t[i - 1] = q[i]
      BY <1>1, <2>2, <2>4 DEF t
    <3>2. \A j \in (i - 1) + 1..Len(t) : j \in 1..Len(t) /\ j + 1 \in i + 1..Len(q)
      BY <1>1 DEF t
    <3> QED
      BY <2>1, <2>2, <3>1, <3>2 DEF Announced
  <2> QED
    BY <2>3, <2>4
<1>3. ASSUME Unmentioned(q, n) PROVE Unmentioned(t, n) /\ Head(q).node # n
  BY <1>1, <1>3 DEF Unmentioned, t
<1> QED
  BY <1>2, <1>3 DEF t

LEMMA AppendHeard ==
    ASSUME NEW q \in Seq(Event), NEW e \in Event, NEW n
    PROVE  /\ e = [name |-> "newClientEvent", node |-> n] => Announced(Append(q, e), n)
           /\ e.node # n => /\ Announced(q, n) => Announced(Append(q, e), n)
                            /\ Unmentioned(q, n) => Unmentioned(Append(q, e), n)
<1> DEFINE t == Append(q, e)
<1>1. /\ Len(t) = Len(q) + 1 /\ Len(q) \in Nat /\ t[Len(q) + 1] = e
      /\ \A i \in 1..Len(q) : t[i] = q[i]
  BY AppendProperties, LenProperties
<1> HIDE DEF t
<1>2. ASSUME e = [name |-> "newClientEvent", node |-> n] PROVE Announced(t, n)
  <2>1. Len(t) \in 1..Len(t) /\ t[Len(t)] = e /\ Len(t) + 1..Len(t) = {}
    BY <1>1
  <2> QED
    BY <1>2, <2>1 DEF Announced
<1>3. ASSUME e.node # n, Announced(q, n) PROVE Announced(t, n)
  <2>1. PICK i \in 1..Len(q) : /\ q[i] = [name |-> "newClientEvent", node |-> n]
                               /\ \A j \in i + 1..Len(q) : q[j].node # n
    BY <1>3 DEF Announced
  <2>2. i \in 1..Len(t) /\ t[i] = q[i]
    BY <1>1
  <2>3. ASSUME NEW j \in i + 1..Len(t) PROVE t[j].node # n
    <3>1. j = Len(q) + 1 \/ (j \in i + 1..Len(q) /\ j \in 1..Len(q))
      BY <1>1
    <3> QED
      BY <1>1, <1>3, <2>1, <3>1
  <2> QED
    BY <2>1, <2>2, <2>3 DEF Announced
<1>4. ASSUME e.node # n, Unmentioned(q, n) PROVE Unmentioned(t, n)
  <2>1. \A j \in 1..Len(t) : j = Len(q) + 1 \/ j \in 1..Len(q)
    BY <1>1
  <2> QED
    BY <1>1, <1>4, <2>1 DEF Unmentioned
<1> QED
  BY <1>2, <1>3, <1>4 DEF t

LEMMA NothingHeard == \A n : Unmentioned(<<>>, n)
BY EmptySeq DEF Unmentioned

-----------------------------------------------------------------------------
(* The threads and their zones; the end of the saver *)

LEMMA HeardInit == Init => OwnInv /\ EndingInv /\ HeardInv
<1> SUFFICES ASSUME Init PROVE OwnInv /\ EndingInv /\ HeardInv
  OBVIOUS
<1>1. Fresh(config, zones, ws_threads, fetchers, saver)
  BY InitFresh
<1>2. HeardInv
  BY <1>1 DEF Fresh, HeardInv, HeardBy, Listening, Init, NoFetch
<1> QED
  BY <1>1, <1>2 DEF Fresh, OwnInv, EndingInv, Init, Serving

LEMMA OwnStep ==
    ASSUME TypeOK, StaticInv, OwnInv, MaxChanges = 0, ~CanRestart, [Next]_vars
    PROVE  OwnInv'
<1>1. ASSUME ws_threads' = ws_threads,
             \A f \in Fetcher : /\ fetchers'[f].zone = fetchers[f].zone
                                /\ fetchers[f].pc = "unused" => fetchers'[f].pc = "unused"
      PROVE  OwnInv'
  BY <1>1 DEF OwnInv, TypeOK
<1>2. ASSUME NEW f \in Fetcher, FetcherStep(f) \/ MarkStep(f) PROVE OwnInv'
  BY <1>1, <1>2, FetcherKept, StepStays DEF Stays
<1>3. CASE Save \/ WriteFails
  BY <1>1, <1>3, SaverEffect
<1>4. ASSUME NEW n \in Node, NEW m \in Management, ClientJoins(n, m) \/ ClientLeaves(n, m)
      PROVE  OwnInv'
  BY <1>1, <1>4 DEF ClientJoins, ClientLeaves
<1>5. CASE Stop \/ LeaveLoop \/ ShutDown
  BY <1>1, <1>5, ShutDownEffect
<1>6. CASE UNCHANGED vars
  BY <1>1, <1>6 DEF vars
<1> QED
  BY <1>2, <1>3, <1>4, <1>5, <1>6, StaticSteps DEF Restart

LEMMA EndingStep ==
    ASSUME TypeOK, StaticInv, SaveOK, EndingInv, MaxChanges = 0, ~CanRestart, [Next]_vars
    PROVE  EndingInv'
<1>1. ASSUME saver.pc = "dead" => saver'.pc = "dead",
             stopping'.pc \in {"no", "told", stopping.pc},
             \A f \in Fetcher : fetchers'[f].stop_event = fetchers[f].stop_event
      PROVE  EndingInv'
  BY <1>1 DEF EndingInv
<1>2. ASSUME NEW f \in Fetcher, FetcherStep(f) \/ MarkStep(f) PROVE EndingInv'
  <2>1. UNCHANGED <<saver, stopping>>
    BY <1>2, MarkEffect DEF FetcherStep, MarkStep, MarkChange, MarkFetched, Listen, Fetch,
       Ask, OpenClient, EndFetcher, Connect, Receive, HandleEvent, EventRaises,
       Disconnect, StartFetch, AnswerFetch, ExitFetch, RetryFetch, AddFetched
  <2> QED
    BY <1>1, <1>2, <2>1, StepTouches DEF Touched
<1>3. CASE Save \/ WriteFails
  <2>1. UNCHANGED <<fetchers, stopping>> /\ saver.pc # "dead"
    BY <1>3, SaverEffect DEF SaveOK, SaveInv
  <2> QED
    BY <1>1, <2>1
<1>4. ASSUME NEW n \in Node, NEW m \in Management, ClientJoins(n, m) \/ ClientLeaves(n, m)
      PROVE  EndingInv'
  BY <1>1, <1>4 DEF ClientJoins, ClientLeaves
<1>5. CASE Stop
  <2>1. stopping'.pc = "told" /\ UNCHANGED <<saver, fetchers>>
    BY <1>5 DEF Stop, TypeOK, StopState
  <2> QED
    BY <1>1, <2>1
<1>6. CASE LeaveLoop
  <2>1. saver'.pc = "dead"
    BY <1>6 DEF LeaveLoop, TypeOK, SaverState
  <2> QED
    BY <2>1 DEF EndingInv
<1>7. CASE ShutDown
  <2>1. stopping.pc \notin {"no", "told"} /\ saver' = saver
    BY <1>7 DEF ShutDown, StopThread, StoppedAll, Join
  <2> QED
    BY <2>1 DEF EndingInv
<1>8. CASE UNCHANGED vars
  BY <1>1, <1>8 DEF vars
<1> QED
  BY <1>2, <1>3, <1>4, <1>5, <1>6, <1>7, <1>8, StaticSteps DEF Restart

-----------------------------------------------------------------------------
(* What a thread does to the clients it has heard of *)

LEMMA AddPuts ==
    ASSUME TypeOK, Agreement, NEW z \in Known, NEW ns \in SUBSET Node, AddNodes(z, ns)
    PROVE  ns \subseteq zones'[z].nodes
<1>1. z \in Zone
  BY DEF Known
<1>2. zones'[z].nodes = zones[z].nodes \cup Moved(z, ns)
  BY <1>1 DEF AddNodes, Put, TypeOK, ZoneInfo
<1> QED
  BY <1>1, <1>2 DEF Moved, Agreement

LEMMA EventAdds ==
    ASSUME TypeOK, ThreadInv, StaticInv, Agreement, HomeInv, Settlement,
           NEW f \in Fetcher, HandleEvent(f) \/ EventRaises(f)
    PROVE  LET e == Head(events[f])
               z == fetchers[f].zone
           IN /\ HandleEvent(f) /\ e \in Event /\ z \in Zone
              /\ \/ /\ e.name = "newClientEvent" /\ e.node \in zones'[z].nodes
                    /\ \A y \in Zone : zones[y].nodes \subseteq zones'[y].nodes
                 \/ /\ e.name = "clientRemovedEvent"
                    /\ \A y \in Zone : zones'[y].nodes = IF y = z THEN zones[y].nodes \ {e.node}
                                                         ELSE zones[y].nodes
<1> DEFINE e == Head(events[f])
           z == fetchers[f].zone
<1>1. fetchers[f].pc = "received" /\ events[f] # <<>> /\ events[f] \in Seq(Event)
  BY DEF HandleEvent, EventRaises, Received, ThreadInv, FetcherInv, TypeOK
<1>2. e = events[f][1] /\ 1 \in 1..Len(events[f]) /\ e \in Event
  BY <1>1, HeadType
<1>3. z \in Known /\ z \in Zone /\ fetchers[f].management = config[z]
  BY <1>1 DEF StaticInv, Known
<1>4. CASE e.name = "newClientEvent"
  <2>1. e.node \in HomeOf(z)
    BY <1>1, <1>2, <1>3, <1>4 DEF HomeInv, EventsInv, HomeOf, Event
  <2>2. {e.node} \in SUBSET Node
    BY <2>1 DEF HomeOf
  <2>3. AddNodes(z, {e.node})
    BY <1>3, <1>4, <2>1, <2>2, AddKeeps DEF HandleEvent, EventRaises, Received
  <2>4. HandleEvent(f)
    BY <1>4, <2>3 DEF EventRaises, Received, AddNodes, AddNodesRaises
  <2>5. e.node \in zones'[z].nodes
    BY <1>3, <2>2, <2>3, AddPuts
  <2>6. \A y \in Zone : zones[y].nodes \subseteq zones'[y].nodes
    BY <1>3, <2>1, <2>3, AddGrows DEF HomeInv
  <2> QED
    BY <1>2, <1>3, <1>4, <2>4, <2>5, <2>6
<1>5. CASE e.name # "newClientEvent"
  <2>1. e.name = "clientRemovedEvent"
    BY <1>2, <1>5 DEF Event
  <2>2. HandleEvent(f) /\ RemoveNode(z, e.node)
    BY <1>3, <1>5 DEF HandleEvent, EventRaises, Received
  <2>3. \A y \in Zone : zones'[y].nodes = IF y = z THEN zones[y].nodes \ {e.node}
                                         ELSE zones[y].nodes
    BY <1>3, <2>2 DEF RemoveNode, TypeOK, ZoneInfo
  <2> QED
    BY <1>2, <1>3, <2>1, <2>2, <2>3
<1> QED
  BY <1>4, <1>5

LEMMA FetchAdds ==
    ASSUME TypeOK, ThreadInv, StaticInv, Agreement, HomeInv, Settlement,
           NEW f \in Fetcher, AddFetched(f)
    PROVE  /\ fetches' = [fetches EXCEPT ![f] = [@ EXCEPT !.pc = "changed", !.nodes = {}]]
           /\ fetches[f].nodes \subseteq zones'[fetchers[f].zone].nodes
           /\ \A y \in Zone : zones[y].nodes \subseteq zones'[y].nodes
<1>1. fetchers[f].pc # "unused"
  BY DEF AddFetched, ThreadInv, FetcherInv
<1>2. fetchers[f].zone \in Known /\ fetchers[f].management = config[fetchers[f].zone]
  BY <1>1 DEF StaticInv
<1>3. fetches[f].nodes \in SUBSET Node
  <2>1. fetches[f] \in FetchState
    BY DEF TypeOK
  <2> QED
    BY <2>1 DEF FetchState
<1>4. fetches[f].nodes \in SUBSET HomeOf(fetchers[f].zone)
  BY <1>1, <1>2, <1>3 DEF HomeInv, FetchedInv, HomeOf
<1>5. AddNodes(fetchers[f].zone, fetches[f].nodes)
  BY <1>2, <1>3, AddKeeps DEF AddFetched
<1>6. ~AddNodesRaises(fetchers[f].zone, fetches[f].nodes)
  BY <1>5 DEF AddNodes, AddNodesRaises
<1>7. \A y \in Zone : zones[y].nodes \subseteq zones'[y].nodes
  BY <1>2, <1>4, <1>5, AddGrows DEF HomeInv
<1> QED
  BY <1>2, <1>3, <1>5, <1>6, <1>7, AddPuts DEF AddFetched

-----------------------------------------------------------------------------
(* What has been heard stays so *)

\* A step that leaves the events to g alone.
LEMMA StillHeard ==
    ASSUME TypeOK, NEW g \in Fetcher, HeardBy(g),
           UNCHANGED clients, events'[g] = events[g],
           fetchers'[g].zone = fetchers[g].zone,
           fetchers'[g].management = fetchers[g].management,
           ~fetchers'[g].stop_event => ~fetchers[g].stop_event,
           Listening(g)' <=> Listening(g),
           ~fetchers[g].stop_event =>
              /\ ~Listening(g) => ~fetches'[g].spawned /\ fetches'[g].pc = "idle"
              /\ fetches'[g].spawned => fetches'[g].pc = "idle"
              /\ Listening(g) => \A n \in clients[fetchers[g].management] :
                    n \in zones[fetchers[g].zone].nodes \/ Fetching(g, n)
                    => n \in zones'[fetchers[g].zone].nodes \/ Fetching(g, n)'
    PROVE  HeardBy(g)'
BY DEF HeardBy, Heard

\* What a thread's step does to the others.
LEMMA OthersHeard ==
    ASSUME TypeOK, NEW f \in Fetcher, FetcherStep(f) \/ MarkStep(f),
           NEW g \in Fetcher \ {f}, HeardBy(g),
           events'[g] = events[g], fetches'[g] = fetches[g],
           Listening(g) => zones[fetchers[g].zone].nodes \subseteq zones'[fetchers[g].zone].nodes
    PROVE  HeardBy(g)'
<1>1. clients' = clients
  BY DEF FetcherStep, MarkStep, MarkChange, MarkFetched, Listen, Fetch, Ask, OpenClient,
     EndFetcher, Connect, Receive, HandleEvent, EventRaises, Disconnect, StartFetch,
     AnswerFetch, ExitFetch, RetryFetch, AddFetched
<1>2. /\ fetchers'[g].zone = fetchers[g].zone /\ fetchers'[g].management = fetchers[g].management
      /\ fetchers'[g].stop_event = fetchers[g].stop_event /\ fetchers'[g].pc = fetchers[g].pc
  BY FetcherKept, StepTouches DEF Touched
<1>3. /\ Listening(g)' <=> Listening(g)
      /\ \A n : Fetching(g, n)' <=> Fetching(g, n)
  BY <1>2 DEF Listening, Fetching
<1>4. ~fetchers[g].stop_event =>
         /\ ~Listening(g) => ~fetches'[g].spawned /\ fetches'[g].pc = "idle"
         /\ fetches'[g].spawned => fetches'[g].pc = "idle"
  BY DEF HeardBy
<1> QED
  BY <1>1, <1>2, <1>3, <1>4, StillHeard

\* Two threads that are registered are not of one zone.
LEMMA OtherZone ==
    ASSUME OwnInv, NEW f \in Fetcher, NEW g \in Fetcher \ {f},
           fetchers[f].pc # "unused", Listening(g)
    PROVE  fetchers[g].zone # fetchers[f].zone
BY DEF OwnInv, Listening

LEMMA LoopHeard ==
    ASSUME TypeOK, HeardInv, NEW f \in Fetcher,
           OpenClient(f) \/ EndFetcher(f) \/ Receive(f) \/ MarkChange(f)
    PROVE  HeardInv'
<1> SUFFICES ASSUME NEW g \in Fetcher PROVE HeardBy(g)'
  BY DEF HeardInv
<1>1. FetcherStep(f) \/ MarkStep(f)
  BY DEF FetcherStep, MarkStep, Listen, Ask
<1>2. UNCHANGED <<clients, zones, events, fetches>>
  BY DEF OpenClient, EndFetcher, Receive, MarkChange
<1>3. Listening(f)' <=> Listening(f)
  <2>1. fetchers[f] \in FetcherState
    BY DEF TypeOK
  <2>2. CASE OpenClient(f)
    <3>1. fetchers[f].pc = "loop" /\ fetchers'[f].pc = "connecting"
      BY <2>1, <2>2 DEF OpenClient, TypeOK, FetcherState
    <3> QED
      BY <3>1 DEF Listening
  <2>3. CASE EndFetcher(f)
    <3>1. fetchers[f].pc = "loop" /\ fetchers'[f].pc = "ended"
      BY <2>1, <2>3 DEF EndFetcher, Goto, TypeOK, FetcherState
    <3> QED
      BY <3>1 DEF Listening
  <2>4. CASE Receive(f) \/ MarkChange(f)
    <3>1. /\ fetchers[f].pc \in {"listening", "changed"}
          /\ fetchers'[f].pc \in {"received", "listening"}
      BY <2>1, <2>4 DEF Receive, MarkChange, Goto, TypeOK, FetcherState
    <3> QED
      BY <3>1 DEF Listening
  <2> QED
    BY <2>2, <2>3, <2>4
<1>4. g # f => (Listening(g)' <=> Listening(g))
  BY <1>1, StepTouches DEF Touched, Listening
<1>5. /\ fetchers'[g].zone = fetchers[g].zone /\ fetchers'[g].management = fetchers[g].management
      /\ fetchers'[g].stop_event = fetchers[g].stop_event
  BY <1>1, FetcherKept, StepTouches DEF Touched
<1>6. HeardBy(g) /\ \A n : Fetching(g, n)' <=> Fetching(g, n)
  BY <1>2 DEF HeardInv, Fetching
<1>7. ~fetchers[g].stop_event =>
         /\ ~Listening(g) => ~fetches'[g].spawned /\ fetches'[g].pc = "idle"
         /\ fetches'[g].spawned => fetches'[g].pc = "idle"
  BY <1>2, <1>6 DEF HeardBy
<1> QED
  BY <1>2, <1>3, <1>4, <1>5, <1>6, <1>7, StillHeard

LEMMA FetchHeard ==
    ASSUME TypeOK, HeardInv, NEW f \in Fetcher,
           StartFetch(f) \/ AnswerFetch(f) \/ ExitFetch(f) \/ RetryFetch(f) \/ MarkFetched(f)
    PROVE  HeardInv'
<1> SUFFICES ASSUME NEW g \in Fetcher PROVE HeardBy(g)'
  BY DEF HeardInv
<1>1. FetcherStep(f) \/ MarkStep(f)
  BY DEF FetcherStep, MarkStep, Fetch, Ask
<1>2. UNCHANGED <<clients, zones, events, fetchers>>
  BY DEF StartFetch, AnswerFetch, ExitFetch, RetryFetch, MarkFetched
<1>3. HeardBy(g) /\ HeardBy(f) /\ (Listening(f)' <=> Listening(f))
  BY <1>2 DEF HeardInv, Listening
<1>4. CASE g # f
  <2>1. fetches'[g] = fetches[g]
    BY <1>4 DEF StartFetch, AnswerFetch, ExitFetch, RetryFetch, MarkFetched, TypeOK
  <2> QED
    BY <1>1, <1>2, <1>3, <1>4, <2>1, OthersHeard
<1>5. CASE g = f
  <2> SUFFICES ASSUME ~fetchers[f].stop_event
               PROVE  /\ ~Listening(f) => ~fetches'[f].spawned /\ fetches'[f].pc = "idle"
                      /\ fetches'[f].spawned => fetches'[f].pc = "idle"
                      /\ Listening(f) => \A n \in clients[fetchers[f].management] :
                            Fetching(f, n) => Fetching(f, n)'
    BY <1>2, <1>3, <1>5, StillHeard
  <2>1. /\ ~Listening(f) => ~fetches[f].spawned /\ fetches[f].pc = "idle"
        /\ fetches[f].spawned => fetches[f].pc = "idle"
    BY <1>3 DEF HeardBy
  <2>2. CASE StartFetch(f)
    <3>1. ~fetches'[f].spawned /\ fetches'[f].pc = "asking" /\ Listening(f)
      BY <2>1, <2>2 DEF StartFetch, Resting, TypeOK, FetchState
    <3> QED
      BY <3>1 DEF Fetching
  <2>3. CASE AnswerFetch(f)
    <3>1. /\ fetches'[f].spawned = fetches[f].spawned /\ fetches'[f].pc = "answered"
          /\ fetches'[f].nodes = clients[fetchers[f].management] /\ fetches[f].pc = "asking"
      BY <2>3 DEF AnswerFetch, TypeOK, FetchState
    <3> QED
      BY <2>1, <3>1 DEF Fetching
  <2>4. CASE RetryFetch(f)
    <3>1. /\ fetches'[f].spawned = fetches[f].spawned /\ fetches'[f].pc = "asking"
          /\ fetches[f].pc = "failed"
      BY <2>4 DEF RetryFetch, TypeOK, FetchState
    <3> QED
      BY <2>1, <3>1 DEF Fetching
  <2>5. CASE ExitFetch(f)
    <3>1. /\ fetches'[f].spawned = fetches[f].spawned /\ fetches'[f].pc = "exited"
          /\ fetches[f].pc = "asking"
      BY <2>5 DEF ExitFetch, TypeOK, FetchState
    <3> QED
      BY <2>1, <3>1 DEF Fetching
  <2>6. CASE MarkFetched(f)
    <3>1. /\ fetches'[f].spawned = fetches[f].spawned /\ fetches'[f].pc = "idle"
          /\ fetches[f].pc = "changed"
      BY <2>6 DEF MarkFetched, TypeOK, FetchState
    <3> QED
      BY <2>1, <3>1 DEF Fetching
  <2> QED
    BY <2>2, <2>3, <2>4, <2>5, <2>6
<1> QED
  BY <1>4, <1>5

LEMMA ConnectHeard ==
    ASSUME TypeOK, HeardInv, NEW f \in Fetcher, Connect(f) \/ Disconnect(f), ~CanDisconnect
    PROVE  HeardInv'
<1> SUFFICES ASSUME NEW g \in Fetcher PROVE HeardBy(g)'
  BY DEF HeardInv
<1>1. FetcherStep(f)
  BY DEF FetcherStep, Listen, Ask
<1>2. UNCHANGED <<clients, zones>>
  BY DEF Connect, Disconnect
<1>3. HeardBy(g) /\ HeardBy(f)
  BY DEF HeardInv
<1>4. CASE g # f
  <2>1. events'[g] = events[g] /\ fetches'[g] = fetches[g]
    BY <1>4 DEF Connect, Disconnect, Leave, TypeOK
  <2> QED
    BY <1>1, <1>2, <1>3, <1>4, <2>1, OthersHeard
<1>5. CASE g = f
  <2>1. fetchers'[f].stop_event = fetchers[f].stop_event
    BY <1>1, StepTouches DEF Touched
  <2>2. CASE fetchers[f].stop_event
    BY <1>5, <2>1, <2>2 DEF HeardBy
  <2>3. CASE ~fetchers[f].stop_event
    <3>1. Connect(f)
      BY <2>3 DEF Disconnect
    <3>2. /\ fetches'[f].spawned /\ fetches'[f].pc = fetches[f].pc /\ events' = events
          /\ fetchers[f].pc = "connecting"
      BY <3>1 DEF Connect, TypeOK, FetchState
    <3>3. events[f] = <<>> /\ fetches[f].pc = "idle"
      BY <1>3, <2>3, <3>2 DEF HeardBy, Listening
    <3>4. Listening(f)'
      BY <3>1 DEF Connect, Goto, TypeOK, FetcherState, Listening
    <3>5. \A n : Heard(f, n)'
      BY <3>2, <3>3, NothingHeard DEF Heard, Fetching
    <3> QED
      BY <1>5, <3>2, <3>3, <3>4, <3>5 DEF HeardBy
  <2> QED
    BY <2>2, <2>3
<1> QED
  BY <1>4, <1>5

LEMMA AddFetchedHeard ==
    ASSUME TypeOK, ThreadInv, StaticInv, Agreement, HomeInv, Settlement, OwnInv, HeardInv,
           NEW f \in Fetcher, AddFetched(f)
    PROVE  HeardInv'
<1> SUFFICES ASSUME NEW g \in Fetcher PROVE HeardBy(g)'
  BY DEF HeardInv
<1>1. FetcherStep(f) /\ UNCHANGED <<clients, events, fetchers>>
  BY DEF FetcherStep, Fetch, AddFetched
<1>2. fetches[f].pc = "answered" /\ fetchers[f].pc # "unused"
  BY DEF AddFetched, ThreadInv, FetcherInv
<1>3. /\ fetches[f].nodes \subseteq zones'[fetchers[f].zone].nodes
      /\ \A y \in Zone : zones[y].nodes \subseteq zones'[y].nodes
      /\ fetches' = [fetches EXCEPT ![f] = [@ EXCEPT !.pc = "changed", !.nodes = {}]]
  BY FetchAdds, Zenon
<1>4. HeardBy(g) /\ HeardBy(f) /\ (Listening(f)' <=> Listening(f))
  BY <1>1 DEF HeardInv, Listening
<1>5. \A k \in Fetcher : fetchers[k].pc # "unused" => fetchers[k].zone \in Zone
  BY DEF ThreadInv, FetcherInv
<1>6. CASE g # f
  <2>1. fetches'[g] = fetches[g]
    BY <1>3, <1>6 DEF TypeOK
  <2> QED
    BY <1>1, <1>3, <1>4, <1>5, <1>6, <2>1, OthersHeard DEF Listening
<1>7. CASE g = f
  <2>1. fetches'[f].spawned = fetches[f].spawned /\ fetches'[f].pc = "changed"
    BY <1>3 DEF TypeOK, FetchState
  <2>2. ~fetchers[f].stop_event => ~fetches[f].spawned /\ Listening(f)
    BY <1>2, <1>4 DEF HeardBy
  <2>3. zones[fetchers[f].zone].nodes \subseteq zones'[fetchers[f].zone].nodes
    BY <1>2, <1>3, <1>5
  <2>4. \A n : Fetching(f, n) => fetches[f].spawned \/ n \in fetches[f].nodes
    BY <1>2 DEF Fetching
  <2> QED
    BY <1>1, <1>3, <1>4, <1>7, <2>1, <2>2, <2>3, <2>4, StillHeard
<1> QED
  BY <1>6, <1>7

LEMMA EventHeard ==
    ASSUME TypeOK, ThreadInv, StaticInv, Agreement, HomeInv, Settlement, OwnInv, HeardInv,
           NEW f \in Fetcher, HandleEvent(f) \/ EventRaises(f)
    PROVE  HeardInv'
<1> DEFINE e == Head(events[f])
           z == fetchers[f].zone
<1>1. /\ HandleEvent(f) /\ e \in Event /\ z \in Zone
      /\ \/ /\ e.name = "newClientEvent" /\ e.node \in zones'[z].nodes
            /\ \A y \in Zone : zones[y].nodes \subseteq zones'[y].nodes
         \/ /\ e.name = "clientRemovedEvent"
            /\ \A y \in Zone : zones'[y].nodes = IF y = z THEN zones[y].nodes \ {e.node}
                                                 ELSE zones[y].nodes
  BY EventAdds
<1>2. /\ fetchers[f].pc = "received" /\ events[f] # <<>> /\ events[f] \in Seq(Event)
      /\ UNCHANGED <<clients, fetches>> /\ FetcherStep(f)
  BY <1>1 DEF HandleEvent, Received, ThreadInv, FetcherInv, TypeOK, FetcherStep, Listen, Ask
<1>3. events'[f] = Tail(events[f]) /\ \A k \in Fetcher \ {f} : events'[k] = events[k]
  BY <1>1 DEF HandleEvent, TypeOK
<1> SUFFICES ASSUME NEW g \in Fetcher PROVE HeardBy(g)'
  BY DEF HeardInv
<1>4. HeardBy(g) /\ HeardBy(f)
  BY DEF HeardInv
<1>5. \A k \in Fetcher : fetchers[k].pc # "unused" => fetchers[k].zone \in Zone
  BY DEF ThreadInv, FetcherInv
<1>6. CASE g # f
  <2>1. Listening(g) => fetchers[g].zone # z /\ fetchers[g].zone \in Zone
    BY <1>2, <1>5, <1>6, OtherZone DEF Listening
  <2>2. Listening(g) => zones[fetchers[g].zone].nodes \subseteq zones'[fetchers[g].zone].nodes
    BY <1>1, <2>1
  <2> QED
    BY <1>2, <1>3, <1>4, <1>6, <2>2, OthersHeard
<1>7. CASE g = f
  <2>1. /\ fetchers'[f].zone = z /\ fetchers'[f].management = fetchers[f].management
        /\ fetchers'[f].stop_event = fetchers[f].stop_event
    BY <1>2, FetcherKept, StepTouches DEF Touched
  <2>2. Listening(f) /\ Listening(f)'
    BY <1>1, <1>2 DEF HandleEvent, Goto, Listening, TypeOK, FetcherState
  <2>3. ASSUME NEW n \in clients[fetchers[f].management], Heard(f, n)
        PROVE  Heard(f, n)'
    <3>1. Fetching(f, n)' <=> Fetching(f, n)
      BY <1>2 DEF Fetching
    <3>2. /\ Announced(events[f], n) =>
                \/ Announced(events'[f], n)
                \/ e = [name |-> "newClientEvent", node |-> n] /\ Unmentioned(events'[f], n)
          /\ Unmentioned(events[f], n) => Unmentioned(events'[f], n) /\ e.node # n
      BY <1>2, <1>3, TailHeard
    <3>3. CASE Announced(events'[f], n)
      BY <3>3 DEF Heard
    <3>4. CASE e = [name |-> "newClientEvent", node |-> n] /\ Unmentioned(events'[f], n)
      <4>1. n \in zones'[z].nodes
        BY <1>1, <3>4
      <4> QED
        BY <2>1, <3>4, <4>1 DEF Heard
    <3>5. CASE Unmentioned(events[f], n) /\ (n \in zones[z].nodes \/ Fetching(f, n))
      <4>1. n \in zones[z].nodes => n \in zones'[z].nodes
        BY <1>1, <3>2, <3>5
      <4> QED
        BY <2>1, <3>1, <3>2, <3>5, <4>1 DEF Heard
    <3> QED
      BY <2>3, <3>2, <3>3, <3>4, <3>5 DEF Heard
  <2> QED
    BY <1>2, <1>4, <1>7, <2>1, <2>2, <2>3 DEF HeardBy
<1> QED
  BY <1>6, <1>7

LEMMA ClientHeard ==
    ASSUME TypeOK, ThreadInv, HeardInv, NEW k \in Node, NEW m \in Management,
           ClientJoins(k, m) \/ ClientLeaves(k, m)
    PROVE  HeardInv'
<1>1. PICK e \in Event :
         /\ e.node = k /\ Notify(m, e)
         /\ k \in clients'[m] => e = [name |-> "newClientEvent", node |-> k]
  <2>1. CASE ClientJoins(k, m)
    BY <2>1 DEF ClientJoins, Event
  <2>2. CASE ClientLeaves(k, m)
    <3>1. k \notin clients'[m]
      BY <2>2 DEF ClientLeaves, TypeOK
    <3> QED
      BY <2>2, <3>1 DEF ClientLeaves, Event
  <2> QED
    BY <2>1, <2>2
<1>2. /\ \A n \in clients'[m] : n # k => n \in clients[m]
      /\ \A l \in Management \ {m} : clients'[l] = clients[l]
      /\ UNCHANGED <<fetchers, fetches, zones>>
  BY DEF ClientJoins, ClientLeaves, TypeOK
<1> SUFFICES ASSUME NEW f \in Fetcher, ~fetchers[f].stop_event PROVE HeardBy(f)'
  BY <1>2 DEF HeardInv, HeardBy
<1>3. HeardBy(f) /\ events[f] \in Seq(Event) /\ \A n : Fetching(f, n)' <=> Fetching(f, n)
  BY <1>2 DEF HeardInv, TypeOK, Fetching
<1>4. Listening(f)' <=> Listening(f)
  BY <1>2 DEF Listening
<1>5. CASE ~Listening(f)
  <2>1. events'[f] = events[f]
    BY <1>1, <1>5 DEF Notify, Registered, Listening
  <2> QED
    BY <1>2, <1>3, <1>4, <1>5, <2>1 DEF HeardBy
<1>6. CASE Listening(f)
  <2>1. ASSUME NEW n \in clients'[fetchers[f].management] PROVE Heard(f, n)'
    <3>1. CASE fetchers[f].management = m
      <4>1. events'[f] = Append(events[f], e)
        BY <1>1, <1>6, <3>1 DEF Notify, Registered, Listening
      <4>2. CASE n = k
        BY <1>1, <1>3, <2>1, <3>1, <4>1, <4>2, AppendHeard DEF Heard
      <4>3. CASE n # k
        <5>1. Heard(f, n)
          BY <1>2, <1>3, <1>6, <2>1, <3>1, <4>3 DEF HeardBy
        <5>2. /\ Announced(events[f], n) => Announced(events'[f], n)
              /\ Unmentioned(events[f], n) => Unmentioned(events'[f], n)
          BY <1>1, <1>3, <4>1, <4>3, AppendHeard
        <5> QED
          BY <1>2, <1>3, <5>1, <5>2 DEF Heard
      <4> QED
        BY <4>2, <4>3
    <3>2. CASE fetchers[f].management # m
      <4>1. events'[f] = events[f]
        BY <1>1, <3>2 DEF Notify, Registered
      <4>2. clients'[fetchers[f].management] = clients[fetchers[f].management]
        BY <1>2, <1>6, <3>2 DEF ThreadInv, FetcherInv, Listening
      <4>3. Heard(f, n)
        BY <1>3, <1>6, <2>1, <4>2 DEF HeardBy
      <4> QED
        BY <1>2, <1>3, <4>1, <4>3 DEF Heard
    <3> QED
      BY <3>1, <3>2
  <2> QED
    BY <1>2, <1>3, <1>4, <1>6, <2>1 DEF HeardBy
<1> QED
  BY <1>5, <1>6

LEMMA HeardStep ==
    ASSUME TypeOK, ThreadInv, StaticInv, Agreement, HomeInv, Settlement, OwnInv, HeardInv,
           ~CanDisconnect, [Next]_vars
    PROVE  HeardInv'
<1>1. ASSUME NEW f \in Fetcher, FetcherStep(f) \/ MarkStep(f) PROVE HeardInv'
  BY <1>1, LoopHeard, FetchHeard, ConnectHeard, AddFetchedHeard, EventHeard
     DEF FetcherStep, MarkStep, Listen, Fetch, Ask
<1>2. ASSUME UNCHANGED <<clients, events, fetches, zones>>,
             \A f \in Fetcher : /\ fetchers'[f].pc = fetchers[f].pc
                                /\ fetchers'[f].zone = fetchers[f].zone
                                /\ fetchers'[f].management = fetchers[f].management
                                /\ ~fetchers'[f].stop_event => ~fetchers[f].stop_event
      PROVE  HeardInv'
  <2> SUFFICES ASSUME NEW f \in Fetcher PROVE HeardBy(f)'
    BY DEF HeardInv
  <2>1. /\ Listening(f)' <=> Listening(f)
        /\ \A n : Fetching(f, n)' <=> Fetching(f, n)
    BY <1>2 DEF Listening, Fetching
  <2>2. ~fetchers[f].stop_event =>
           /\ ~Listening(f) => ~fetches'[f].spawned /\ fetches'[f].pc = "idle"
           /\ fetches'[f].spawned => fetches'[f].pc = "idle"
    BY <1>2 DEF HeardInv, HeardBy
  <2>3. HeardBy(f)
    BY DEF HeardInv
  <2> QED
    BY <1>2, <2>1, <2>2, <2>3, StillHeard
<1>3. CASE Save \/ WriteFails
  BY <1>2, <1>3, SaverEffect
<1>4. ASSUME NEW n \in Node, NEW m \in Management, ClientJoins(n, m) \/ ClientLeaves(n, m)
      PROVE  HeardInv'
  BY <1>4, ClientHeard
<1>5. CASE Stop \/ LeaveLoop \/ ShutDown
  <2>1. \A f \in Fetcher : ~fetchers'[f].stop_event => ~fetchers[f].stop_event
    <3>1. CASE Stop \/ LeaveLoop \/ StoppedAll \/ Join
      BY <3>1 DEF Stop, LeaveLoop, StoppedAll, Join
    <3>2. ASSUME NEW g \in Fetcher, StopThread(g)
          PROVE  \A f \in Fetcher : ~fetchers'[f].stop_event => ~fetchers[f].stop_event
      BY <3>2, StopEvents DEF StopThread
    <3> QED
      BY <1>5, <3>1, <3>2 DEF ShutDown
  <2> QED
    BY <1>2, <1>5, <2>1, ShutDownEffect
<1>6. CASE UNCHANGED vars
  BY <1>2, <1>6 DEF vars
<1> QED
  BY <1>1, <1>3, <1>4, <1>5, <1>6, StaticSteps DEF Settlement, Restart

\* When nothing is under way, a zone's thread has brought in all of its management's
\* clients, and the saver has saved them.
LEMMA SettledSaved ==
    ASSUME TypeOK, StaticInv, SaveOK, OwnInv, EndingInv, HeardInv
    PROVE  NodesSaved
<1> SUFFICES ASSUME Settled, NEW z \in Fetched, NEW n \in Node,
                    {y \in Known : n \in clients[zones[y].management]} = {z}
             PROVE  n \in saved[z]
  BY DEF NodesSaved
<1> DEFINE f == ws_threads[z]
<1>1. z \in Zone /\ z \in Known /\ n \in clients[zones[z].management] /\ fetches[f].pc # "exited"
  BY DEF Fetched, Known
<1>2. f \in Fetcher /\ fetchers[f].pc = "listening" /\ fetchers[f].zone = z
  BY <1>1 DEF Settled, TypeOK, OwnInv
<1> HIDE DEF f
<1>3. fetchers[f].management = zones[z].management
  BY <1>1, <1>2, NoneAssumption DEF StaticInv, Known
<1>4. events[f] = <<>> /\ fetches[f].pc = "idle" /\ ~fetches[f].spawned
  BY <1>1, <1>2 DEF Settled, Resting
<1>5. ~fetchers[f].stop_event
  BY <1>2 DEF Settled, EndingInv
<1>6. Heard(f, n)
  BY <1>1, <1>2, <1>3, <1>5 DEF HeardInv, HeardBy, Listening
<1>7. ~Announced(<<>>, n) /\ ~Fetching(f, n)
  BY <1>4, EmptySeq DEF Announced, Fetching
<1>8. n \in zones[z].nodes
  BY <1>2, <1>4, <1>6, <1>7 DEF Heard
<1>9. ~Marking /\ ~required /\ saver.pc = "waiting"
  BY DEF Settled, Resting, Marking
<1>10. saved = Members
  BY <1>9 DEF SaveOK, NoLostSave
<1> QED
  BY <1>1, <1>8, <1>10 DEF Members

\* While the zones stay, the controller runs on and no connection is lost, the
\* ConfigMap has every node that a zone's management knows once nothing is under
\* way, whichever way joining and leaving nodes, the fetches, their failures and the
\* writes interleave (zone_topology_fetcher.py:88, 146; topology_service.py:203):
\* in every zone but those whose fetch has been ended by exit(1), which lack nodes
\* (BaseClassAPI.py:58).
THEOREM NodesSavedKept ==
    ASSUME Settlement, ~CanDisconnect
    PROVE  Spec => []NodesSaved
<1> DEFINE IInv == /\ TypeOK /\ ThreadInv /\ StaticInv /\ Agreement /\ HomeInv /\ SaveOK
                   /\ OwnInv /\ EndingInv /\ HeardInv
<1>1. Init => IInv
  BY TypeInit, StaticInit, HomeInit, SaveInit, HeardInit
<1>2. IInv /\ [Next]_vars => IInv'
  BY TypeStep, StaticStep, HomeStep, SaveOKStep, OwnStep, EndingStep, HeardStep DEF Settlement
<1>3. IInv => NodesSaved
  BY SettledSaved
<1> QED
  BY <1>1, <1>2, <1>3, PTL DEF Spec

=============================================================================
