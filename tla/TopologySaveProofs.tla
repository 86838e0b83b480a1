------------------------- MODULE TopologySaveProofs -------------------------
(* While the user leaves the zones alone: Topology.nodes and Topology.zones   *)
(* agree, and no change is lost to the ConfigMap.                             *)
EXTENDS TopologyProofs

USE DEF topology, threads, saving, service, outside

\* The steps of a fetcher and its fetch that do not mark, and those that do.
FetcherStep(f) == Listen(f) \/ Fetch(f) \/ Ask(f) \/ Disconnect(f)
MarkStep(f) == MarkChange(f) \/ MarkFetched(f)

\* No fetcher changes its zone or comes from nowhere.
LEMMA FetcherKept ==
    ASSUME TypeOK, NEW f \in Fetcher, FetcherStep(f) \/ MarkStep(f)
    PROVE  \A g \in Fetcher : /\ fetchers'[g].zone = fetchers[g].zone
                              /\ fetchers'[g].management = fetchers[g].management
                              /\ fetchers[g].pc = "unused" => fetchers'[g].pc = "unused"
<1>1. ASSUME NEW l \in FetcherPc, Goto(f, l), fetchers[f].pc # "unused"
      PROVE  \A g \in Fetcher : /\ fetchers'[g].zone = fetchers[g].zone
                                /\ fetchers'[g].management = fetchers[g].management
                                /\ fetchers[g].pc = "unused" => fetchers'[g].pc = "unused"
  BY <1>1 DEF TypeOK, FetcherState, Goto
<1>2. CASE OpenClient(f)
  BY <1>2 DEF TypeOK, FetcherState, OpenClient
<1>3. CASE EndFetcher(f) \/ Connect(f) \/ Receive(f) \/ HandleEvent(f) \/ MarkChange(f)
  BY <1>1, <1>3 DEF EndFetcher, Connect, Receive, HandleEvent, MarkChange, Received, FetcherPc
<1>4. CASE EventRaises(f) \/ Disconnect(f)
  BY <1>1, <1>4 DEF EventRaises, Disconnect, Leave, Received, FetcherPc
<1>5. CASE Fetch(f) \/ AnswerFetch(f) \/ ExitFetch(f) \/ MarkFetched(f)
  BY <1>5 DEF Fetch, StartFetch, AnswerFetch, ExitFetch, RetryFetch, AddFetched, MarkFetched
<1> QED
  BY <1>2, <1>3, <1>4, <1>5 DEF FetcherStep, MarkStep, Listen, Ask

LEMMA AddKeeps ==
    ASSUME TypeOK, Agreement, NEW z \in Known, NEW ns \in SUBSET Node,
           AddNodes(z, ns) \/ AddNodesRaises(z, ns)
    PROVE  /\ AddNodes(z, ns)
           /\ Agreement'
           /\ \A y \in Zone : /\ zones'[y].management = zones[y].management
                              /\ y \notin Known /\ zones[y].nodes = {} => zones'[y].nodes = {}
<1>1. z \in Zone
  BY DEF Known
<1>2. Broken(z, ns) = {}
  BY <1>1, NoneAssumption DEF TypeOK, Agreement, Broken, Moved
<1>3. Put(z, Moved(z, ns))
  BY <1>2 DEF AddNodes, AddNodesRaises
<1> DEFINE s == Moved(z, ns)
<1>4. s \in SUBSET Node /\ \A n \in s : nodes[n] # z
  BY DEF Moved
<1> HIDE DEF s
<1>5. \A y \in Zone :
         /\ zones'[y].management = zones[y].management
         /\ zones'[y].nodes = IF y = z THEN zones[y].nodes \cup s
                              ELSE zones[y].nodes \ {n \in s : nodes[n] = y}
  BY <1>3 DEF s, TypeOK, ZoneInfo, Put
<1>6. \A n \in Node : nodes'[n] = IF n \in s THEN z ELSE nodes[n]
  BY <1>3 DEF s, Put
<1>7. ASSUME NEW n \in Node, NEW y \in Zone
      PROVE  nodes'[n] = y <=> n \in zones'[y].nodes
  <2>1. nodes[n] = y <=> n \in zones[y].nodes
    BY DEF Agreement
  <2>2. CASE n \in s
    BY <1>1, <1>4, <1>5, <1>6, <2>1, <2>2
  <2>3. CASE n \notin s
    BY <1>1, <1>5, <1>6, <2>1, <2>3
  <2> QED
    BY <2>2, <2>3
<1>8. \A y \in Zone : y \notin Known /\ zones[y].nodes = {} => zones'[y].nodes = {}
  BY <1>5
<1> QED
  BY <1>2, <1>5, <1>7, <1>8 DEF AddNodes, AddNodesRaises, Agreement

LEMMA RemoveKeeps ==
    ASSUME TypeOK, Agreement, NEW z \in Zone, NEW n \in Node, RemoveNode(z, n)
    PROVE  /\ Agreement'
           /\ \A y \in Zone : /\ zones'[y].management = zones[y].management
                              /\ zones[y].nodes = {} => zones'[y].nodes = {}
<1>1. \A y \in Zone :
         /\ zones'[y].management = zones[y].management
         /\ zones'[y].nodes = IF y = z THEN zones[y].nodes \ {n} ELSE zones[y].nodes
  BY DEF RemoveNode, TypeOK, ZoneInfo
<1>2. \A k \in Node : nodes'[k] = IF k = n /\ nodes[k] = z THEN None ELSE nodes[k]
  BY DEF RemoveNode, TypeOK
<1>3. ASSUME NEW k \in Node, NEW y \in Zone
      PROVE  nodes'[k] = y <=> k \in zones'[y].nodes
  <2>1. /\ nodes[k] = y <=> k \in zones[y].nodes
        /\ nodes[k] = z <=> k \in zones[z].nodes
        /\ y # None
    BY NoneAssumption DEF Agreement
  <2> QED
    BY <1>1, <1>2, <2>1
<1> QED
  BY <1>1, <1>3 DEF Agreement

\* What one step of a fetcher does to the topology it marks afterwards.
ChangesAnnounced(f) ==
    /\ Agreement'
    /\ \A y \in Zone : /\ zones'[y].management = zones[y].management
                       /\ y \notin Known /\ zones[y].nodes = {} => zones'[y].nodes = {}
    /\ \/ zones' = zones
       \/ fetchers'[f].pc = "changed" \/ fetches'[f].pc = "changed"

LEMMA StepAnnounces ==
    ASSUME TypeOK, ThreadInv, StaticInv, Agreement, NEW f \in Fetcher, FetcherStep(f)
    PROVE  ChangesAnnounced(f)
<1>1. ASSUME UNCHANGED <<nodes, zones>> PROVE ChangesAnnounced(f)
  BY <1>1 DEF ChangesAnnounced, Agreement
<1>2. fetchers[f].pc # "unused" => fetchers[f].zone \in Known
  BY DEF StaticInv
<1>3. Known \subseteq Zone
  BY DEF Known
<1>4. CASE OpenClient(f) \/ EndFetcher(f) \/ Connect(f) \/ Receive(f)
  BY <1>1, <1>4 DEF OpenClient, EndFetcher, Connect, Receive
<1>5. CASE HandleEvent(f) \/ EventRaises(f)
  <2>1. fetchers[f].zone \in Known /\ Head(events[f]).node \in Node
    BY <1>2, <1>5, HeadType DEF HandleEvent, EventRaises, Received, ThreadInv, FetcherInv
  <2>2. ASSUME AddNodesRaises(fetchers[f].zone, {Head(events[f]).node}) PROVE FALSE
    <3>1. AddNodes(fetchers[f].zone, {Head(events[f]).node})
      BY <2>1, <2>2, AddKeeps
    <3> QED
      BY <2>2, <3>1 DEF AddNodes, AddNodesRaises
  <2>3. HandleEvent(f)
    BY <1>5, <2>1, <2>2 DEF EventRaises
  <2>4. fetchers'[f].pc = "changed"
    BY <2>3 DEF HandleEvent, Goto, TypeOK, FetcherState
  <2> QED
    BY <1>3, <2>1, <2>3, <2>4, AddKeeps, RemoveKeeps DEF HandleEvent, ChangesAnnounced
<1>6. CASE Disconnect(f)
  BY <1>1, <1>6 DEF Disconnect
<1>7. CASE StartFetch(f) \/ AnswerFetch(f) \/ ExitFetch(f) \/ RetryFetch(f)
  BY <1>1, <1>7 DEF StartFetch, AnswerFetch, ExitFetch, RetryFetch
<1>8. CASE AddFetched(f)
  <2>1. fetchers[f].zone \in Known /\ fetches[f].nodes \in SUBSET Node
    BY <1>2, <1>8, FetchFields DEF AddFetched, ThreadInv, FetcherInv, TypeOK
  <2>2. CASE AddNodes(fetchers[f].zone, fetches[f].nodes)
            /\ fetches' = [fetches EXCEPT ![f] = [@ EXCEPT !.pc = "changed", !.nodes = {}]]
    <3>1. fetches'[f].pc = "changed"
      BY <2>2 DEF TypeOK, FetchState
    <3> QED
      BY <2>1, <2>2, <3>1, AddKeeps DEF ChangesAnnounced
  <2>3. CASE AddNodesRaises(fetchers[f].zone, fetches[f].nodes)
    <3>1. Broken(fetchers[f].zone, fetches[f].nodes) = {}
      BY <2>1, <2>3, AddKeeps DEF AddNodes
    <3> QED
      BY <2>3, <3>1 DEF AddNodesRaises
  <2> QED
    BY <1>8, <2>2, <2>3 DEF AddFetched
<1> QED
  BY <1>4, <1>5, <1>6, <1>7, <1>8 DEF FetcherStep, Listen, Fetch, Ask

LEMMA StepKeepsMarking ==
    ASSUME TypeOK, NEW f \in Fetcher, FetcherStep(f), Marking
    PROVE  Marking'
<1>1. ASSUME NEW g \in Fetcher, fetches[g].pc = "changed" PROVE fetches'[g].pc = "changed"
  <2>1. CASE OpenClient(f) \/ EndFetcher(f) \/ Receive(f) \/ HandleEvent(f) \/ EventRaises(f)
             \/ Disconnect(f)
    BY <1>1, <2>1 DEF OpenClient, EndFetcher, Receive, HandleEvent, EventRaises, Disconnect
  <2>2. CASE Connect(f)
    BY <1>1, <2>2 DEF Connect, TypeOK, FetchState
  <2>3. CASE StartFetch(f)
    BY <1>1, <2>3 DEF StartFetch, Resting, TypeOK, FetchState
  <2>4. CASE AnswerFetch(f) \/ ExitFetch(f) \/ RetryFetch(f)
    BY <1>1, <2>4 DEF AnswerFetch, ExitFetch, RetryFetch, TypeOK, FetchState
  <2>5. CASE AddFetched(f)
    BY <1>1, <2>5 DEF AddFetched, TypeOK
  <2> QED
    BY <2>1, <2>2, <2>3, <2>4, <2>5 DEF FetcherStep, Listen, Fetch, Ask
<1>2. ASSUME NEW g \in Fetcher, fetchers[g].pc = "changed" PROVE fetchers'[g].pc = "changed"
  BY <1>2 DEF FetcherStep, Listen, Fetch, Ask, OpenClient, EndFetcher, Connect, Receive,
     HandleEvent, EventRaises, Disconnect, StartFetch, AnswerFetch, ExitFetch, RetryFetch,
     AddFetched, TypeOK, FetcherState, Received, Leave, Goto
<1>3. watcher' = watcher
  BY DEF FetcherStep, Listen, Fetch, Ask, OpenClient, EndFetcher, Connect, Receive,
     HandleEvent, EventRaises, Disconnect, StartFetch, AnswerFetch, ExitFetch, RetryFetch,
     AddFetched
<1> QED
  BY <1>1, <1>2, <1>3 DEF Marking

LEMMA MarkEffect ==
    ASSUME TypeOK, NEW f \in Fetcher, MarkStep(f)
    PROVE  /\ saver.pc # "saving" /\ required'
           /\ UNCHANGED <<nodes, zones, config, changes, watcher, replacers, saver, saved>>
BY DEF MarkStep, MarkChange, MarkFetched, Mark, SaveLockFree

\* Without changes of the configuration only these steps are left.
LEMMA StaticSteps ==
    ASSUME TypeOK, StaticInv, MaxChanges = 0, Next
    PROVE  \/ \E f \in Fetcher : FetcherStep(f) \/ MarkStep(f)
           \/ Save \/ WriteFails
           \/ Stop \/ LeaveLoop \/ ShutDown
           \/ \E n \in Node, m \in Management : ClientJoins(n, m) \/ ClientLeaves(n, m)
           \/ Restart
<1>1. ASSUME NEW r \in Replacer PROVE ~Replace(r)
  BY DEF StaticInv, Replace, StopCurrentThread, StartNewThread
<1>2. ASSUME NEW c \in Configs PROVE ~ConfigEvent(c)
  BY DEF StaticInv, ConfigEvent, Watching
<1>3. ~ConfigCleared /\ ~MarkRemoved
  BY DEF StaticInv, ConfigCleared, MarkRemoved
<1>4. ~Load
  BY DEF StaticInv, Load, KeepZone, AddZone, UpdateZone, RemoveZone, RemoveRaises, Loaded,
     Loading, Removing
<1> QED
  BY <1>1, <1>2, <1>3, <1>4 DEF Next, FetcherStep, MarkStep

LEMMA StillStatic ==
    ASSUME StaticInv, Agreement,
           UNCHANGED <<config, changes, watcher, replacers, nodes, zones, fetchers>>,
           saver.pc = "failed" => saver'.pc = "failed"
    PROVE  StaticInv' /\ Agreement'
BY DEF StaticInv, Agreement, Known

LEMMA RestartStatic ==
    ASSUME TypeOK, StaticInv, Restart
    PROVE  StaticInv' /\ Agreement'
<1>1. Fresh(config', zones', ws_threads', fetchers', saver')
  BY RestartFresh
<1>2. \A f \in Fetcher : fetchers'[f].pc # "unused" =>
         /\ fetchers'[f].zone \in Known'
         /\ fetchers'[f].management = config'[fetchers'[f].zone]
  BY <1>1, NoneAssumption DEF Fresh, Known
<1>3. \A z \in Zone : /\ zones'[z].nodes = {}
                      /\ zones'[z].management \in {None, config'[z]}
                      /\ saver'.pc # "failed" => zones'[z].management = config'[z]
  BY <1>1 DEF Fresh
<1>4. \A n \in Node, z \in Zone : nodes'[n] # z
  BY NoneAssumption DEF Restart
<1>5. StaticInv'
  BY <1>2, <1>3, BlankType DEF Restart, StaticInv, Idle
<1> QED
  BY <1>3, <1>4, <1>5 DEF Agreement

LEMMA ShutDownStatic ==
    ASSUME TypeOK, StaticInv, Agreement, Stop \/ LeaveLoop \/ ShutDown
    PROVE  StaticInv' /\ Agreement'
<1>1. /\ UNCHANGED <<config, changes, watcher, replacers, nodes, zones>>
      /\ saver.pc = "failed" => saver'.pc = "failed"
  BY ShutDownEffect
<1>2. \A f \in Fetcher : /\ fetchers'[f].pc = fetchers[f].pc
                         /\ fetchers'[f].zone = fetchers[f].zone
                         /\ fetchers'[f].management = fetchers[f].management
  BY ShutDownEffect
<1> QED
  BY <1>1, <1>2 DEF StaticInv, Agreement, Known

LEMMA StaticInit == Init => StaticInv /\ Agreement
<1> SUFFICES ASSUME Init PROVE StaticInv /\ Agreement
  OBVIOUS
<1>1. Fresh(config, zones, ws_threads, fetchers, saver)
  BY InitFresh
<1>2. \A f \in Fetcher : fetchers[f].pc # "unused" =>
         /\ fetchers[f].zone \in Known
         /\ fetchers[f].management = config[fetchers[f].zone]
  BY <1>1, NoneAssumption DEF Fresh, Known
<1>3. \A z \in Zone : /\ zones[z].nodes = {}
                      /\ zones[z].management \in {None, config[z]}
                      /\ saver.pc # "failed" => zones[z].management = config[z]
  BY <1>1 DEF Fresh
<1>4. \A n \in Node, z \in Zone : nodes[n] # z
  BY NoneAssumption DEF Init
<1>5. StaticInv
  BY <1>2, <1>3, BlankType DEF Init, StaticInv, Idle
<1> QED
  BY <1>3, <1>4, <1>5 DEF Agreement

LEMMA StaticStep ==
    ASSUME TypeOK, ThreadInv, StaticInv, Agreement, MaxChanges = 0, [Next]_vars
    PROVE  StaticInv' /\ Agreement'
<1>1. ASSUME NEW f \in Fetcher, FetcherStep(f) \/ MarkStep(f)
      PROVE  StaticInv' /\ Agreement'
  <2>1. UNCHANGED <<config, changes, watcher, replacers>> /\ saver'.pc = saver.pc
    BY <1>1, MarkEffect DEF FetcherStep, Listen, Fetch, Ask, OpenClient, EndFetcher,
       Connect, Receive, HandleEvent, EventRaises, Disconnect, StartFetch, AnswerFetch,
       ExitFetch, RetryFetch, AddFetched
  <2>2. /\ Agreement'
        /\ \A y \in Zone : /\ zones'[y].management = zones[y].management
                           /\ y \notin Known /\ zones[y].nodes = {} => zones'[y].nodes = {}
    BY <1>1, StepAnnounces, MarkEffect DEF ChangesAnnounced, Agreement
  <2>3. Known' = Known
    BY <2>2 DEF Known
  <2>4. \A g \in Fetcher : /\ fetchers'[g].zone = fetchers[g].zone
                           /\ fetchers'[g].management = fetchers[g].management
                           /\ fetchers[g].pc = "unused" => fetchers'[g].pc = "unused"
    BY <1>1, FetcherKept
  <2> QED
    BY <2>1, <2>2, <2>3, <2>4 DEF StaticInv
<1>2. CASE Save \/ WriteFails
  <2>1. saver.pc = "failed" => saver'.pc = "failed"
    BY <1>2 DEF Save, StartSave, WriteConfigMap, ReadZone, WriteFails, TypeOK, SaverState
  <2> QED
    BY <1>2, <2>1, StillStatic DEF Save, StartSave, WriteConfigMap, ReadZone, WriteFails
<1>3. ASSUME NEW n \in Node, NEW m \in Management, ClientJoins(n, m) \/ ClientLeaves(n, m)
      PROVE  StaticInv' /\ Agreement'
  BY <1>3, StillStatic DEF ClientJoins, ClientLeaves
<1>4. CASE Restart
  BY <1>4, RestartStatic
<1>5. ASSUME Stop \/ LeaveLoop \/ ShutDown PROVE StaticInv' /\ Agreement'
  BY <1>5, ShutDownStatic
<1>6. CASE UNCHANGED vars
  BY <1>6, StillStatic DEF vars
<1> QED
  BY <1>1, <1>2, <1>3, <1>4, <1>5, <1>6, StaticSteps

LEMMA StaticKept ==
    ASSUME MaxChanges = 0
    PROVE  Spec => [](TypeOK /\ ThreadInv /\ StaticInv /\ Agreement)
<1>1. Init => TypeOK /\ ThreadInv /\ StaticInv /\ Agreement
  BY TypeInit, StaticInit
<1>2. TypeOK /\ ThreadInv /\ StaticInv /\ Agreement /\ [Next]_vars
      => (TypeOK /\ ThreadInv /\ StaticInv /\ Agreement)'
  BY TypeStep, StaticStep
<1> QED
  BY <1>1, <1>2, PTL DEF Spec

\* While the user leaves the zones alone, the zone of each node and the nodes of
\* each zone say the same, whichever threads add, move and remove nodes, fail or
\* start again (topology.py:30, 55).
THEOREM AgreementKept ==
    ASSUME MaxChanges = 0
    PROVE  Spec => []Agreement
BY StaticKept, PTL

-----------------------------------------------------------------------------
(* Saving *)

SaveOK == SaveInv /\ NoLostSave

LEMMA MembersInit == Init => Members = Nobody
BY InitFresh DEF Fresh, Members, Nobody

LEMMA SaveInit == Init => SaveOK
BY InitFresh, MembersInit DEF Init, Fresh, SaveOK, SaveInv, NoLostSave

\* Only the steps of the saver touch it and the ConfigMap; Mark waits for it.
LEMMA AnnouncedOK ==
    ASSUME TypeOK, SaveOK, UNCHANGED <<required, saver, saved>>,
           \A z \in Zone : zones'[z].management = zones[z].management,
           Marking => Marking', zones' = zones \/ Marking'
    PROVE  SaveOK'
<1>1. Known' = Known
  BY DEF Known
<1>2. zones' = zones => Members' = Members
  BY DEF Members
<1> QED
  BY <1>1, <1>2 DEF SaveOK, SaveInv, NoLostSave

LEMMA MarkedOK ==
    ASSUME SaveOK, required', saver.pc # "saving",
           UNCHANGED <<saver, saved, zones>>
    PROVE  SaveOK'
BY DEF SaveOK, SaveInv, NoLostSave, Known

LEMMA SaveStep ==
    ASSUME TypeOK, StaticInv, SaveOK, Save \/ WriteFails
    PROVE  SaveOK'
<1>1. UNCHANGED <<zones, Known, Members, Marking>>
  BY DEF Save, StartSave, WriteConfigMap, ReadZone, WriteFails, Known, Members, Marking
<1>2. CASE StartSave
  <2>1. saver'.left = Known /\ saver'.snapshot = Nobody /\ saver'.pc = "saving"
    BY <1>2 DEF StartSave
  <2>2. \A z \in Zone \ Known : Nobody[z] = Members[z]
    BY DEF StaticInv, Nobody, Members
  <2> QED
    BY <1>1, <1>2, <2>1, <2>2 DEF StartSave, SaveOK, SaveInv, NoLostSave
<1>3. ASSUME NEW z \in Zone, ReadZone(z) PROVE SaveOK'
  <2>1. /\ saver.pc = "saving" /\ saver'.pc = "saving"
        /\ saver'.left = saver.left \ {z}
        /\ \A y \in Zone : saver'.snapshot[y] = IF y = z THEN Members[z] ELSE saver.snapshot[y]
    BY <1>3 DEF ReadZone, SaveOK, SaveInv, TypeOK, SaverState, Members
  <2>2. required' /\ saver'.left \subseteq Known
    BY <1>3, <2>1 DEF SaveOK, SaveInv, ReadZone
  <2>3. Marking \/ \A y \in Zone \ saver'.left : saver'.snapshot[y] = Members[y]
    BY <2>1 DEF SaveOK, SaveInv
  <2> QED
    BY <1>1, <2>1, <2>2, <2>3 DEF SaveOK, SaveInv, NoLostSave
<1>4. CASE WriteConfigMap
  <2>1. Marking \/ saved' = Members
    BY <1>4 DEF WriteConfigMap, SaveOK, SaveInv, TypeOK, SaverState, Members
  <2> QED
    BY <1>1, <1>4, <2>1 DEF WriteConfigMap, Waiting, SaveOK, SaveInv, NoLostSave
<1>5. CASE WriteFails
  BY <1>5 DEF WriteFails, Waiting, SaveOK, SaveInv, NoLostSave
<1> QED
  BY <1>2, <1>3, <1>4, <1>5 DEF Save

LEMMA ShutDownOK ==
    ASSUME TypeOK, SaveOK, Stop \/ LeaveLoop \/ ShutDown
    PROVE  SaveOK'
<1>1. UNCHANGED <<required, saved, zones, fetches, watcher>>
  BY ShutDownEffect
<1>2. \A f \in Fetcher : fetchers'[f].pc = fetchers[f].pc
  BY ShutDownEffect
<1>3. CASE saver' = saver
  <2>1. Marking' <=> Marking
    BY <1>1, <1>2 DEF Marking
  <2> QED
    BY <1>1, <1>3, <2>1, AnnouncedOK
<1>4. CASE saver.pc = "waiting" /\ saver' = [saver EXCEPT !.pc = "dead"]
  <2>1. saver'.pc = "dead" /\ saver'.left = {}
    BY <1>4 DEF TypeOK, SaverState, SaveOK, SaveInv
  <2> QED
    BY <2>1 DEF SaveOK, SaveInv, NoLostSave
<1> QED
  BY <1>3, <1>4, ShutDownEffect

LEMMA SaveOKStep ==
    ASSUME TypeOK, ThreadInv, StaticInv, Agreement, SaveOK,
           MaxChanges = 0, ~CanRestart, [Next]_vars
    PROVE  SaveOK'
<1>1. ASSUME NEW f \in Fetcher, FetcherStep(f) PROVE SaveOK'
  <2>1. UNCHANGED <<required, saver, saved>>
    BY <1>1 DEF FetcherStep, Listen, Fetch, Ask, OpenClient, EndFetcher, Connect, Receive,
       HandleEvent, EventRaises, Disconnect, StartFetch, AnswerFetch, ExitFetch,
       RetryFetch, AddFetched
  <2> QED
    BY <1>1, <2>1, AnnouncedOK, StepAnnounces, StepKeepsMarking DEF ChangesAnnounced, Marking
<1>2. ASSUME NEW f \in Fetcher, MarkStep(f) PROVE SaveOK'
  BY <1>2, MarkEffect, MarkedOK
<1>3. CASE Save \/ WriteFails
  BY <1>3, SaveStep
<1>4. ASSUME UNCHANGED <<required, saver, saved, zones, fetchers, fetches, watcher>>
      PROVE  SaveOK'
  BY <1>4, AnnouncedOK DEF Marking
<1>5. ASSUME NEW n \in Node, NEW m \in Management, ClientJoins(n, m) \/ ClientLeaves(n, m)
      PROVE  SaveOK'
  BY <1>4, <1>5 DEF ClientJoins, ClientLeaves
<1>6. ASSUME Stop \/ LeaveLoop \/ ShutDown PROVE SaveOK'
  BY <1>6, ShutDownOK
<1>7. CASE UNCHANGED vars
  BY <1>4, <1>7 DEF vars
<1> QED
  BY <1>1, <1>2, <1>3, <1>5, <1>6, <1>7, StaticSteps DEF Restart

\* While the user leaves the zones alone and the controller runs on, every change
\* of the topology gets to the ConfigMap, or the flag that will bring it there is
\* set or about to be (topology_service.py:194, 203).
THEOREM NoLostSaveKept ==
    ASSUME MaxChanges = 0, ~CanRestart
    PROVE  Spec => []NoLostSave
<1> DEFINE IInv == TypeOK /\ ThreadInv /\ StaticInv /\ Agreement /\ SaveOK
<1>1. Init => IInv
  BY TypeInit, StaticInit, SaveInit
<1>2. IInv /\ [Next]_vars => IInv'
  BY TypeStep, StaticStep, SaveOKStep
<1>3. IInv => NoLostSave
  BY DEF SaveOK
<1> QED
  BY <1>1, <1>2, <1>3, PTL DEF Spec

-----------------------------------------------------------------------------
(* What each save may hold, whatever is changed, fails or starts again *)

SnapshotInv == UnknownInv /\ RestingInv

LEMMA SnapshotInit == Init => SnapshotInv
<1>1. Init => UnknownInv
  BY DEF Init, UnknownInv
<1>2. Init => RestingInv
  BY InitFresh DEF Fresh, RestingInv
<1> QED
  BY <1>1, <1>2 DEF SnapshotInv

\* Nobody but the saver touches what it has read, but for a zone that is replaced
\* or removed: its old dictionary is read from now on.
LEMMA SaverKinds ==
    ASSUME [Next]_vars
    PROVE  \/ UNCHANGED <<saver, saved>>
           \/ \E z \in Zone : UpdateZone(z) \/ RemoveZone(z)
           \/ Save \/ WriteFails \/ LeaveLoop \/ Restart
<1>1. ASSUME NEW f \in Fetcher, Listen(f) \/ Disconnect(f) \/ MarkChange(f)
      PROVE  UNCHANGED <<saver, saved>>
  BY <1>1 DEF Listen, OpenClient, EndFetcher, Connect, Receive, HandleEvent, EventRaises,
     Disconnect, MarkChange, Mark
<1>2. ASSUME NEW f \in Fetcher, Fetch(f) \/ Ask(f) \/ MarkFetched(f)
      PROVE  UNCHANGED <<saver, saved>>
  BY <1>2 DEF Fetch, Ask, Connect, StartFetch, AnswerFetch, ExitFetch, RetryFetch, AddFetched,
     MarkFetched, Mark
<1>3. ASSUME NEW r \in Replacer, Replace(r) PROVE UNCHANGED <<saver, saved>>
  BY <1>3 DEF Replace, StopCurrentThread, StartNewThread
<1>4. CASE \/ \E c \in Configs : ConfigEvent(c)
           \/ ConfigCleared \/ MarkRemoved \/ Loaded
  BY <1>4 DEF ConfigEvent, ConfigCleared, MarkRemoved, Mark, Loaded
<1>5. ASSUME NEW z \in Zone, KeepZone(z) \/ AddZone(z) \/ RemoveRaises(z)
      PROVE  UNCHANGED <<saver, saved>>
  BY <1>5 DEF KeepZone, AddZone, RemoveRaises
<1>6. CASE Stop \/ ShutDown
  BY <1>6 DEF Stop, ShutDown, StopThread, StoppedAll, Join
<1>7. ASSUME NEW n \in Node, NEW m \in Management, ClientJoins(n, m) \/ ClientLeaves(n, m)
      PROVE  UNCHANGED <<saver, saved>>
  BY <1>7 DEF ClientJoins, ClientLeaves
<1>8. CASE UNCHANGED vars
  BY <1>8 DEF vars
<1> QED
  BY <1>1, <1>2, <1>3, <1>4, <1>5, <1>6, <1>7, <1>8 DEF Next, Load

LEMMA Detached ==
    ASSUME TypeOK, RestingInv, NEW z \in Zone, UpdateZone(z) \/ RemoveZone(z)
    PROVE  /\ saver'.pc = saver.pc /\ saved' = saved
           /\ SaveLockFree => saver' = saver
           /\ Due' = Due
<1>1. /\ Detach(z) /\ saved' = saved
      /\ \A y \in Zone : y # z => zones'[y].nodes = zones[y].nodes
  BY DEF UpdateZone, RemoveZone, TypeOK
<1>2. CASE z \in saver.left
  <2>1. saver' = [saver EXCEPT !.left = @ \ {z}, !.snapshot[z] = zones[z].nodes]
    BY <1>1, <1>2 DEF Detach
  <2>2. /\ saver'.pc = saver.pc /\ saver'.left = saver.left \ {z}
        /\ \A y \in Zone : saver'.snapshot[y] = IF y = z THEN zones[z].nodes ELSE saver.snapshot[y]
    BY <2>1 DEF TypeOK, SaverState
  <2> QED
    BY <1>1, <1>2, <2>2 DEF Due, RestingInv
<1>3. CASE z \notin saver.left
  <2>1. saver' = saver
    BY <1>1, <1>3 DEF Detach
  <2> QED
    BY <1>1, <1>3, <2>1 DEF Due
<1> QED
  BY <1>2, <1>3

LEMMA RestingStep ==
    ASSUME TypeOK, RestingInv, [Next]_vars
    PROVE  RestingInv'
<1>1. CASE UNCHANGED <<saver, saved>>
  BY <1>1 DEF RestingInv, SaveLockFree
<1>2. ASSUME NEW z \in Zone, UpdateZone(z) \/ RemoveZone(z) PROVE RestingInv'
  BY <1>2, Detached DEF RestingInv, SaveLockFree
<1>3. CASE StartSave \/ WriteConfigMap \/ WriteFails
  <2>1. \/ saver'.pc = "saving" \/ saver' = Waiting
        \/ saver' = [Waiting EXCEPT !.pc = "dead"]
    BY <1>3 DEF StartSave, WriteConfigMap, WriteFails
  <2>2. Waiting.left = {} /\ Waiting.snapshot = Nobody
    BY DEF Waiting, Nobody
  <2>3. /\ [Waiting EXCEPT !.pc = "dead"].left = {}
        /\ [Waiting EXCEPT !.pc = "dead"].snapshot = Nobody
    BY DEF Waiting, Nobody
  <2> QED
    BY <2>1, <2>2, <2>3 DEF RestingInv, SaveLockFree
<1>4. ASSUME NEW z \in Zone, ReadZone(z) PROVE RestingInv'
  BY <1>4 DEF ReadZone, RestingInv, SaveLockFree, TypeOK, SaverState
<1>5. CASE LeaveLoop
  BY <1>5 DEF LeaveLoop, RestingInv, SaveLockFree, TypeOK, SaverState
<1>6. CASE Restart
  BY <1>6, RestartFresh DEF Fresh, RestingInv
<1> QED
  BY <1>1, <1>2, <1>3, <1>4, <1>5, <1>6, SaverKinds DEF Save

LEMMA UnknownStep ==
    ASSUME TypeOK, UnknownInv, [Next]_vars
    PROVE  UnknownInv'
<1>1. ASSUME zones' = zones PROVE UnknownInv'
  BY <1>1 DEF UnknownInv, Known
<1>2. ASSUME NEW z, NEW ns, AddNodes(z, ns) \/ AddNodesRaises(z, ns) PROVE UnknownInv'
  <2>1. PICK s : Put(z, s)
    BY <1>2 DEF AddNodes, AddNodesRaises
  <2>2. CASE z \in Known
    <3>1. \A y \in Zone : /\ zones'[y].management = zones[y].management
                          /\ y # z => zones'[y].nodes \subseteq zones[y].nodes
      BY <2>1, <2>2 DEF Put, TypeOK, ZoneInfo
    <3> QED
      BY <2>2, <3>1 DEF UnknownInv, Known
  <2>3. CASE z \notin Known
    BY <1>1, <2>1, <2>3 DEF Put
  <2> QED
    BY <2>2, <2>3
<1>3. ASSUME NEW z, NEW n, RemoveNode(z, n) PROVE UnknownInv'
  <2>1. \A y \in Zone : /\ zones'[y].management = zones[y].management
                        /\ zones'[y].nodes \subseteq zones[y].nodes
    BY <1>3 DEF RemoveNode, TypeOK, ZoneInfo
  <2> QED
    BY <2>1 DEF UnknownInv, Known
<1>4. ASSUME NEW z \in Zone, NEW m, zones' = [zones EXCEPT ![z] = [management |-> m, nodes |-> {}]]
      PROVE  UnknownInv'
  <2>1. \A y \in Zone : zones'[y] = IF y = z THEN [management |-> m, nodes |-> {}] ELSE zones[y]
    BY <1>4 DEF TypeOK
  <2> QED
    BY <2>1 DEF UnknownInv, Known
<1>5. ASSUME NEW f \in Fetcher, Listen(f) \/ Disconnect(f) \/ MarkChange(f)
      PROVE  UnknownInv'
  BY <1>1, <1>2, <1>3, <1>5 DEF Listen, OpenClient, EndFetcher, Connect, Receive, HandleEvent,
     EventRaises, Disconnect, MarkChange
<1>6. ASSUME NEW f \in Fetcher, Fetch(f) \/ Ask(f) \/ MarkFetched(f) PROVE UnknownInv'
  BY <1>1, <1>2, <1>6 DEF Fetch, Ask, Connect, StartFetch, AnswerFetch, ExitFetch, RetryFetch,
     AddFetched, MarkFetched
<1>7. ASSUME NEW r \in Replacer, Replace(r) PROVE UnknownInv'
  BY <1>1, <1>7 DEF Replace, StopCurrentThread, StartNewThread
<1>8. CASE \/ \E c \in Configs : ConfigEvent(c)
           \/ ConfigCleared \/ MarkRemoved \/ Loaded
  BY <1>1, <1>8 DEF ConfigEvent, ConfigCleared, MarkRemoved, Loaded
<1>9. ASSUME NEW z \in Zone, KeepZone(z) \/ RemoveRaises(z) PROVE UnknownInv'
  BY <1>1, <1>9 DEF KeepZone, RemoveRaises
<1>10. ASSUME NEW z \in Zone, AddZone(z) \/ UpdateZone(z) \/ RemoveZone(z)
       PROVE  UnknownInv'
  <2>1. PICK m : zones' = [zones EXCEPT ![z] = [management |-> m, nodes |-> {}]]
    BY <1>10, Zenon DEF AddZone, UpdateZone, RemoveZone
  <2> QED
    BY <1>4, <2>1, Zenon
<1>11. CASE Save \/ WriteFails \/ Stop \/ LeaveLoop \/ ShutDown
  <2>1. ASSUME NEW z \in Zone, ReadZone(z) PROVE zones' = zones
    BY <2>1 DEF ReadZone
  <2>2. CASE StartSave \/ WriteConfigMap \/ WriteFails
    BY <1>1, <2>2 DEF StartSave, WriteConfigMap, WriteFails
  <2>3. CASE Stop \/ LeaveLoop \/ ShutDown
    BY <1>1, <2>3, ShutDownEffect
  <2> QED
    BY <1>1, <1>11, <2>1, <2>2, <2>3 DEF Save
<1>12. ASSUME NEW n \in Node, NEW m \in Management, ClientJoins(n, m) \/ ClientLeaves(n, m)
       PROVE  UnknownInv'
  BY <1>1, <1>12 DEF ClientJoins, ClientLeaves
<1>13. CASE Restart
  BY <1>13, RestartFresh DEF Fresh, UnknownInv
<1>14. CASE UNCHANGED vars
  BY <1>1, <1>14 DEF vars
<1> QED
  BY <1>5, <1>6, <1>7, <1>8, <1>9, <1>10, <1>11, <1>12, <1>13, <1>14 DEF Next, Load

\* Each step is one of the contract's, or is none of its business.
LEMMA ContractStep ==
    ASSUME TypeOK, TypeOK', SnapshotInv, SnapshotInv', [Next]_vars
    PROVE  [Contract!Next]_<<Members, ~SaveLockFree, Due, saved>>
<1> USE DEF SnapshotInv
<1>1. /\ Members \in Contract!Nodes /\ Due \in Contract!Nodes
      /\ Members' \in Contract!Nodes /\ Due' \in Contract!Nodes
  BY DEF Contract!Nodes, Members, Due, TypeOK, ZoneInfo, SaverState
<1>2. SaveLockFree => Due = Contract!Nothing
  BY DEF RestingInv, Due, Contract!Nothing, Nobody
<1>3. SaveLockFree' => Due' = Contract!Nothing
  BY DEF RestingInv, Due, Contract!Nothing, Nobody
<1>4. CASE UNCHANGED <<saver, saved>>
  <2>1. \A z \in Zone : /\ Due'[z] \ Due[z] \subseteq Members'[z] \ Members[z]
                        /\ Due[z] \ Due'[z] \subseteq Members[z] \ Members'[z]
    BY <1>4 DEF Due, Members
  <2>2. SaveLockFree' = SaveLockFree
    BY <1>4 DEF SaveLockFree
  <2>3. Contract!Change
    BY <1>1, <1>2, <1>3, <1>4, <2>1, <2>2 DEF Contract!Change
  <2> QED
    BY <2>3 DEF Contract!Next
<1>5. ASSUME NEW z \in Zone, UpdateZone(z) \/ RemoveZone(z) PROVE Contract!Change
  <2>1. Due' = Due /\ saved' = saved /\ SaveLockFree' = SaveLockFree
    BY <1>5, Detached DEF SaveLockFree
  <2> QED
    BY <1>1, <2>1 DEF Contract!Change
<1>6. CASE StartSave
  <2>1. /\ saver'.left = Known /\ saver'.snapshot = Nobody /\ saver'.pc = "saving"
        /\ zones' = zones /\ saved' = saved /\ SaveLockFree
    BY <1>6 DEF StartSave, SaveLockFree
  <2>2. Members' = Members
    BY <2>1 DEF Members
  <2>3. Due' = Members
    BY <2>1 DEF UnknownInv, Due, Members, Nobody
  <2>4. Contract!Begin
    BY <2>1, <2>2, <2>3 DEF Contract!Begin, SaveLockFree
  <2> QED
    BY <2>4 DEF Contract!Next
<1>7. ASSUME NEW z \in Zone, ReadZone(z) PROVE UNCHANGED <<Members, ~SaveLockFree, Due, saved>>
  <2>1. /\ saver'.pc = saver.pc /\ saver'.left = saver.left \ {z}
        /\ \A y \in Zone : saver'.snapshot[y] = IF y = z THEN zones[z].nodes ELSE saver.snapshot[y]
        /\ zones' = zones /\ saved' = saved /\ z \in saver.left
    BY <1>7 DEF ReadZone, TypeOK, SaverState
  <2>2. Due' = Due
    BY <2>1 DEF Due
  <2> QED
    BY <2>1, <2>2 DEF Members, SaveLockFree
<1>8. CASE WriteConfigMap \/ WriteFails
  <2>1. /\ ~SaveLockFree /\ SaveLockFree' /\ saver.left = {} /\ zones' = zones
        /\ saved' \in {saved, saver.snapshot}
    BY <1>8 DEF WriteConfigMap, WriteFails, SaveLockFree, Waiting
  <2>2. Due = saver.snapshot
    BY <2>1 DEF Due, TypeOK, SaverState
  <2>3. Members' = Members
    BY <2>1 DEF Members
  <2>4. Contract!Write \/ Contract!GiveUp
    BY <1>3, <2>1, <2>2, <2>3 DEF Contract!Write, Contract!GiveUp
  <2> QED
    BY <2>4 DEF Contract!Next
<1>9. CASE LeaveLoop
  <2>1. SaveLockFree /\ SaveLockFree' /\ zones' = zones /\ saved' = saved
    BY <1>9 DEF LeaveLoop, SaveLockFree, TypeOK, SaverState
  <2> QED
    BY <1>2, <1>3, <2>1 DEF Members
<1>10. CASE Restart
  <2>1. SaveLockFree' /\ saved' = saved
    BY <1>10, RestartFresh DEF Restart, Fresh, SaveLockFree
  <2>2. Members' = Contract!Nothing
    BY <1>10, RestartFresh DEF Fresh, Members, Contract!Nothing
  <2>3. Contract!GiveUp
    BY <1>3, <2>1, <2>2 DEF Contract!GiveUp
  <2> QED
    BY <2>3 DEF Contract!Next
<1> QED
  BY <1>4, <1>5, <1>6, <1>7, <1>8, <1>9, <1>10, SaverKinds DEF Save, Contract!Next

\* Each write of the ConfigMap has every node that was in its zone all through the
\* save and none that was there at no time: whichever threads change the topology
\* meanwhile, whatever zones the user adds, changes and removes, whether the
\* Kubernetes API fails or the controller stops or starts again (topology.py:74).
THEOREM ContractKept == Spec => ImplementsContract
<1>1. Init => Contract!Init
  <2> SUFFICES ASSUME Init PROVE Contract!Init
    OBVIOUS
  <2>1. /\ saver.pc # "saving" /\ saver.left = {} /\ saver.snapshot = Nobody
        /\ saved = Nobody /\ Members = Nobody
    BY InitFresh, MembersInit DEF Init, Fresh
  <2>2. Due = Nobody
    BY <2>1 DEF Due, Nobody
  <2> QED
    BY <2>1, <2>2 DEF Contract!Init, Contract!Nothing, Nobody, SaveLockFree
<1>2. TypeOK /\ ThreadInv /\ SnapshotInv /\ [Next]_vars => SnapshotInv'
  BY RestingStep, UnknownStep DEF SnapshotInv
<1>3. TypeOK /\ TypeOK' /\ SnapshotInv /\ SnapshotInv' /\ [Next]_vars
      => [Contract!Next]_<<Members, ~SaveLockFree, Due, saved>>
  BY ContractStep
<1> QED
  BY <1>1, <1>2, <1>3, TypesKept, SnapshotInit, PTL
  DEF Spec, ImplementsContract, Contract!Spec

=============================================================================
