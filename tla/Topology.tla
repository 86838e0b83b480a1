------------------------------ MODULE Topology ------------------------------
(* The topology service of the controller: which node belongs to which zone.  *)
(*                                                                            *)
(* The user configures zones, each with an NVMesh management; the watcher     *)
(* thread follows the configuration.  Per zone a fetcher thread listens to    *)
(* its management on a websocket, and starts a second thread that fetches the *)
(* nodes known so far.  Both update the Topology object, whose listener marks *)
(* the topology ConfigMap out of date; the saver loop writes it out, and the  *)
(* node services find their zone in it.  When the process is told to stop, the*)
(* loop ends, and its thread stops the others and waits for them.             *)
(*                                                                            *)
(* topology.lock is held over several steps by the watcher only, and          *)
(* save_config_map_lock by the saver only; everyone else holds them for one   *)
(* step.                                                                      *)
EXTENDS Naturals, Sequences, FiniteSets

CONSTANTS
    Zone, Node, Management,
    Fetcher,        \* ZoneTopologyFetcherThread objects
    Replacer,       \* "zone-replace-thread" threads
    None,           \* Python's None
    Configs,        \* the topologies the user may configure
    Homes,          \* <<node, management>>: where a node may be a client
    MaxEvents,      \* bound: events in flight on one websocket
    MaxChanges,     \* bound: how often the configuration changes or is loaded again
    CanDisconnect,  \* may a websocket fail?
    Leavers,        \* the nodes that may leave their management
    CanRestart,     \* may the controller crash and start again?
    CanStop,        \* may it be told to stop?
    ApiFails        \* may a call of the Kubernetes API fail?

Config == [Zone -> Management \cup {None}]

ASSUME NoneAssumption == None \notin Zone \cup Management \cup Fetcher \cup Config
ASSUME ConfigsAssumption == Configs \subseteq Config
ASSUME HomesAssumption == Homes \subseteq Node \X Management /\ Leavers \subseteq Node
ASSUME BoundsAssumption == MaxEvents \in Nat /\ MaxChanges \in Nat
ASSUME FlagsAssumption ==
    {CanDisconnect, CanRestart, CanStop, ApiFails} \subseteq BOOLEAN

VARIABLES
    config,      \* Config.TOPOLOGY: management of each zone; None when empty
    changes,     \* how often it was changed or loaded again
    nodes,       \* Topology.nodes: the zone of each node
    zones,       \* Topology.zones: management and nodes of each zone
    disabled,    \* Topology.temp_disabled_zones
    ws_threads,  \* TopologyService.ws_threads: the fetcher of each zone
    fetchers,    \* ZoneTopologyFetcherThread: its attributes and where it is
    events,      \* events under way on its websocket
    fetches,     \* fetch_and_add_nodes_for_zone, one at a time per fetcher
    replacers,   \* stop_current_thread_and_start_new_one
    watcher,     \* config_map_watcher_thread inside load_zones_configuration
    required,    \* config_map_update_required
    saver,       \* update_topology_config_map_loop
    saved,       \* the topology ConfigMap: nodes of each zone
    stopping,    \* TopologyService.stop
    clients      \* the managements: the clients each one knows

topology == <<nodes, zones>>
threads == <<ws_threads, fetchers, events, fetches, replacers>>
saving == <<required, saver, saved>>
service == <<ws_threads, replacers, watcher, saving>>
outside == <<config, changes, clients, stopping>>
vars == <<config, changes, topology, disabled, threads, watcher, saving, clients,
          stopping>>

-----------------------------------------------------------------------------
ZoneInfo == [management : Management \cup {None}, nodes : SUBSET Node]
Event == [name : {"newClientEvent", "clientRemovedEvent"}, node : Node]

FetcherPc == {"unused", "loop", "connecting", "listening", "received", "changed",
              "ended"}
FetchPc == {"idle", "asking", "answered", "failed", "changed", "exited"}
ReplacerPc == {"unused", "stop", "join", "ended"}

FetcherState ==
    [zone : Zone \cup {None}, management : Management \cup {None},
     stop_event : BOOLEAN, ws_client : BOOLEAN, pc : FetcherPc]
FetchState == [spawned : BOOLEAN, nodes : SUBSET Node, pc : FetchPc]
ReplacerState ==
    [zone : Zone \cup {None}, management : Management \cup {None},
     fetcher : Fetcher \cup {None}, pc : ReplacerPc]
WatcherState == [left : SUBSET Zone, existing : SUBSET Zone,
                 pc : {"idle", "loading", "changed"}]
SaverState == [left : SUBSET Zone, snapshot : [Zone -> SUBSET Node],
               pc : {"failed", "waiting", "saving", "dead"}]
StopState == [left : SUBSET Fetcher,
              pc : {"no", "told", "closing", "joining", "ended", "raised"}]

Known == {z \in Zone : zones[z].management # None}
Members == [z \in Zone |-> zones[z].nodes]

TopologyLockFree == watcher.pc = "idle"
SaveLockFree == saver.pc # "saving"
Watching == stopping.pc # "ended" /\ saver.pc # "failed"

NewFetcher(z, m) == [zone |-> z, management |-> m, stop_event |-> FALSE,
                     ws_client |-> FALSE, pc |-> "loop"]
NoFetcher == [NewFetcher(None, None) EXCEPT !.pc = "unused"]
NoFetch == [spawned |-> FALSE, nodes |-> {}, pc |-> "idle"]
NoReplacer == [zone |-> None, management |-> None, fetcher |-> None, pc |-> "unused"]
Idle == [left |-> {}, existing |-> {}, pc |-> "idle"]
Waiting == [left |-> {}, snapshot |-> [z \in Zone |-> {}], pc |-> "waiting"]
Nobody == [z \in Zone |-> {}]
Serving == [left |-> {}, pc |-> "no"]

\* A fetcher for every configured zone.
Assigned(c) ==
    {w \in [Zone -> Fetcher \cup {None}] :
        /\ \A z \in Zone : w[z] = None <=> c[z] = None
        /\ \A y, z \in Zone : w[y] = w[z] /\ w[y] # None => y = z}

Running(c, w) ==
    [f \in Fetcher |->
        IF \E z \in Zone : w[z] = f
        THEN LET z == CHOOSE z \in Zone : w[z] = f IN NewFetcher(z, c[z])
        ELSE NoFetcher]

\* What the process has done of c when the watcher and the saver begin, or when a
\* call of the Kubernetes API has ended run(): it raises in the constructor of a
\* zone's thread, with the zone set already, or in load_topology_from_config_map.
\* The latter looks for each saved zone's value, not its name, among the zones'
\* names, and so loads nothing.
PartsOf(c) == {d \in Config : \A z \in Zone : d[z] \in {None, c[z]}}
Begun(c) ==
    {[zones |-> c, threads |-> c, pc |-> "waiting"]} \cup
    {b \in [zones : PartsOf(c), threads : PartsOf(c), pc : {"failed"}] :
        /\ ApiFails
        /\ \/ b.zones = c /\ b.threads = c
           \/ \E z \in Zone : /\ b.zones[z] # None
                              /\ b.threads = [b.zones EXCEPT ![z] = None]}

Init ==
    /\ config \in Configs
    /\ changes = 0
    /\ nodes = [n \in Node |-> None]
    /\ \E b \in Begun(config) :
          /\ zones = [z \in Zone |-> [management |-> b.zones[z], nodes |-> {}]]
          /\ ws_threads \in Assigned(b.threads)
          /\ fetchers = Running(b.threads, ws_threads)
          /\ saver = [Waiting EXCEPT !.pc = b.pc]
    /\ disabled = {}
    /\ events = [f \in Fetcher |-> <<>>]
    /\ fetches = [f \in Fetcher |-> NoFetch]
    /\ replacers = [r \in Replacer |-> NoReplacer]
    /\ watcher = Idle
    /\ required = FALSE
    /\ saved = Nobody
    /\ stopping = Serving
    /\ clients = [m \in Management |-> {}]

-----------------------------------------------------------------------------
(* The Topology object *)

\* Nodes that add_nodes_for_zone(z, ns) moves, and those it raises KeyError on
\* after it has written nodes[n]: z is gone, or the old zone is or lacks n.
Moved(z, ns) == {n \in ns : nodes[n] # z}
Broken(z, ns) ==
    {n \in Moved(z, ns) : \/ z \notin Known
                          \/ nodes[n] # None /\ n \notin zones[nodes[n]].nodes}

\* Mutant: a node that moves stays in its old zone.
PutKeepsOld(z, ns) ==
    /\ nodes' = [n \in Node |-> IF n \in ns THEN z ELSE nodes[n]]
    /\ zones' = IF z \in Known THEN [zones EXCEPT ![z].nodes = @ \cup ns] ELSE zones

\* Mutant: the nodes of the zone are replaced by those added.
PutReplaces(z, ns) ==
    /\ nodes' = [n \in Node |-> IF n \in ns THEN z ELSE nodes[n]]
    /\ zones' = IF z \in Known THEN [zones EXCEPT ![z].nodes = ns] ELSE zones

\* Writes nodes first: with z gone it raises before it touches the zones.
Put(z, ns) ==
    /\ nodes' = [n \in Node |-> IF n \in ns THEN z ELSE nodes[n]]
    /\ zones' = IF z \in Known
                THEN [y \in Zone |-> [zones[y] EXCEPT
                        !.nodes = IF y = z THEN @ \cup ns
                                  ELSE @ \ {n \in ns : nodes[n] = y}]]
                ELSE zones

AddNodes(z, ns) == /\ TopologyLockFree
                   /\ Broken(z, ns) = {}
                   /\ Put(z, Moved(z, ns))

\* The nodes are handled in any order, up to the one that raises.
AddNodesRaises(z, ns) ==
    /\ TopologyLockFree
    /\ \E n \in Broken(z, ns), done \in SUBSET (Moved(z, ns) \ Broken(z, ns)) :
          Put(z, done \cup {n})

RemoveNode(z, n) ==
    /\ TopologyLockFree
    /\ nodes' = [nodes EXCEPT ![n] = IF @ = z THEN None ELSE @]
    /\ zones' = [zones EXCEPT ![z].nodes = @ \ {n}]

\* Mutant: the flag is set without save_config_map_lock.
MarkUnlocked == /\ required' = TRUE
                /\ UNCHANGED <<saver, saved>>

\* on_change: mark_config_map_update_required, the topology's only listener.
Mark == /\ SaveLockFree
        /\ required' = TRUE
        /\ UNCHANGED <<saver, saved>>

-----------------------------------------------------------------------------
(* ZoneTopologyFetcherThread *)

Goto(f, l) == fetchers' = [fetchers EXCEPT ![f].pc = l]
Enable(f) == disabled' = disabled \ {fetchers[f].zone}

\* An exception or the end of the listening loop: "finally" disables the zone.
Leave(f) == /\ Goto(f, "loop")
            /\ disabled' = disabled \cup {fetchers[f].zone}
            /\ events' = [events EXCEPT ![f] = <<>>]

OpenClient(f) ==
    /\ fetchers[f].pc = "loop" /\ ~fetchers[f].stop_event
    /\ fetchers' = [fetchers EXCEPT
          ![f] = [@ EXCEPT !.pc = "connecting", !.ws_client = TRUE]]
    /\ UNCHANGED <<outside, service, topology, disabled, events, fetches>>

EndFetcher(f) ==
    /\ fetchers[f].pc = "loop" /\ fetchers[f].stop_event
    /\ Goto(f, "ended")
    /\ UNCHANGED <<outside, service, topology, disabled, events, fetches>>

\* Mutant: the nodes known so far are not fetched.
ConnectOnly(f) ==
    /\ fetchers[f].pc = "connecting"
    /\ Goto(f, "listening")
    /\ Enable(f)
    /\ UNCHANGED <<outside, service, topology, events, fetches>>

\* Connect, log in, enable the zone, register for events, spawn the fetch.
\* Bound: a spawned fetch has tried fetching_lock before the next connection.
Connect(f) ==
    /\ fetchers[f].pc = "connecting"
    /\ ~fetches[f].spawned
    /\ Goto(f, "listening")
    /\ Enable(f)
    /\ fetches' = [fetches EXCEPT ![f].spawned = TRUE]
    /\ UNCHANGED <<outside, service, topology, events>>

\* No connection, a lost one, or one that stop() has closed.
Disconnect(f) ==
    /\ fetchers[f].pc \in {"connecting", "listening"}
    /\ CanDisconnect \/ fetchers[f].stop_event
    /\ Leave(f)
    /\ UNCHANGED <<outside, service, topology, fetches>>

Closed(f) == fetchers[f].stop_event /\ Disconnect(f)

Receive(f) ==
    /\ fetchers[f].pc = "listening" /\ ~fetchers[f].stop_event
    /\ events[f] # <<>>
    /\ Goto(f, "received")
    /\ UNCHANGED <<outside, service, topology, disabled, events, fetches>>

Received(f, name) == fetchers[f].pc = "received" /\ Head(events[f]).name = name

\* on_event_received, on "newClientEvent" and "clientRemovedEvent".
HandleEvent(f) ==
    /\ \/ /\ Received(f, "newClientEvent")
          /\ AddNodes(fetchers[f].zone, {Head(events[f]).node})
       \/ /\ Received(f, "clientRemovedEvent")
          /\ fetchers[f].zone \in Known
          /\ RemoveNode(fetchers[f].zone, Head(events[f]).node)
    /\ Goto(f, "changed")
    /\ events' = [events EXCEPT ![f] = Tail(@)]
    /\ UNCHANGED <<outside, service, disabled, fetches>>

\* The handler raises: the zone is gone, or the old zone has lost the node.
EventRaises(f) ==
    /\ \/ /\ Received(f, "newClientEvent")
          /\ AddNodesRaises(fetchers[f].zone, {Head(events[f]).node})
       \/ /\ Received(f, "clientRemovedEvent")
          /\ fetchers[f].zone \notin Known
          /\ RemoveNode(fetchers[f].zone, Head(events[f]).node)
    /\ Leave(f)
    /\ UNCHANGED <<outside, service, fetches>>

MarkChange(f) ==
    /\ fetchers[f].pc = "changed"
    /\ Mark
    /\ Goto(f, "listening")
    /\ UNCHANGED <<outside, topology, disabled, ws_threads, events, fetches, replacers,
                   watcher>>

Listen(f) == \/ OpenClient(f) \/ EndFetcher(f)
             \/ Receive(f) \/ HandleEvent(f) \/ EventRaises(f)

-----------------------------------------------------------------------------
(* fetch_and_add_nodes_for_zone *)

Resting == {"idle", "exited"}

\* A non-blocking acquire of fetching_lock: a fetch in progress is left to it.
StartFetch(f) ==
    /\ fetches[f].spawned
    /\ LET l == IF fetches[f].pc \in Resting /\ ~fetchers[f].stop_event
                THEN "asking" ELSE fetches[f].pc
       IN fetches' = [fetches EXCEPT ![f] = [@ EXCEPT !.pc = l, !.spawned = FALSE]]
    /\ UNCHANGED <<outside, service, topology, disabled, fetchers, events>>

AnswerFetch(f) ==
    /\ fetches[f].pc = "asking"
    /\ fetches' = [fetches EXCEPT
          ![f] = [@ EXCEPT !.pc = "answered", !.nodes = clients[fetchers[f].management]]]
    /\ UNCHANGED <<outside, service, topology, disabled, fetchers, events>>

\* An error answer to the request for dbUUID ends the thread, not the attempt: the
\* SDK calls exit(1), and no handler catches SystemExit.
ExitFetch(f) ==
    /\ fetches[f].pc = "asking"
    /\ fetches' = [fetches EXCEPT ![f].pc = "exited"]
    /\ UNCHANGED <<outside, service, topology, disabled, fetchers, events>>

\* Any other failed attempt is repeated until the zone's thread is stopped.
RetryFetch(f) ==
    /\ \/ /\ fetches[f].pc = "failed" /\ ~fetchers[f].stop_event
          /\ fetches' = [fetches EXCEPT ![f].pc = "asking"]
       \/ /\ fetches[f].pc \in {"asking", "failed"} /\ fetchers[f].stop_event
          /\ fetches' = [fetches EXCEPT ![f].pc = "idle"]
    /\ UNCHANGED <<outside, service, topology, disabled, fetchers, events>>

AddFetched(f) ==
    /\ fetches[f].pc = "answered"
    /\ \/ /\ AddNodes(fetchers[f].zone, fetches[f].nodes)
          /\ fetches' = [fetches EXCEPT ![f] = [@ EXCEPT !.pc = "changed", !.nodes = {}]]
       \/ /\ AddNodesRaises(fetchers[f].zone, fetches[f].nodes)
          /\ fetches' = [fetches EXCEPT ![f] = [@ EXCEPT !.pc = "failed", !.nodes = {}]]
    /\ UNCHANGED <<outside, service, disabled, fetchers, events>>

MarkFetched(f) ==
    /\ fetches[f].pc = "changed"
    /\ Mark
    /\ fetches' = [fetches EXCEPT ![f].pc = "idle"]
    /\ UNCHANGED <<outside, topology, disabled, ws_threads, fetchers, events,
                   replacers, watcher>>

Fetch(f) == StartFetch(f) \/ RetryFetch(f) \/ AddFetched(f)
Ask(f) == Connect(f) \/ AnswerFetch(f) \/ ExitFetch(f)

-----------------------------------------------------------------------------
(* TopologyService: threads of the zones *)

\* ZoneTopologyFetcherThread(...).start(), on a fetcher never used before.
StartListening(z, m) ==
    \E f \in Fetcher :
        /\ fetchers[f].pc = "unused"
        /\ ws_threads' = [ws_threads EXCEPT ![z] = f]
        /\ fetchers' = [fetchers EXCEPT ![f] = NewFetcher(z, m)]

\* stop() sets the event and then closes ws_client: it raises while there is
\* none (Stops is FALSE).
StopListening(f) == fetchers' = [fetchers EXCEPT ![f].stop_event = TRUE]
Stops(f) == fetchers[f].ws_client

Step(r, l) == replacers' = [replacers EXCEPT ![r].pc = l]

StopCurrentThread(r) ==
    LET f == ws_threads[replacers[r].zone] IN
    /\ replacers[r].pc = "stop"
    /\ IF f # None /\ Stops(f)
       THEN replacers' = [replacers EXCEPT ![r] = [@ EXCEPT !.pc = "join", !.fetcher = f]]
       ELSE Step(r, "ended")
    /\ IF f # None THEN StopListening(f) ELSE UNCHANGED fetchers
    /\ UNCHANGED <<outside, topology, disabled, ws_threads, events, fetches, watcher,
                   saving>>

\* Mutant: the new thread does not wait for the current one to end.
StartUnjoined(r) ==
    /\ replacers[r].pc = "join"
    /\ Step(r, "ended")
    /\ StartListening(replacers[r].zone, replacers[r].management)
    /\ UNCHANGED <<outside, topology, disabled, events, fetches, watcher, saving>>

StartNewThread(r) ==
    /\ replacers[r].pc = "join"
    /\ fetchers[replacers[r].fetcher].pc = "ended"
    /\ Step(r, "ended")
    /\ \/ StartListening(replacers[r].zone, replacers[r].management)
       \/ ApiFails /\ UNCHANGED <<ws_threads, fetchers>>
    /\ UNCHANGED <<outside, topology, disabled, events, fetches, watcher, saving>>

Replace(r) == StopCurrentThread(r) \/ StartNewThread(r)

-----------------------------------------------------------------------------
(* TopologyService: the configuration watcher *)

\* The saver reads a zone's set of nodes through the zone's old dictionary,
\* which no longer changes once the zone is replaced or removed.
Detach(z) ==
    saver' = IF z \in saver.left
             THEN [saver EXCEPT !.left = @ \ {z}, !.snapshot[z] = zones[z].nodes]
             ELSE saver

\* An event of the ConfigMap: a change, or the event that each watch begins with.
\* Bound: the latter counts as a change, unless something was not loaded before.
ConfigEvent(c) ==
    /\ Watching /\ TopologyLockFree
    /\ \/ changes < MaxChanges /\ changes' = changes + 1
       \/ /\ c = config /\ changes' = changes
          /\ \E z \in Zone : zones[z].management # c[z]
    /\ config' = c
    /\ watcher' = [pc |-> "loading", left |-> {z \in Zone : c[z] # None},
                   existing |-> Known]
    /\ UNCHANGED <<topology, disabled, threads, saving, clients, stopping>>

\* An event without a topology leaves the zones as they are.
ConfigCleared ==
    /\ Watching /\ TopologyLockFree
    /\ config # None /\ changes < MaxChanges
    /\ config' = None /\ changes' = changes + 1
    /\ UNCHANGED <<topology, disabled, threads, watcher, saving, clients, stopping>>

Loading(z) == watcher.pc = "loading" /\ z \in watcher.left
Handled(z) == watcher' = [watcher EXCEPT !.left = @ \ {z}, !.existing = @ \ {z}]
Abort == watcher' = Idle

KeepZone(z) ==
    /\ Loading(z)
    /\ zones[z].management = config[z]
    /\ Handled(z)
    /\ UNCHANGED <<outside, topology, disabled, threads, saving>>

\* The constructor of the zone's thread reads a ConfigMap, and may raise.
AddZone(z) ==
    /\ Loading(z)
    /\ z \notin Known
    /\ zones' = [zones EXCEPT ![z] = [management |-> config[z], nodes |-> {}]]
    /\ \/ StartListening(z, config[z]) /\ Handled(z)
       \/ ApiFails /\ Abort /\ UNCHANGED <<ws_threads, fetchers>>
    /\ UNCHANGED <<outside, nodes, disabled, events, fetches, replacers, saving>>

\* Mutant: the zone's entry is deleted, and its thread is left alone.
UpdateZoneOnly(z) ==
    /\ Loading(z)
    /\ z \in Known /\ zones[z].management # config[z]
    /\ zones' = [zones EXCEPT ![z] = None]
    /\ Handled(z)
    /\ UNCHANGED <<outside, nodes, disabled, threads, saving>>

UpdateZone(z) ==
    /\ Loading(z)
    /\ z \in Known /\ zones[z].management # config[z]
    /\ Detach(z)
    /\ zones' = [zones EXCEPT ![z] = [management |-> config[z], nodes |-> {}]]
    /\ \E r \in Replacer :
          /\ replacers[r].pc = "unused"
          /\ replacers' = [replacers EXCEPT ![r] =
                [zone |-> z, management |-> config[z], fetcher |-> None, pc |-> "stop"]]
    /\ Handled(z)
    /\ UNCHANGED <<outside, nodes, disabled, ws_threads, fetchers, events, fetches,
                   required, saved>>

Removing(z) == /\ watcher.pc = "loading" /\ watcher.left = {}
               /\ z \in watcher.existing

\* Nodes whose removal from Topology.nodes raises KeyError.
Unlisted(z) == {n \in zones[z].nodes : nodes[n] = None}
Forget(z, ns) == nodes' = [n \in Node |-> IF n \in ns /\ nodes[n] = z THEN None
                                          ELSE nodes[n]]

\* Mutant: the zone's thread is not stopped.
RemoveZoneOnly(z) ==
    /\ Removing(z)
    /\ Unlisted(z) = {}
    /\ Detach(z)
    /\ Forget(z, zones[z].nodes)
    /\ zones' = [zones EXCEPT ![z] = [management |-> None, nodes |-> {}]]
    /\ watcher' = [watcher EXCEPT !.existing = @ \ {z}, !.pc = "changed"]
    /\ UNCHANGED <<outside, disabled, threads, required, saved>>

RemoveZone(z) ==
    /\ Removing(z)
    /\ ws_threads[z] # None /\ Stops(ws_threads[z]) /\ Unlisted(z) = {}
    /\ StopListening(ws_threads[z])
    /\ Detach(z)
    /\ Forget(z, zones[z].nodes)
    /\ zones' = [zones EXCEPT ![z] = [management |-> None, nodes |-> {}]]
    /\ watcher' = [watcher EXCEPT !.existing = @ \ {z}, !.pc = "changed"]
    /\ UNCHANGED <<outside, disabled, ws_threads, events, fetches, replacers, required,
                   saved>>

\* The rest of the configuration is not loaded, and the zone stays.
RemoveRaises(z) ==
    LET f == ws_threads[z] IN
    /\ Removing(z)
    /\ \/ f = None /\ UNCHANGED <<fetchers, nodes>>
       \/ f # None /\ ~Stops(f) /\ StopListening(f) /\ UNCHANGED nodes
       \/ /\ f # None /\ Stops(f) /\ Unlisted(z) # {}
          /\ StopListening(f)
          /\ \E ns \in SUBSET zones[z].nodes : Forget(z, ns)
    /\ Abort
    /\ UNCHANGED <<outside, zones, disabled, ws_threads, events, fetches, replacers,
                   saving>>

\* topology.remove_zone calls on_change while topology.lock is held.
MarkRemoved ==
    /\ watcher.pc = "changed"
    /\ Mark
    /\ watcher' = [watcher EXCEPT !.pc = "loading"]
    /\ UNCHANGED <<outside, topology, disabled, threads>>

Loaded ==
    /\ watcher.pc = "loading" /\ watcher.left = {} /\ watcher.existing = {}
    /\ watcher' = Idle
    /\ UNCHANGED <<outside, topology, disabled, threads, saving>>

Load == \/ \E z \in Zone : KeepZone(z) \/ AddZone(z) \/ UpdateZone(z)
                           \/ RemoveZone(z) \/ RemoveRaises(z)
        \/ Loaded

-----------------------------------------------------------------------------
(* update_topology_config_map_loop *)

\* Mutant: the zones that are disabled are left out.
StartSaveEnabled ==
    /\ saver.pc = "waiting" /\ required
    /\ saver' = [pc |-> "saving", left |-> Known \ disabled, snapshot |-> Nobody]
    /\ UNCHANGED <<outside, topology, disabled, threads, watcher, required, saved>>

\* With save_config_map_lock; the zones are listed first, then read one by one.
StartSave ==
    /\ saver.pc = "waiting" /\ required
    /\ saver' = [pc |-> "saving", left |-> Known, snapshot |-> Nobody]
    /\ UNCHANGED <<outside, topology, disabled, threads, watcher, required, saved>>

ReadZone(z) ==
    /\ z \in saver.left
    /\ saver' = [saver EXCEPT !.left = @ \ {z}, !.snapshot[z] = zones[z].nodes]
    /\ UNCHANGED <<outside, topology, disabled, threads, watcher, required, saved>>

WriteConfigMap ==
    /\ saver.pc = "saving" /\ saver.left = {}
    /\ saved' = saver.snapshot
    /\ required' = FALSE
    /\ saver' = Waiting
    /\ UNCHANGED <<outside, topology, disabled, threads, watcher>>

\* An exception, before or after the write, ends the loop and the service.
WriteFails ==
    /\ ApiFails
    /\ saver.pc = "saving" /\ saver.left = {}
    /\ saved' \in {saved, saver.snapshot}
    /\ saver' = [Waiting EXCEPT !.pc = "dead"]
    /\ UNCHANGED <<outside, topology, disabled, threads, watcher, required>>

Save == StartSave \/ WriteConfigMap \/ \E z \in Zone : ReadZone(z)

-----------------------------------------------------------------------------
(* The shutdown *)

InUse == {ws_threads[z] : z \in Zone} \ {None}

\* NVMeshControllerService.stop, on a signal; it then waits for the saver's thread.
Stop ==
    /\ CanStop /\ stopping.pc = "no"
    /\ stopping' = [stopping EXCEPT !.pc = "told"]
    /\ UNCHANGED <<config, changes, clients, topology, disabled, threads, watcher, saving>>


\* The loop ends, unless it did with an exception, and run() goes on with stop().
LeaveLoop ==
    /\ stopping.pc = "told" /\ saver.pc = "waiting"
    /\ saver' = [saver EXCEPT !.pc = "dead"]
    /\ stopping' = [stopping EXCEPT !.pc = "closing", !.left = InUse]
    /\ UNCHANGED <<config, changes, clients, topology, disabled, threads, watcher, required,
                   saved>>

\* One thread after the other is stopped; one without a client raises, which ends
\* stop() and the saver's thread.
StopThread(f) ==
    /\ stopping.pc = "closing" /\ f \in stopping.left
    /\ StopListening(f)
    /\ stopping' = IF Stops(f) THEN [stopping EXCEPT !.left = @ \ {f}]
                   ELSE [stopping EXCEPT !.pc = "raised", !.left = {}]
    /\ UNCHANGED <<config, changes, clients, topology, disabled, ws_threads, events, fetches,
                   replacers, watcher, saving>>

\* The threads in ws_threads by then are joined.
StoppedAll ==
    /\ stopping.pc = "closing" /\ stopping.left = {}
    /\ stopping' = [stopping EXCEPT !.pc = "joining", !.left = InUse]
    /\ UNCHANGED <<config, changes, clients, topology, disabled, threads, watcher, saving>>

\* All of them, and the watcher, whose last event may come until then.
Join ==
    /\ stopping.pc = "joining" /\ TopologyLockFree
    /\ \A f \in stopping.left : fetchers[f].pc = "ended"
    /\ stopping' = [stopping EXCEPT !.pc = "ended", !.left = {}]
    /\ UNCHANGED <<config, changes, clients, topology, disabled, threads, watcher, saving>>

ShutDown == (\E f \in Fetcher : StopThread(f)) \/ StoppedAll \/ Join

-----------------------------------------------------------------------------
(* The managements, and the controller's process *)

\* The fetchers whose connection is registered for the events of m.
Registered(m) ==
    {f \in Fetcher : /\ fetchers[f].management = m
                     /\ fetchers[f].pc \in {"listening", "received", "changed"}}

Notify(m, e) ==
    /\ \A f \in Registered(m) : Len(events[f]) < MaxEvents
    /\ events' = [f \in Fetcher |-> IF f \in Registered(m) THEN Append(events[f], e)
                                    ELSE events[f]]

ClientJoins(n, m) ==
    /\ <<n, m>> \in Homes /\ n \notin clients[m]
    /\ clients' = [clients EXCEPT ![m] = @ \cup {n}]
    /\ Notify(m, [name |-> "newClientEvent", node |-> n])
    /\ UNCHANGED <<service, config, changes, stopping, topology, disabled, fetchers,
                   fetches>>

ClientLeaves(n, m) ==
    /\ n \in Leavers /\ n \in clients[m]
    /\ clients' = [clients EXCEPT ![m] = @ \ {n}]
    /\ Notify(m, [name |-> "clientRemovedEvent", node |-> n])
    /\ UNCHANGED <<service, config, changes, stopping, topology, disabled, fetchers,
                   fetches>>

\* Only the ConfigMaps and the managements outlive the process.
Restart ==
    /\ CanRestart /\ config # None
    /\ nodes' = [n \in Node |-> None]
    /\ \E b \in Begun(config) :
          /\ zones' = [z \in Zone |-> [management |-> b.zones[z], nodes |-> {}]]
          /\ ws_threads' \in Assigned(b.threads)
          /\ fetchers' = Running(b.threads, ws_threads')
          /\ saver' = [Waiting EXCEPT !.pc = b.pc]
    /\ disabled' = {}
    /\ events' = [f \in Fetcher |-> <<>>]
    /\ fetches' = [f \in Fetcher |-> NoFetch]
    /\ replacers' = [r \in Replacer |-> NoReplacer]
    /\ watcher' = Idle
    /\ required' = FALSE
    /\ stopping' = Serving
    /\ UNCHANGED <<config, changes, clients, saved>>

-----------------------------------------------------------------------------
Next ==
    \/ \E f \in Fetcher : \/ Listen(f) \/ Disconnect(f) \/ MarkChange(f)
                          \/ Fetch(f) \/ MarkFetched(f) \/ Ask(f)
    \/ \E r \in Replacer : Replace(r)
    \/ \E c \in Configs : ConfigEvent(c)
    \/ ConfigCleared \/ Load \/ MarkRemoved
    \/ Save \/ WriteFails
    \/ Stop \/ LeaveLoop \/ ShutDown
    \/ \E n \in Node, m \in Management : ClientJoins(n, m) \/ ClientLeaves(n, m)
    \/ Restart

Spec == Init /\ [][Next]_vars

\* The threads run on.  The saver sleeps outside its lock for a second
\* (CONFIG_MAP_UPDATE_INTERVAL_SECONDS), so whoever waits for it gets it.
\* Between two rounds it asks whether to stop.  A connection that is closed ends
\* what the thread does with it.
\* Nothing is assumed of the user and of the managements: they need not take a
\* connection, nor answer a fetch (Ask).
Fairness ==
    /\ \A f \in Fetcher :
          /\ SF_vars(Listen(f) \/ Closed(f) \/ MarkChange(f))
          /\ SF_vars(Fetch(f) \/ MarkFetched(f))
    /\ WF_vars(Save \/ ShutDown) /\ SF_vars(LeaveLoop)

FairSpec == Spec /\ Fairness

-----------------------------------------------------------------------------
(* Properties *)

TypeOK ==
    /\ config \in Configs \cup {None}
    /\ changes \in 0..MaxChanges
    /\ nodes \in [Node -> Zone \cup {None}]
    /\ zones \in [Zone -> ZoneInfo]
    /\ disabled \subseteq Zone
    /\ ws_threads \in [Zone -> Fetcher \cup {None}]
    /\ fetchers \in [Fetcher -> FetcherState]
    /\ events \in [Fetcher -> Seq(Event)]
    /\ fetches \in [Fetcher -> FetchState]
    /\ replacers \in [Replacer -> ReplacerState]
    /\ watcher \in WatcherState
    /\ required \in BOOLEAN
    /\ saver \in SaverState
    /\ saved \in [Zone -> SUBSET Node]
    /\ stopping \in StopState
    /\ clients \in [Management -> SUBSET Node]

\* Topology.nodes and the nodes of Topology.zones say the same (topology.py:30,
\* 55: both are written together), whichever threads add, move and remove nodes.
Agreement ==
    \A n \in Node, z \in Zone : nodes[n] = z <=> n \in zones[z].nodes

\* Somebody has changed the topology and is about to mark it.
Marking == \/ \E f \in Fetcher : \/ fetchers[f].pc = "changed"
                                 \/ fetches[f].pc = "changed"
           \/ watcher.pc = "changed"

\* No change of the topology is lost to the ConfigMap: whenever the two differ
\* the flag is set or about to be, also for changes made while the saver writes
\* (topology_service.py:194, 203).
NoLostSave ==
    saver.pc = "waiting" => \/ required \/ Marking
                            \/ saved = Members

Replacing(r) == replacers[r].pc \in {"stop", "join"}
Active(f) == fetchers[f].pc \notin {"unused", "ended"} /\ ~fetchers[f].stop_event

\* Nothing is under way: every zone's thread listens and has been told
\* everything, and the ConfigMap is up to date.
Settled ==
    /\ watcher.pc = "idle" /\ saver.pc = "waiting" /\ ~required
    /\ \A r \in Replacer : ~Replacing(r)
    /\ \A z \in Known : ws_threads[z] # None /\ fetchers[ws_threads[z]].pc = "listening"
    /\ \A f \in Fetcher : /\ fetchers[f].pc \in {"unused", "listening", "ended"}
                          /\ events[f] = <<>>
                          /\ fetches[f].pc \in Resting /\ ~fetches[f].spawned

\* Of these zones all nodes have been fetched.
Fetched == {z \in Known : fetches[ws_threads[z]].pc # "exited"}

\* Once everything has settled, the ConfigMap has every node that only one zone's
\* management knows in that zone: a node service finds its zone there
\* (topology_service.py:23, "Each of the nodes CSI Node Drivers will find out
\* it's zone from the ConfigMap").  A zone whose fetch was ended by exit(1)
\* (BaseClassAPI.py:58) lacks the nodes of before for as long as its websocket is up.
NodesSaved ==
    Settled =>
        \A z \in Fetched, n \in Node :
            {y \in Known : n \in clients[zones[y].management]} = {z}
            => n \in saved[z]

\* A write of the ConfigMap takes no node out of it that stays
\* (topology_service.py:172, "Loads the topology from the config map").
SavedGrows == [][\A z \in Zone : saved[z] \ Leavers \subseteq saved'[z]]_vars

\* What a save under way will write: of a zone that it has not read yet, what the
\* topology says.
Due == [z \in Zone |-> IF z \in saver.left THEN zones[z].nodes ELSE saver.snapshot[z]]

\* What a write of the ConfigMap says of a zone is what the topology said of it at
\* some time of the save, although the saver reads it zone by zone and without
\* topology.lock (topology.py:74): it has each node that was in its zone all through
\* the save, and none that was there at no time.
Contract == INSTANCE TopologyContract WITH known <- Members, busy <- ~SaveLockFree, due <- Due

ImplementsContract == Contract!Spec

\* Through one change of the configuration, each zone is watched by one thread
\* at most, the one in ws_threads, and a zone that is gone by none
\* (zone_topology_fetcher.py:18).  A second change may meet a replacement that
\* still waits for the old thread.
OneListener ==
    changes <= 1 =>
        \A f \in Fetcher : Active(f) => /\ ws_threads[fetchers[f].zone] = f
                                        /\ fetchers[f].zone \in Known

\* Through one change, a zone whose thread listens has not been disabled by a
\* thread it replaced (zone_topology_fetcher.py:69, 84).  A zone that is removed
\* and added again may be, by the thread of its first time.
ListenedEnabled ==
    changes <= 1 =>
        \A f \in Fetcher :
            Active(f) /\ fetchers[f].pc \in {"listening", "received", "changed"}
            => fetchers[f].zone \notin disabled

\* The zone's thread waits for its management, or its fetch has been ended by
\* exit(1).
Unanswered(z) ==
    /\ ws_threads[z] # None
    /\ \/ fetchers[ws_threads[z]].pc = "connecting"
       \/ fetches[ws_threads[z]].pc \in {"asking", "exited"}

\* A node that stays a client of a zone's management gets into the ConfigMap, as
\* long as the process runs and unless the management leaves the zone's thread
\* without an answer (zone_topology_fetcher.py:77-117, topology_service.py:203).
EverySaved ==
    \A n \in Node :
        []<>(\A z \in Known :
                stopping.pc = "no" /\ n \in clients[zones[z].management]
                => n \in saved[z] \/ Unanswered(z))

\* All threads have ended, and with them the process.
Ended ==
    /\ stopping.pc = "ended"
    /\ \A f \in Fetcher : /\ fetchers[f].pc \in {"unused", "ended"}
                           /\ fetches[f].pc \in Resting /\ ~fetches[f].spawned


=============================================================================
