--------------------------- MODULE TopologyProofs ---------------------------
(* What holds of the topology service for every number of zones, nodes,       *)
(* managements and threads, and every length of the websockets' queues.       *)
EXTENDS TopologyInvariants, SequenceTheorems, TLAPS

-----------------------------------------------------------------------------
(* Types *)

USE DEF topology, threads, saving, service, outside

LEMMA RunningType ==
    ASSUME NEW c \in Config, NEW w \in Assigned(c)
    PROVE  /\ w \in [Zone -> Fetcher \cup {None}]
           /\ Running(c, w) \in [Fetcher -> FetcherState]
           /\ \A f \in Fetcher :
                 Running(c, w)[f].pc # "unused" =>
                    /\ Running(c, w)[f].pc = "loop"
                    /\ Running(c, w)[f].zone \in Zone
                    /\ Running(c, w)[f].management \in Management
                    /\ Running(c, w)[f].management = c[Running(c, w)[f].zone]
<1> USE NoneAssumption
<1>1. ASSUME NEW f \in Fetcher, \E z \in Zone : w[z] = f
      PROVE  \E z \in Zone : c[z] \in Management /\ Running(c, w)[f] = NewFetcher(z, c[z])
  <2> DEFINE z == CHOOSE z \in Zone : w[z] = f
  <2>1. z \in Zone /\ w[z] = f
    BY <1>1
  <2>2. c[z] \in Management
    BY <2>1 DEF Assigned, Config
  <2>3. Running(c, w)[f] = NewFetcher(z, c[z])
    BY <1>1 DEF Running
  <2> HIDE DEF z
  <2> QED
    BY <2>1, <2>2, <2>3
<1>2. ASSUME NEW f \in Fetcher, ~ \E z \in Zone : w[z] = f
      PROVE  Running(c, w)[f] = NoFetcher
  BY <1>2 DEF Running
<1>3. NoFetcher \in FetcherState /\ NoFetcher.pc = "unused"
  BY DEF NoFetcher, NewFetcher, FetcherState, FetcherPc
<1>4. \A z \in Zone, m \in Management :
         /\ NewFetcher(z, m) \in FetcherState /\ NewFetcher(z, m).pc = "loop"
         /\ NewFetcher(z, m).zone = z /\ NewFetcher(z, m).management = m
  BY DEF NewFetcher, FetcherState, FetcherPc
<1>5. w \in [Zone -> Fetcher \cup {None}]
  BY DEF Assigned
<1>6. \A f \in Fetcher : Running(c, w)[f] \in FetcherState
  BY <1>1, <1>2, <1>3, <1>4
<1>7. Running(c, w) \in [Fetcher -> FetcherState]
  BY <1>6 DEF Running
<1> QED
  BY <1>1, <1>2, <1>3, <1>4, <1>5, <1>7

LEMMA RunningOwn ==
    ASSUME NEW c \in Config, NEW w \in Assigned(c)
    PROVE  /\ \A f \in Fetcher :
                 /\ Running(c, w)[f].pc # "unused" => w[Running(c, w)[f].zone] = f
                 /\ ~Running(c, w)[f].stop_event
           /\ \A z \in Zone : w[z] # None => /\ Running(c, w)[w[z]].pc # "unused"
                                             /\ Running(c, w)[w[z]].zone = z
<1>1. ASSUME NEW f \in Fetcher, \E z \in Zone : w[z] = f
      PROVE  \E z \in Zone : w[z] = f /\ Running(c, w)[f] = NewFetcher(z, c[z])
  <2> DEFINE z == CHOOSE z \in Zone : w[z] = f
  <2>1. z \in Zone /\ w[z] = f
    BY <1>1
  <2>2. Running(c, w)[f] = NewFetcher(z, c[z])
    BY <1>1 DEF Running
  <2> HIDE DEF z
  <2> QED
    BY <2>1, <2>2
<1>2. ASSUME NEW f \in Fetcher, ~ \E z \in Zone : w[z] = f
      PROVE  Running(c, w)[f].pc = "unused" /\ ~Running(c, w)[f].stop_event
  BY <1>2 DEF Running, NoFetcher, NewFetcher
<1>3. \A z \in Zone : \A m : /\ NewFetcher(z, m).zone = z /\ NewFetcher(z, m).pc = "loop"
                             /\ ~NewFetcher(z, m).stop_event
  BY DEF NewFetcher
<1>4. ASSUME NEW f \in Fetcher
      PROVE  /\ Running(c, w)[f].pc # "unused" => w[Running(c, w)[f].zone] = f
             /\ ~Running(c, w)[f].stop_event
  BY <1>1, <1>2, <1>3
<1>5. ASSUME NEW z \in Zone, w[z] # None
      PROVE  Running(c, w)[w[z]].pc # "unused" /\ Running(c, w)[w[z]].zone = z
  <2>1. w[z] \in Fetcher
    BY <1>5 DEF Assigned
  <2>2. PICK y \in Zone : w[y] = w[z] /\ Running(c, w)[w[z]] = NewFetcher(y, c[y])
    BY <1>1, <2>1
  <2>3. y = z
    BY <1>5, <2>2 DEF Assigned
  <2> QED
    BY <1>3, <2>2, <2>3
<1> QED
  BY <1>4, <1>5

LEMMA BlankType ==
    /\ NoFetch \in FetchState /\ NoReplacer \in ReplacerState
    /\ Idle \in WatcherState /\ Waiting \in SaverState /\ Serving \in StopState
    /\ ~NoFetch.spawned /\ NoFetch.pc = "idle" /\ NoReplacer.pc = "unused"
BY DEF NoFetch, NoReplacer, Idle, Waiting, Serving, FetchState, FetchPc, ReplacerState,
   ReplacerPc, WatcherState, SaverState, StopState

\* What the process starts with, of configuration c: each thread runs on its own
\* zone, and the zones are those of c unless the start has failed.
Fresh(c, zs, w, fs, s) ==
    /\ c \in Config /\ zs \in [Zone -> ZoneInfo] /\ w \in [Zone -> Fetcher \cup {None}]
    /\ fs \in [Fetcher -> FetcherState] /\ s \in SaverState
    /\ \A f \in Fetcher :
          fs[f].pc # "unused" =>
             /\ fs[f].pc = "loop" /\ ~fs[f].stop_event
             /\ fs[f].zone \in Zone /\ fs[f].management \in Management
             /\ fs[f].management = c[fs[f].zone]
             /\ zs[fs[f].zone].management = c[fs[f].zone]
             /\ w[fs[f].zone] = f
    /\ \A f \in Fetcher : ~fs[f].stop_event
    /\ \A z \in Zone :
          /\ w[z] # None => fs[w[z]].pc # "unused" /\ fs[w[z]].zone = z
          /\ zs[z].nodes = {} /\ zs[z].management \in {None, c[z]}
          /\ s.pc # "failed" => zs[z].management = c[z]
    /\ s.pc \in {"waiting", "failed"} /\ s.left = {} /\ s.snapshot = Nobody

LEMMA BegunFacts ==
    ASSUME NEW c \in Config, NEW b \in Begun(c)
    PROVE  /\ b.zones \in Config /\ b.threads \in Config /\ b.pc \in {"waiting", "failed"}
           /\ \A z \in Zone : /\ b.zones[z] \in {None, c[z]}
                              /\ b.threads[z] \in {None, b.zones[z]}
           /\ b.pc # "failed" => b.zones = c
<1>1. CASE b = [zones |-> c, threads |-> c, pc |-> "waiting"]
  BY <1>1
<1>2. CASE /\ b \in [zones : PartsOf(c), threads : PartsOf(c), pc : {"failed"}]
           /\ \/ b.zones = c /\ b.threads = c
              \/ \E z \in Zone : b.threads = [b.zones EXCEPT ![z] = None]
  <2>1. /\ b.zones \in Config /\ b.threads \in Config /\ b.pc = "failed"
        /\ \A z \in Zone : b.zones[z] \in {None, c[z]}
    BY <1>2 DEF PartsOf
  <2>2. \A z \in Zone : b.threads[z] \in {None, b.zones[z]}
    BY <1>2, <2>1 DEF Config
  <2> QED
    BY <2>1, <2>2
<1> QED
  BY <1>1, <1>2 DEF Begun

LEMMA BegunFresh ==
    ASSUME NEW c \in Config, NEW b \in Begun(c), NEW w \in Assigned(b.threads)
    PROVE  Fresh(c, [z \in Zone |-> [management |-> b.zones[z], nodes |-> {}]], w,
                 Running(b.threads, w), [Waiting EXCEPT !.pc = b.pc])
<1> DEFINE zs == [z \in Zone |-> [management |-> b.zones[z], nodes |-> {}]]
           fs == Running(b.threads, w)
           s == [Waiting EXCEPT !.pc = b.pc]
<1>1. /\ b.zones \in Config /\ b.threads \in Config /\ b.pc \in {"waiting", "failed"}
      /\ \A z \in Zone : /\ b.zones[z] \in {None, c[z]}
                         /\ b.threads[z] \in {None, b.zones[z]}
      /\ b.pc # "failed" => b.zones = c
  BY BegunFacts
<1>2. /\ zs \in [Zone -> ZoneInfo]
      /\ \A z \in Zone : zs[z].nodes = {} /\ zs[z].management = b.zones[z]
  BY <1>1 DEF ZoneInfo, Config
<1>3. s \in SaverState /\ s.pc = b.pc /\ s.left = {} /\ s.snapshot = Nobody
  BY <1>1 DEF Waiting, SaverState, Nobody
<1>4. /\ w \in [Zone -> Fetcher \cup {None}] /\ fs \in [Fetcher -> FetcherState]
      /\ \A f \in Fetcher : fs[f].pc # "unused" =>
            /\ fs[f].pc = "loop"
            /\ fs[f].zone \in Zone /\ fs[f].management \in Management
            /\ fs[f].management = b.threads[fs[f].zone]
  BY <1>1, RunningType
<1>5. /\ \A f \in Fetcher : /\ fs[f].pc # "unused" => w[fs[f].zone] = f
                            /\ ~fs[f].stop_event
      /\ \A z \in Zone : w[z] # None => fs[w[z]].pc # "unused" /\ fs[w[z]].zone = z
  BY <1>1, RunningOwn
<1> HIDE DEF zs, fs, s
<1>6. ASSUME NEW f \in Fetcher, fs[f].pc # "unused"
      PROVE  /\ fs[f].management = c[fs[f].zone]
             /\ zs[fs[f].zone].management = c[fs[f].zone]
  BY <1>1, <1>2, <1>4, <1>6, NoneAssumption
<1>7. Fresh(c, zs, w, fs, s)
  BY <1>1, <1>2, <1>3, <1>4, <1>5, <1>6 DEF Fresh
<1> QED
  BY <1>7 DEF zs, fs, s

LEMMA InitFresh == Init => Fresh(config, zones, ws_threads, fetchers, saver)
<1> SUFFICES ASSUME Init PROVE Fresh(config, zones, ws_threads, fetchers, saver)
  OBVIOUS
<1>1. config \in Config
  BY ConfigsAssumption DEF Init
<1> QED
  BY <1>1, BegunFresh DEF Init

LEMMA RestartFresh ==
    ASSUME TypeOK, Restart
    PROVE  Fresh(config', zones', ws_threads', fetchers', saver')
<1>1. config \in Config /\ config' = config
  BY ConfigsAssumption DEF TypeOK, Restart
<1>2. PICK b \in Begun(config) :
         /\ zones' = [z \in Zone |-> [management |-> b.zones[z], nodes |-> {}]]
         /\ ws_threads' \in Assigned(b.threads)
         /\ fetchers' = Running(b.threads, ws_threads')
         /\ saver' = [Waiting EXCEPT !.pc = b.pc]
  BY DEF Restart
<1>3. \A w \in Assigned(b.threads) :
         w = ws_threads'
         => Fresh(config', zones', w, Running(b.threads, w), saver')
  BY <1>1, <1>2, BegunFresh
<1> QED
  BY <1>2, <1>3

LEMMA TypeInit == Init => TypeOK /\ ThreadInv
<1> SUFFICES ASSUME Init PROVE TypeOK /\ ThreadInv
  OBVIOUS
<1>1. Fresh(config, zones, ws_threads, fetchers, saver)
  BY InitFresh
<1>2. /\ ws_threads \in [Zone -> Fetcher \cup {None}] /\ saver \in SaverState
      /\ fetchers \in [Fetcher -> FetcherState] /\ zones \in [Zone -> ZoneInfo]
      /\ \A f \in Fetcher : fetchers[f].pc # "unused" =>
            /\ fetchers[f].pc = "loop"
            /\ fetchers[f].zone \in Zone /\ fetchers[f].management \in Management
  BY <1>1 DEF Fresh
<1>3. /\ fetches \in [Fetcher -> FetchState] /\ replacers \in [Replacer -> ReplacerState]
      /\ watcher \in WatcherState /\ stopping \in StopState
  BY BlankType DEF Init
<1>4. events \in [Fetcher -> Seq(Event)]
  BY DEF Init
<1>5. /\ nodes \in [Node -> Zone \cup {None}] /\ saved \in [Zone -> SUBSET Node]
      /\ clients \in [Management -> SUBSET Node]
  BY DEF Init, Nobody
<1>6. TypeOK
  <2>1. config \in Configs \cup {None} /\ changes \in 0..MaxChanges
    BY BoundsAssumption DEF Init
  <2> QED
    BY <1>2, <1>3, <1>4, <1>5, <2>1 DEF Init, TypeOK
<1>7. FetcherInv
  BY <1>2, BlankType DEF Init, FetcherInv
<1>8. ReplacerInv /\ WatcherInv
  BY BlankType DEF Init, ReplacerInv, WatcherInv, Idle
<1> QED
  BY <1>6, <1>7, <1>8 DEF ThreadInv

LEMMA AddType ==
    ASSUME TypeOK, NEW z \in Zone, NEW ns \in SUBSET Node,
           AddNodes(z, ns) \/ AddNodesRaises(z, ns)
    PROVE  nodes' \in [Node -> Zone \cup {None}] /\ zones' \in [Zone -> ZoneInfo]
<1>1. ASSUME NEW s \in SUBSET Node, Put(z, s)
      PROVE  nodes' \in [Node -> Zone \cup {None}] /\ zones' \in [Zone -> ZoneInfo]
  BY <1>1 DEF TypeOK, Put, ZoneInfo
<1>2. Moved(z, ns) \in SUBSET Node /\ Broken(z, ns) \in SUBSET Node
  BY DEF Moved, Broken
<1> QED
  BY <1>1, <1>2 DEF AddNodes, AddNodesRaises

LEMMA RemoveType ==
    ASSUME TypeOK, NEW z \in Zone, NEW n \in Node, RemoveNode(z, n)
    PROVE  nodes' \in [Node -> Zone \cup {None}] /\ zones' \in [Zone -> ZoneInfo]
BY DEF TypeOK, RemoveNode, ZoneInfo

LEMMA FetcherFields ==
    ASSUME NEW s \in FetcherState
    PROVE  /\ \A l \in FetcherPc : [s EXCEPT !.pc = l] \in FetcherState
           /\ [s EXCEPT !.stop_event = TRUE] \in FetcherState
           /\ [s EXCEPT !.pc = "connecting", !.ws_client = TRUE] \in FetcherState
BY DEF FetcherState, FetcherPc

LEMMA FetcherSet ==
    ASSUME TypeOK, NEW f \in Fetcher, NEW s \in FetcherState,
           fetchers' = [fetchers EXCEPT ![f] = s]
    PROVE  fetchers' \in [Fetcher -> FetcherState]
BY DEF TypeOK

LEMMA GotoType ==
    ASSUME TypeOK, NEW f \in Fetcher, NEW l \in FetcherPc, Goto(f, l)
    PROVE  fetchers' \in [Fetcher -> FetcherState]
<1>1. [fetchers[f] EXCEPT !.pc = l] \in FetcherState
  BY FetcherFields DEF TypeOK
<1> QED
  BY <1>1, FetcherSet DEF Goto

LEMMA StopType ==
    ASSUME TypeOK, NEW f \in Fetcher, StopListening(f)
    PROVE  fetchers' \in [Fetcher -> FetcherState]
<1>1. [fetchers[f] EXCEPT !.stop_event = TRUE] \in FetcherState
  BY FetcherFields DEF TypeOK
<1> QED
  BY <1>1, FetcherSet DEF StopListening

LEMMA StartType ==
    ASSUME TypeOK, NEW z \in Zone, NEW m \in Management, StartListening(z, m)
    PROVE  /\ fetchers' \in [Fetcher -> FetcherState]
           /\ ws_threads' \in [Zone -> Fetcher \cup {None}]
<1>1. NewFetcher(z, m) \in FetcherState
  BY DEF NewFetcher, FetcherState, FetcherPc
<1> QED
  BY <1>1, FetcherSet DEF StartListening, TypeOK

LEMMA StopFields ==
    ASSUME TypeOK, NEW f \in Fetcher, StopListening(f)
    PROVE  \A g \in Fetcher : /\ fetchers'[g].pc = fetchers[g].pc
                              /\ fetchers'[g].zone = fetchers[g].zone
                              /\ fetchers'[g].management = fetchers[g].management
BY DEF TypeOK, FetcherState, StopListening

LEMMA StartFields ==
    ASSUME TypeOK, NEW z \in Zone, NEW m \in Management, StartListening(z, m)
    PROVE  \A g \in Fetcher :
              \/ fetchers'[g] = fetchers[g]
              \/ /\ fetchers[g].pc = "unused" /\ fetchers'[g].pc = "loop"
                 /\ fetchers'[g].zone = z /\ fetchers'[g].management = m
BY DEF TypeOK, StartListening, NewFetcher

LEMMA FetchFields ==
    ASSUME NEW s \in FetchState
    PROVE  /\ [s EXCEPT !.spawned = TRUE] \in FetchState
           /\ s.nodes \in SUBSET Node /\ s.pc \in FetchPc
           /\ \A l \in FetchPc :
                 /\ [s EXCEPT !.pc = l] \in FetchState
                 /\ [s EXCEPT !.pc = l, !.spawned = FALSE] \in FetchState
                 /\ \A ns \in SUBSET Node :
                       [s EXCEPT !.pc = l, !.nodes = ns] \in FetchState
BY DEF FetchState, FetchPc

LEMMA FetchSet ==
    ASSUME TypeOK, NEW f \in Fetcher, NEW s \in FetchState,
           fetches' = [fetches EXCEPT ![f] = s]
    PROVE  fetches' \in [Fetcher -> FetchState]
BY DEF TypeOK

LEMMA ReplacerFields ==
    ASSUME NEW s \in ReplacerState
    PROVE  \A l \in ReplacerPc :
              /\ [s EXCEPT !.pc = l] \in ReplacerState
              /\ \A f \in Fetcher :
                    [s EXCEPT !.pc = l, !.fetcher = f] \in ReplacerState
BY DEF ReplacerState, ReplacerPc

LEMMA ReplacerSet ==
    ASSUME TypeOK, NEW r \in Replacer, NEW s \in ReplacerState,
           replacers' = [replacers EXCEPT ![r] = s]
    PROVE  replacers' \in [Replacer -> ReplacerState]
BY DEF TypeOK

LEMMA DetachType ==
    ASSUME TypeOK, NEW z \in Zone, Detach(z)
    PROVE  saver' \in SaverState
<1>1. zones[z].nodes \in SUBSET Node
  BY DEF TypeOK, ZoneInfo
<1>2. [saver EXCEPT !.left = @ \ {z}, !.snapshot[z] = zones[z].nodes] \in SaverState
  BY <1>1 DEF TypeOK, SaverState
<1> QED
  BY <1>2 DEF TypeOK, Detach

LEMMA ConfigType ==
    ASSUME ThreadInv, watcher.pc # "idle", NEW z \in Zone
    PROVE  config[z] \in Management \cup {None}
BY DEF ThreadInv, WatcherInv, Config

\* What the watcher puts in the place of a zone.
LEMMA ZoneSet ==
    ASSUME TypeOK, NEW z \in Zone, NEW m \in Management \cup {None},
           zones' = [zones EXCEPT ![z] = [management |-> m, nodes |-> {}]]
    PROVE  zones' \in [Zone -> ZoneInfo]
<1>1. [management |-> m, nodes |-> {}] \in ZoneInfo
  BY DEF ZoneInfo
<1> QED
  BY <1>1 DEF TypeOK

LEMMA HeadType ==
    ASSUME TypeOK, NEW f \in Fetcher, events[f] # <<>>
    PROVE  Head(events[f]).node \in Node /\ Tail(events[f]) \in Seq(Event)
<1>1. Head(events[f]) \in Event /\ Tail(events[f]) \in Seq(Event)
  BY DEF TypeOK
<1> QED
  BY <1>1 DEF Event

LEMMA OpenClientType ==
    ASSUME TypeOK, ThreadInv, NEW f \in Fetcher, OpenClient(f)
    PROVE  TypeOK' /\ ThreadInv'
<1>1. [fetchers[f] EXCEPT !.pc = "connecting", !.ws_client = TRUE] \in FetcherState
  BY FetcherFields DEF TypeOK
<1>2. fetchers' \in [Fetcher -> FetcherState]
  BY <1>1, FetcherSet DEF OpenClient
<1>3. TypeOK'
  BY <1>2 DEF TypeOK, OpenClient
<1>4. FetcherInv'
  BY DEF ThreadInv, FetcherInv, OpenClient
<1>5. ReplacerInv'
  BY DEF ThreadInv, ReplacerInv, OpenClient
<1>6. WatcherInv'
  BY DEF ThreadInv, WatcherInv, OpenClient
<1> QED
  BY <1>3, <1>4, <1>5, <1>6 DEF ThreadInv

LEMMA EndFetcherType ==
    ASSUME TypeOK, ThreadInv, NEW f \in Fetcher, EndFetcher(f)
    PROVE  TypeOK' /\ ThreadInv'
<1>1. fetchers' \in [Fetcher -> FetcherState]
  BY GotoType DEF FetcherPc, EndFetcher
<1>2. TypeOK'
  BY <1>1 DEF TypeOK, EndFetcher
<1>3. FetcherInv'
  BY DEF TypeOK, ThreadInv, FetcherInv, EndFetcher, Goto
<1>4. ReplacerInv'
  BY DEF ThreadInv, ReplacerInv, EndFetcher
<1>5. WatcherInv'
  BY DEF ThreadInv, WatcherInv, EndFetcher
<1> QED
  BY <1>2, <1>3, <1>4, <1>5 DEF ThreadInv

LEMMA ConnectType ==
    ASSUME TypeOK, ThreadInv, NEW f \in Fetcher, Connect(f)
    PROVE  TypeOK' /\ ThreadInv'
<1>1. fetchers' \in [Fetcher -> FetcherState]
  BY GotoType DEF FetcherPc, Connect
<1>2. [fetches[f] EXCEPT !.spawned = TRUE] \in FetchState
  BY FetchFields DEF TypeOK
<1>3. fetches' \in [Fetcher -> FetchState]
  BY <1>2, FetchSet DEF Connect
<1>4. TypeOK'
  BY <1>1, <1>3 DEF TypeOK, Connect, Enable
<1>5. FetcherInv'
  BY DEF TypeOK, ThreadInv, FetcherInv, Connect, Goto
<1>6. ReplacerInv'
  BY DEF ThreadInv, ReplacerInv, Connect
<1>7. WatcherInv'
  BY DEF ThreadInv, WatcherInv, Connect
<1> QED
  BY <1>4, <1>5, <1>6, <1>7 DEF ThreadInv

LEMMA DisconnectType ==
    ASSUME TypeOK, ThreadInv, NEW f \in Fetcher, Disconnect(f)
    PROVE  TypeOK' /\ ThreadInv'
<1>1. fetchers' \in [Fetcher -> FetcherState]
  BY GotoType DEF FetcherPc, Disconnect, Leave
<1>2. events' \in [Fetcher -> Seq(Event)]
  BY DEF TypeOK, Disconnect, Leave
<1>3. fetchers[f].zone \in Zone
  BY DEF ThreadInv, FetcherInv, Disconnect
<1>4. TypeOK'
  BY <1>1, <1>2, <1>3 DEF TypeOK, Disconnect, Leave
<1>5. FetcherInv'
  BY DEF TypeOK, ThreadInv, FetcherInv, Disconnect, Leave, Goto
<1>6. ReplacerInv'
  BY DEF ThreadInv, ReplacerInv, Disconnect
<1>7. WatcherInv'
  BY DEF ThreadInv, WatcherInv, Disconnect
<1> QED
  BY <1>4, <1>5, <1>6, <1>7 DEF ThreadInv

LEMMA ReceiveType ==
    ASSUME TypeOK, ThreadInv, NEW f \in Fetcher, Receive(f)
    PROVE  TypeOK' /\ ThreadInv'
<1>1. fetchers' \in [Fetcher -> FetcherState]
  BY GotoType DEF FetcherPc, Receive
<1>2. TypeOK'
  BY <1>1 DEF TypeOK, Receive
<1>3. FetcherInv'
  BY DEF TypeOK, ThreadInv, FetcherInv, Receive, Goto
<1>4. ReplacerInv'
  BY DEF ThreadInv, ReplacerInv, Receive
<1>5. WatcherInv'
  BY DEF ThreadInv, WatcherInv, Receive
<1> QED
  BY <1>2, <1>3, <1>4, <1>5 DEF ThreadInv

LEMMA HandleEventType ==
    ASSUME TypeOK, ThreadInv, NEW f \in Fetcher, HandleEvent(f)
    PROVE  TypeOK' /\ ThreadInv'
<1>1. fetchers' \in [Fetcher -> FetcherState]
  BY GotoType DEF FetcherPc, HandleEvent
<1>2. fetchers[f].zone \in Zone /\ events[f] # <<>>
  BY DEF ThreadInv, FetcherInv, HandleEvent, Received
<1>3. events' \in [Fetcher -> Seq(Event)]
  BY <1>2, HeadType DEF TypeOK, HandleEvent
<1>4. nodes' \in [Node -> Zone \cup {None}] /\ zones' \in [Zone -> ZoneInfo]
  BY <1>2, AddType, RemoveType, HeadType DEF HandleEvent
<1>5. TypeOK'
  BY <1>1, <1>3, <1>4 DEF TypeOK, HandleEvent
<1>6. FetcherInv'
  BY DEF TypeOK, ThreadInv, FetcherInv, HandleEvent, Received, Goto
<1>7. ReplacerInv'
  BY DEF ThreadInv, ReplacerInv, HandleEvent
<1>8. WatcherInv'
  BY DEF ThreadInv, WatcherInv, HandleEvent
<1> QED
  BY <1>5, <1>6, <1>7, <1>8 DEF ThreadInv

LEMMA EventRaisesType ==
    ASSUME TypeOK, ThreadInv, NEW f \in Fetcher, EventRaises(f)
    PROVE  TypeOK' /\ ThreadInv'
<1>1. fetchers' \in [Fetcher -> FetcherState]
  BY GotoType DEF FetcherPc, EventRaises, Leave
<1>2. fetchers[f].zone \in Zone /\ events[f] # <<>>
  BY DEF ThreadInv, FetcherInv, EventRaises, Received
<1>3. events' \in [Fetcher -> Seq(Event)]
  BY DEF TypeOK, EventRaises, Leave
<1>4. nodes' \in [Node -> Zone \cup {None}] /\ zones' \in [Zone -> ZoneInfo]
  BY <1>2, AddType, RemoveType, HeadType DEF EventRaises
<1>5. TypeOK'
  BY <1>1, <1>2, <1>3, <1>4 DEF TypeOK, EventRaises, Leave
<1>6. FetcherInv'
  BY DEF TypeOK, ThreadInv, FetcherInv, EventRaises, Received, Leave, Goto
<1>7. ReplacerInv'
  BY DEF ThreadInv, ReplacerInv, EventRaises
<1>8. WatcherInv'
  BY DEF ThreadInv, WatcherInv, EventRaises
<1> QED
  BY <1>5, <1>6, <1>7, <1>8 DEF ThreadInv

LEMMA MarkChangeType ==
    ASSUME TypeOK, ThreadInv, NEW f \in Fetcher, MarkChange(f)
    PROVE  TypeOK' /\ ThreadInv'
<1>1. fetchers' \in [Fetcher -> FetcherState]
  BY GotoType DEF FetcherPc, MarkChange
<1>2. TypeOK'
  BY <1>1 DEF TypeOK, MarkChange, Mark
<1>3. FetcherInv'
  BY DEF TypeOK, ThreadInv, FetcherInv, MarkChange, Goto
<1>4. ReplacerInv'
  BY DEF ThreadInv, ReplacerInv, MarkChange
<1>5. WatcherInv'
  BY DEF ThreadInv, WatcherInv, MarkChange
<1> QED
  BY <1>2, <1>3, <1>4, <1>5 DEF ThreadInv

LEMMA StartFetchType ==
    ASSUME TypeOK, ThreadInv, NEW f \in Fetcher, StartFetch(f)
    PROVE  TypeOK' /\ ThreadInv'
<1>1. \A l \in FetchPc : [fetches[f] EXCEPT !.pc = l, !.spawned = FALSE] \in FetchState
  BY FetchFields DEF TypeOK
<1>2. fetches[f].pc \in FetchPc
  BY FetchFields DEF TypeOK
<1>3. \E l \in FetchPc : fetches' = [fetches EXCEPT ![f] = [@ EXCEPT !.pc = l, !.spawned = FALSE]]
  <2> DEFINE l == IF fetches[f].pc \in Resting /\ ~fetchers[f].stop_event
                  THEN "asking" ELSE fetches[f].pc
  <2>1. l \in FetchPc
    BY <1>2 DEF FetchPc
  <2>2. fetches' = [fetches EXCEPT ![f] = [@ EXCEPT !.pc = l, !.spawned = FALSE]]
    BY DEF StartFetch
  <2> HIDE DEF l
  <2> QED
    BY <2>1, <2>2
<1>4. fetches' \in [Fetcher -> FetchState]
  BY <1>1, <1>3, FetchSet
<1>5. TypeOK'
  BY <1>4 DEF TypeOK, StartFetch
<1>6. FetcherInv'
  BY DEF ThreadInv, FetcherInv, StartFetch
<1>7. ReplacerInv'
  BY DEF ThreadInv, ReplacerInv, StartFetch
<1>8. WatcherInv'
  BY DEF ThreadInv, WatcherInv, StartFetch
<1> QED
  BY <1>5, <1>6, <1>7, <1>8 DEF ThreadInv

LEMMA AnswerFetchType ==
    ASSUME TypeOK, ThreadInv, NEW f \in Fetcher, AnswerFetch(f)
    PROVE  TypeOK' /\ ThreadInv'
<1>1. clients[fetchers[f].management] \in SUBSET Node
  BY DEF TypeOK, ThreadInv, FetcherInv, AnswerFetch
<1>2. [fetches[f] EXCEPT !.pc = "answered", !.nodes = clients[fetchers[f].management]]
         \in FetchState
  BY <1>1, FetchFields DEF TypeOK, FetchPc
<1>3. fetches' \in [Fetcher -> FetchState]
  BY <1>2, FetchSet DEF AnswerFetch
<1>4. TypeOK'
  BY <1>3 DEF TypeOK, AnswerFetch
<1>5. FetcherInv'
  BY DEF ThreadInv, FetcherInv, AnswerFetch
<1>6. ReplacerInv'
  BY DEF ThreadInv, ReplacerInv, AnswerFetch
<1>7. WatcherInv'
  BY DEF ThreadInv, WatcherInv, AnswerFetch
<1> QED
  BY <1>4, <1>5, <1>6, <1>7 DEF ThreadInv

LEMMA ExitFetchType ==
    ASSUME TypeOK, ThreadInv, NEW f \in Fetcher, ExitFetch(f)
    PROVE  TypeOK' /\ ThreadInv'
<1>1. \A l \in FetchPc : [fetches[f] EXCEPT !.pc = l] \in FetchState
  BY FetchFields DEF TypeOK
<1>2. fetches' \in [Fetcher -> FetchState]
  BY <1>1, FetchSet DEF ExitFetch, FetchPc
<1>3. TypeOK'
  BY <1>2 DEF TypeOK, ExitFetch
<1>4. FetcherInv'
  BY DEF TypeOK, FetchState, ThreadInv, FetcherInv, ExitFetch
<1>5. ReplacerInv'
  BY DEF ThreadInv, ReplacerInv, ExitFetch
<1>6. WatcherInv'
  BY DEF ThreadInv, WatcherInv, ExitFetch
<1> QED
  BY <1>3, <1>4, <1>5, <1>6 DEF ThreadInv

LEMMA RetryFetchType ==
    ASSUME TypeOK, ThreadInv, NEW f \in Fetcher, RetryFetch(f)
    PROVE  TypeOK' /\ ThreadInv'
<1>1. \A l \in FetchPc : [fetches[f] EXCEPT !.pc = l] \in FetchState
  BY FetchFields DEF TypeOK
<1>2. fetches' \in [Fetcher -> FetchState]
  BY <1>1, FetchSet DEF RetryFetch, FetchPc
<1>3. TypeOK'
  BY <1>2 DEF TypeOK, RetryFetch
<1>4. FetcherInv'
  BY DEF TypeOK, FetchState, ThreadInv, FetcherInv, RetryFetch
<1>5. ReplacerInv'
  BY DEF ThreadInv, ReplacerInv, RetryFetch
<1>6. WatcherInv'
  BY DEF ThreadInv, WatcherInv, RetryFetch
<1> QED
  BY <1>3, <1>4, <1>5, <1>6 DEF ThreadInv

LEMMA AddFetchedType ==
    ASSUME TypeOK, ThreadInv, NEW f \in Fetcher, AddFetched(f)
    PROVE  TypeOK' /\ ThreadInv'
<1>1. \A l \in FetchPc : [fetches[f] EXCEPT !.pc = l, !.nodes = {}] \in FetchState
  BY FetchFields DEF TypeOK
<1>2. fetches' \in [Fetcher -> FetchState]
  BY <1>1, FetchSet DEF AddFetched, FetchPc
<1>3. fetchers[f].zone \in Zone /\ fetches[f].nodes \in SUBSET Node
  BY FetchFields DEF TypeOK, ThreadInv, FetcherInv, AddFetched
<1>4. nodes' \in [Node -> Zone \cup {None}] /\ zones' \in [Zone -> ZoneInfo]
  BY <1>3, AddType DEF AddFetched
<1>5. TypeOK'
  BY <1>2, <1>4 DEF TypeOK, AddFetched
<1>6. FetcherInv'
  BY DEF TypeOK, FetchState, ThreadInv, FetcherInv, AddFetched
<1>7. ReplacerInv'
  BY DEF ThreadInv, ReplacerInv, AddFetched
<1>8. WatcherInv'
  BY DEF ThreadInv, WatcherInv, AddFetched
<1> QED
  BY <1>5, <1>6, <1>7, <1>8 DEF ThreadInv

LEMMA MarkFetchedType ==
    ASSUME TypeOK, ThreadInv, NEW f \in Fetcher, MarkFetched(f)
    PROVE  TypeOK' /\ ThreadInv'
<1>1. [fetches[f] EXCEPT !.pc = "idle"] \in FetchState
  BY FetchFields DEF TypeOK, FetchPc
<1>2. fetches' \in [Fetcher -> FetchState]
  BY <1>1, FetchSet DEF MarkFetched
<1>3. TypeOK'
  BY <1>2 DEF TypeOK, MarkFetched, Mark
<1>4. FetcherInv'
  BY DEF ThreadInv, FetcherInv, MarkFetched
<1>5. ReplacerInv'
  BY DEF ThreadInv, ReplacerInv, MarkFetched
<1>6. WatcherInv'
  BY DEF ThreadInv, WatcherInv, MarkFetched
<1> QED
  BY <1>3, <1>4, <1>5, <1>6 DEF ThreadInv

LEMMA StopCurrentThreadType ==
    ASSUME TypeOK, ThreadInv, NEW r \in Replacer, StopCurrentThread(r)
    PROVE  TypeOK' /\ ThreadInv'
<1>1. ws_threads[replacers[r].zone] \in Fetcher \cup {None}
  BY DEF TypeOK, ThreadInv, ReplacerInv, StopCurrentThread
<1>2. fetchers' \in [Fetcher -> FetcherState]
  BY <1>1, StopType DEF TypeOK, StopCurrentThread
<1>3. \A l \in ReplacerPc : /\ [replacers[r] EXCEPT !.pc = l] \in ReplacerState
                          /\ \A f \in Fetcher :
                                [replacers[r] EXCEPT !.pc = l, !.fetcher = f]
                                   \in ReplacerState
  BY ReplacerFields DEF TypeOK
<1>4. replacers' \in [Replacer -> ReplacerState]
  BY <1>1, <1>3, ReplacerSet DEF StopCurrentThread, Step, ReplacerPc
<1>5. TypeOK'
  BY <1>2, <1>4 DEF TypeOK, StopCurrentThread
<1>6. FetcherInv'
  BY <1>1, StopFields DEF ThreadInv, FetcherInv, StopCurrentThread
<1>7. ReplacerInv'
  <2> DEFINE t == ws_threads[replacers[r].zone]
  <2>1. replacers[r].zone \in Zone /\ replacers[r].management \in Management
    BY DEF ThreadInv, ReplacerInv, StopCurrentThread
  <2>2. CASE t # None /\ Stops(t)
    <3>1. replacers' = [replacers EXCEPT ![r] = [@ EXCEPT !.pc = "join", !.fetcher = t]]
      BY <2>2 DEF StopCurrentThread
    <3> HIDE DEF t
    <3>2. t \in Fetcher
      BY <1>1, <2>2 DEF t
    <3> QED
      BY <2>1, <3>1, <3>2 DEF TypeOK, ThreadInv, ReplacerInv, ReplacerState
  <2>3. CASE ~(t # None /\ Stops(t))
    <3>1. Step(r, "ended")
      BY <2>3 DEF StopCurrentThread
    <3> HIDE DEF t
    <3> QED
      BY <2>1, <3>1 DEF TypeOK, ThreadInv, ReplacerInv, Step, ReplacerState
  <2> QED
    BY <2>2, <2>3
<1>8. WatcherInv'
  BY DEF ThreadInv, WatcherInv, StopCurrentThread
<1> QED
  BY <1>5, <1>6, <1>7, <1>8 DEF ThreadInv

LEMMA StartNewThreadType ==
    ASSUME TypeOK, ThreadInv, NEW r \in Replacer, StartNewThread(r)
    PROVE  TypeOK' /\ ThreadInv'
<1>1. replacers[r].zone \in Zone /\ replacers[r].management \in Management
  BY DEF ThreadInv, ReplacerInv, StartNewThread
<1>2. fetchers' \in [Fetcher -> FetcherState] /\ ws_threads' \in [Zone -> Fetcher \cup {None}]
  BY <1>1, StartType DEF TypeOK, StartNewThread
<1>3. [replacers[r] EXCEPT !.pc = "ended"] \in ReplacerState
  BY ReplacerFields DEF TypeOK, ReplacerPc
<1>4. replacers' \in [Replacer -> ReplacerState]
  BY <1>3, ReplacerSet DEF StartNewThread, Step
<1>5. TypeOK'
  BY <1>2, <1>4 DEF TypeOK, StartNewThread
<1>6. FetcherInv'
  BY <1>1, StartFields DEF ThreadInv, FetcherInv, StartNewThread
<1>7. ReplacerInv'
  BY DEF TypeOK, ThreadInv, ReplacerInv, StartNewThread, Step
<1>8. WatcherInv'
  BY DEF ThreadInv, WatcherInv, StartNewThread
<1> QED
  BY <1>5, <1>6, <1>7, <1>8 DEF ThreadInv

LEMMA ConfigEventType ==
    ASSUME TypeOK, ThreadInv, NEW c \in Configs, ConfigEvent(c)
    PROVE  TypeOK' /\ ThreadInv'
<1>1. watcher' \in WatcherState
  BY DEF ConfigEvent, WatcherState, Known
<1>2. TypeOK'
  BY <1>1, ConfigsAssumption, BoundsAssumption DEF TypeOK, ConfigEvent
<1>3. FetcherInv'
  BY DEF ThreadInv, FetcherInv, ConfigEvent
<1>4. ReplacerInv'
  BY DEF ThreadInv, ReplacerInv, ConfigEvent
<1>5. WatcherInv'
  BY ConfigsAssumption DEF TypeOK, ThreadInv, WatcherInv, ConfigEvent, Config
<1> QED
  BY <1>2, <1>3, <1>4, <1>5 DEF ThreadInv

LEMMA ConfigClearedType ==
    ASSUME TypeOK, ThreadInv, ConfigCleared
    PROVE  TypeOK' /\ ThreadInv'
<1>1. TypeOK'
  BY ConfigsAssumption, BoundsAssumption DEF TypeOK, ConfigCleared
<1>2. FetcherInv'
  BY DEF ThreadInv, FetcherInv, ConfigCleared
<1>3. ReplacerInv'
  BY DEF ThreadInv, ReplacerInv, ConfigCleared
<1>4. WatcherInv'
  BY DEF TypeOK, ThreadInv, WatcherInv, ConfigCleared, TopologyLockFree
<1> QED
  BY <1>1, <1>2, <1>3, <1>4 DEF ThreadInv

LEMMA KeepZoneType ==
    ASSUME TypeOK, ThreadInv, NEW z \in Zone, KeepZone(z)
    PROVE  TypeOK' /\ ThreadInv'
<1>1. watcher' \in WatcherState
  BY DEF TypeOK, WatcherState, KeepZone, Handled
<1>2. TypeOK'
  BY <1>1 DEF TypeOK, KeepZone
<1>3. FetcherInv'
  BY DEF ThreadInv, FetcherInv, KeepZone
<1>4. ReplacerInv'
  BY DEF ThreadInv, ReplacerInv, KeepZone
<1>5. WatcherInv'
  BY DEF TypeOK, ThreadInv, WatcherInv, KeepZone, Loading, Handled
<1> QED
  BY <1>2, <1>3, <1>4, <1>5 DEF ThreadInv

LEMMA AddZoneType ==
    ASSUME TypeOK, ThreadInv, NEW z \in Zone, AddZone(z)
    PROVE  TypeOK' /\ ThreadInv'
<1>1. config[z] \in Management
  BY ConfigType DEF AddZone, Loading, ThreadInv, WatcherInv
<1>2. zones' \in [Zone -> ZoneInfo]
  BY <1>1, ZoneSet DEF AddZone
<1>3. fetchers' \in [Fetcher -> FetcherState] /\ ws_threads' \in [Zone -> Fetcher \cup {None}]
  BY <1>1, StartType DEF TypeOK, AddZone
<1>4. Handled(z) \/ Abort
  BY DEF AddZone
<1>5. Handled(z) => watcher' \in WatcherState
  BY DEF TypeOK, WatcherState, Handled
<1>6. Abort => watcher' \in WatcherState
  BY DEF WatcherState, Abort, Idle
<1>7. watcher' \in WatcherState
  BY <1>4, <1>5, <1>6
<1>8. TypeOK'
  BY <1>2, <1>3, <1>7 DEF TypeOK, AddZone
<1>9. FetcherInv'
  BY <1>1, StartFields DEF ThreadInv, FetcherInv, AddZone
<1>10. ReplacerInv'
  BY DEF ThreadInv, ReplacerInv, AddZone
<1>11. WatcherInv'
  <2>1. CASE Handled(z)
    BY <2>1 DEF TypeOK, WatcherState, ThreadInv, WatcherInv, AddZone, Loading, Handled
  <2>2. CASE Abort
    BY <2>2 DEF WatcherInv, Abort, Idle
  <2> QED
    BY <2>1, <2>2 DEF AddZone
<1> QED
  BY <1>8, <1>9, <1>10, <1>11 DEF ThreadInv

LEMMA UpdateZoneType ==
    ASSUME TypeOK, ThreadInv, NEW z \in Zone, UpdateZone(z)
    PROVE  TypeOK' /\ ThreadInv'
<1>1. config[z] \in Management
  BY ConfigType DEF UpdateZone, Loading, ThreadInv, WatcherInv
<1>2. zones' \in [Zone -> ZoneInfo]
  BY <1>1, ZoneSet DEF UpdateZone
<1>3. [zone |-> z, management |-> config[z], fetcher |-> None, pc |-> "stop"] \in ReplacerState
  BY <1>1 DEF ReplacerState, ReplacerPc
<1>4. replacers' \in [Replacer -> ReplacerState]
  BY <1>3, ReplacerSet DEF UpdateZone
<1>5. watcher' \in WatcherState
  BY DEF TypeOK, WatcherState, UpdateZone, Handled
<1>6. saver' \in SaverState
  BY DetachType DEF UpdateZone
<1>7. TypeOK'
  BY <1>2, <1>4, <1>5, <1>6 DEF TypeOK, UpdateZone
<1>8. FetcherInv'
  BY DEF ThreadInv, FetcherInv, UpdateZone
<1>9. ReplacerInv'
  <2> DEFINE new == [zone |-> z, management |-> config[z], fetcher |-> None, pc |-> "stop"]
  <2>1. PICK r \in Replacer : replacers' = [replacers EXCEPT ![r] = new]
    BY DEF UpdateZone
  <2>2. new.zone \in Zone /\ new.management \in Management /\ new.pc = "stop"
    BY <1>1
  <2> HIDE DEF new
  <2> QED
    BY <2>1, <2>2 DEF TypeOK, ThreadInv, ReplacerInv
<1>10. WatcherInv'
  BY DEF TypeOK, ThreadInv, WatcherInv, UpdateZone, Loading, Handled
<1> QED
  BY <1>7, <1>8, <1>9, <1>10 DEF ThreadInv

LEMMA RemoveZoneType ==
    ASSUME TypeOK, ThreadInv, NEW z \in Zone, RemoveZone(z)
    PROVE  TypeOK' /\ ThreadInv'
<1>1. fetchers' \in [Fetcher -> FetcherState]
  BY StopType DEF TypeOK, RemoveZone
<1>2. saver' \in SaverState
  BY DetachType DEF RemoveZone
<1>3. nodes' \in [Node -> Zone \cup {None}]
  BY DEF TypeOK, RemoveZone, Forget
<1>4. zones' \in [Zone -> ZoneInfo]
  BY ZoneSet DEF RemoveZone
<1>5. watcher' \in WatcherState
  BY DEF TypeOK, WatcherState, RemoveZone
<1>6. TypeOK'
  BY <1>1, <1>2, <1>3, <1>4, <1>5 DEF TypeOK, RemoveZone
<1>7. FetcherInv'
  BY StopFields DEF TypeOK, ThreadInv, FetcherInv, RemoveZone
<1>8. ReplacerInv'
  BY DEF ThreadInv, ReplacerInv, RemoveZone
<1>9. WatcherInv'
  BY DEF TypeOK, ThreadInv, WatcherInv, RemoveZone, Removing
<1> QED
  BY <1>6, <1>7, <1>8, <1>9 DEF ThreadInv

LEMMA RemoveRaisesType ==
    ASSUME TypeOK, ThreadInv, NEW z \in Zone, RemoveRaises(z)
    PROVE  TypeOK' /\ ThreadInv'
<1>1. fetchers' \in [Fetcher -> FetcherState]
  BY StopType DEF TypeOK, RemoveRaises
<1>2. nodes' \in [Node -> Zone \cup {None}]
  BY DEF TypeOK, RemoveRaises, Forget
<1>3. watcher' \in WatcherState
  BY DEF TypeOK, WatcherState, RemoveRaises, Abort, Idle
<1>4. TypeOK'
  BY <1>1, <1>2, <1>3 DEF TypeOK, RemoveRaises
<1>5. FetcherInv'
  BY StopFields DEF TypeOK, ThreadInv, FetcherInv, RemoveRaises
<1>6. ReplacerInv'
  BY DEF ThreadInv, ReplacerInv, RemoveRaises
<1>7. WatcherInv'
  BY DEF TypeOK, ThreadInv, WatcherInv, RemoveRaises, Removing, Abort, Idle
<1> QED
  BY <1>4, <1>5, <1>6, <1>7 DEF ThreadInv

LEMMA MarkRemovedType ==
    ASSUME TypeOK, ThreadInv, MarkRemoved
    PROVE  TypeOK' /\ ThreadInv'
<1>1. watcher' \in WatcherState
  BY DEF TypeOK, WatcherState, MarkRemoved
<1>2. TypeOK'
  BY <1>1 DEF TypeOK, MarkRemoved, Mark
<1>3. FetcherInv'
  BY DEF ThreadInv, FetcherInv, MarkRemoved
<1>4. ReplacerInv'
  BY DEF ThreadInv, ReplacerInv, MarkRemoved
<1>5. WatcherInv'
  BY DEF ThreadInv, WatcherInv, MarkRemoved
<1> QED
  BY <1>2, <1>3, <1>4, <1>5 DEF ThreadInv

LEMMA LoadedType ==
    ASSUME TypeOK, ThreadInv, Loaded
    PROVE  TypeOK' /\ ThreadInv'
<1>1. watcher' \in WatcherState
  BY DEF TypeOK, WatcherState, Loaded, Idle
<1>2. TypeOK'
  BY <1>1 DEF TypeOK, Loaded
<1>3. FetcherInv'
  BY DEF ThreadInv, FetcherInv, Loaded
<1>4. ReplacerInv'
  BY DEF ThreadInv, ReplacerInv, Loaded
<1>5. WatcherInv'
  BY DEF TypeOK, ThreadInv, WatcherInv, Loaded, Idle
<1> QED
  BY <1>2, <1>3, <1>4, <1>5 DEF ThreadInv

LEMMA StartSaveType ==
    ASSUME TypeOK, ThreadInv, StartSave
    PROVE  TypeOK' /\ ThreadInv'
<1>1. saver' \in SaverState
  BY DEF StartSave, SaverState, Known, Nobody
<1>2. TypeOK'
  BY <1>1 DEF TypeOK, StartSave
<1>3. FetcherInv'
  BY DEF ThreadInv, FetcherInv, StartSave
<1>4. ReplacerInv'
  BY DEF ThreadInv, ReplacerInv, StartSave
<1>5. WatcherInv'
  BY DEF ThreadInv, WatcherInv, StartSave
<1> QED
  BY <1>2, <1>3, <1>4, <1>5 DEF ThreadInv

LEMMA ReadZoneType ==
    ASSUME TypeOK, ThreadInv, NEW z \in Zone, ReadZone(z)
    PROVE  TypeOK' /\ ThreadInv'
<1>1. zones[z].nodes \in SUBSET Node
  BY DEF TypeOK, ZoneInfo
<1>2. saver' \in SaverState
  BY <1>1 DEF TypeOK, ReadZone, SaverState
<1>3. TypeOK'
  BY <1>2 DEF TypeOK, ReadZone
<1>4. FetcherInv'
  BY DEF ThreadInv, FetcherInv, ReadZone
<1>5. ReplacerInv'
  BY DEF ThreadInv, ReplacerInv, ReadZone
<1>6. WatcherInv'
  BY DEF ThreadInv, WatcherInv, ReadZone
<1> QED
  BY <1>3, <1>4, <1>5, <1>6 DEF ThreadInv

LEMMA WriteConfigMapType ==
    ASSUME TypeOK, ThreadInv, WriteConfigMap
    PROVE  TypeOK' /\ ThreadInv'
<1>1. saver' \in SaverState
  BY DEF WriteConfigMap, Waiting, SaverState
<1>2. saved' \in [Zone -> SUBSET Node]
  BY DEF TypeOK, WriteConfigMap, SaverState
<1>3. TypeOK'
  BY <1>1, <1>2 DEF TypeOK, WriteConfigMap
<1>4. FetcherInv'
  BY DEF ThreadInv, FetcherInv, WriteConfigMap
<1>5. ReplacerInv'
  BY DEF ThreadInv, ReplacerInv, WriteConfigMap
<1>6. WatcherInv'
  BY DEF ThreadInv, WatcherInv, WriteConfigMap
<1> QED
  BY <1>3, <1>4, <1>5, <1>6 DEF ThreadInv

LEMMA WriteFailsType ==
    ASSUME TypeOK, ThreadInv, WriteFails
    PROVE  TypeOK' /\ ThreadInv'
<1>1. saver' \in SaverState
  BY DEF WriteFails, Waiting, SaverState
<1>2. saved' \in [Zone -> SUBSET Node]
  BY DEF TypeOK, WriteFails, SaverState
<1>3. TypeOK'
  BY <1>1, <1>2 DEF TypeOK, WriteFails
<1>4. FetcherInv'
  BY DEF ThreadInv, FetcherInv, WriteFails
<1>5. ReplacerInv'
  BY DEF ThreadInv, ReplacerInv, WriteFails
<1>6. WatcherInv'
  BY DEF ThreadInv, WatcherInv, WriteFails
<1> QED
  BY <1>3, <1>4, <1>5, <1>6 DEF ThreadInv

LEMMA ClientJoinsType ==
    ASSUME TypeOK, ThreadInv, NEW n \in Node, NEW m \in Management, ClientJoins(n, m)
    PROVE  TypeOK' /\ ThreadInv'
<1>1. [name |-> "newClientEvent", node |-> n] \in Event
  BY DEF Event
<1>2. events' \in [Fetcher -> Seq(Event)]
  BY <1>1 DEF TypeOK, ClientJoins, Notify
<1>3. TypeOK'
  BY <1>2 DEF TypeOK, ClientJoins
<1>4. FetcherInv'
  <2>1. \A f \in Fetcher : events[f] # <<>> => events'[f] # <<>>
    <3>1. \A s \in Seq(Event), e \in Event : Append(s, e) # <<>>
      BY AppendProperties
    <3> QED
      BY <1>1, <3>1 DEF TypeOK, ClientJoins, Notify
  <2> QED
    BY <2>1 DEF ThreadInv, FetcherInv, ClientJoins
<1>5. ReplacerInv'
  BY DEF ThreadInv, ReplacerInv, ClientJoins
<1>6. WatcherInv'
  BY DEF ThreadInv, WatcherInv, ClientJoins
<1> QED
  BY <1>3, <1>4, <1>5, <1>6 DEF ThreadInv

LEMMA ClientLeavesType ==
    ASSUME TypeOK, ThreadInv, NEW n \in Node, NEW m \in Management, ClientLeaves(n, m)
    PROVE  TypeOK' /\ ThreadInv'
<1>1. [name |-> "clientRemovedEvent", node |-> n] \in Event
  BY DEF Event
<1>2. events' \in [Fetcher -> Seq(Event)]
  BY <1>1 DEF TypeOK, ClientLeaves, Notify
<1>3. TypeOK'
  BY <1>2 DEF TypeOK, ClientLeaves
<1>4. FetcherInv'
  <2>1. \A f \in Fetcher : events[f] # <<>> => events'[f] # <<>>
    <3>1. \A s \in Seq(Event), e \in Event : Append(s, e) # <<>>
      BY AppendProperties
    <3> QED
      BY <1>1, <3>1 DEF TypeOK, ClientLeaves, Notify
  <2> QED
    BY <2>1 DEF ThreadInv, FetcherInv, ClientLeaves
<1>5. ReplacerInv'
  BY DEF ThreadInv, ReplacerInv, ClientLeaves
<1>6. WatcherInv'
  BY DEF ThreadInv, WatcherInv, ClientLeaves
<1> QED
  BY <1>3, <1>4, <1>5, <1>6 DEF ThreadInv

LEMMA RestartType ==
    ASSUME TypeOK, ThreadInv, Restart
    PROVE  TypeOK' /\ ThreadInv'
<1>1. Fresh(config', zones', ws_threads', fetchers', saver')
  BY RestartFresh
<1>2. /\ ws_threads' \in [Zone -> Fetcher \cup {None}] /\ saver' \in SaverState
      /\ fetchers' \in [Fetcher -> FetcherState] /\ zones' \in [Zone -> ZoneInfo]
      /\ \A f \in Fetcher : fetchers'[f].pc # "unused" =>
            /\ fetchers'[f].pc = "loop"
            /\ fetchers'[f].zone \in Zone /\ fetchers'[f].management \in Management
  BY <1>1 DEF Fresh
<1>3. /\ fetches' \in [Fetcher -> FetchState] /\ replacers' \in [Replacer -> ReplacerState]
      /\ watcher' \in WatcherState /\ stopping' \in StopState
  BY BlankType DEF Restart
<1>4. events' \in [Fetcher -> Seq(Event)] /\ nodes' \in [Node -> Zone \cup {None}]
  BY DEF Restart
<1>5. TypeOK'
  BY <1>2, <1>3, <1>4 DEF Restart, TypeOK
<1>6. FetcherInv'
  BY <1>2, BlankType DEF Restart, FetcherInv
<1>7. ReplacerInv' /\ WatcherInv'
  BY BlankType DEF Restart, ReplacerInv, WatcherInv, Idle
<1> QED
  BY <1>5, <1>6, <1>7 DEF ThreadInv

\* The shutdown tells threads to stop, and ends the saver while it waits.
LEMMA ShutDownEffect ==
    ASSUME TypeOK, Stop \/ LeaveLoop \/ ShutDown
    PROVE  /\ UNCHANGED <<config, changes, clients, topology, disabled, ws_threads, events,
                          fetches, replacers, watcher, required, saved>>
           /\ fetchers' \in [Fetcher -> FetcherState]
           /\ \A f \in Fetcher : /\ fetchers'[f].pc = fetchers[f].pc
                                 /\ fetchers'[f].zone = fetchers[f].zone
                                 /\ fetchers'[f].management = fetchers[f].management
           /\ saver' \in SaverState
           /\ \/ saver' = saver
              \/ saver.pc = "waiting" /\ saver' = [saver EXCEPT !.pc = "dead"]
           /\ stopping' \in StopState
<1>1. InUse \in SUBSET Fetcher
  BY DEF TypeOK, InUse
<1>2. CASE Stop \/ StoppedAll \/ Join
  <2>1. UNCHANGED <<fetchers, saver>>
    BY <1>2 DEF Stop, StoppedAll, Join
  <2>2. stopping' \in StopState
    BY <1>1, <1>2 DEF TypeOK, StopState, Stop, StoppedAll, Join
  <2> QED
    BY <1>2, <2>1, <2>2 DEF TypeOK, Stop, StoppedAll, Join
<1>3. CASE LeaveLoop
  <2>1. saver' \in SaverState
    BY <1>3 DEF TypeOK, SaverState, LeaveLoop
  <2>2. stopping' \in StopState
    BY <1>1, <1>3 DEF TypeOK, StopState, LeaveLoop
  <2> QED
    BY <1>3, <2>1, <2>2 DEF TypeOK, LeaveLoop
<1>4. ASSUME NEW f \in Fetcher, StopThread(f)
      PROVE  /\ fetchers' \in [Fetcher -> FetcherState]
             /\ stopping' \in StopState
             /\ \A g \in Fetcher : /\ fetchers'[g].pc = fetchers[g].pc
                                   /\ fetchers'[g].zone = fetchers[g].zone
                                   /\ fetchers'[g].management = fetchers[g].management
             /\ UNCHANGED <<config, changes, clients, topology, disabled, ws_threads, events,
                            fetches, replacers, watcher, required, saver, saved>>
  <2>1. stopping' \in StopState
    BY <1>4 DEF TypeOK, StopState, StopThread
  <2> QED
    BY <1>4, <2>1, StopType, StopFields DEF StopThread
<1> QED
  BY <1>2, <1>3, <1>4 DEF ShutDown, TypeOK

LEMMA ShutDownType ==
    ASSUME TypeOK, ThreadInv, Stop \/ LeaveLoop \/ ShutDown
    PROVE  TypeOK' /\ ThreadInv'
<1>1. TypeOK'
  BY ShutDownEffect DEF TypeOK
<1>2. FetcherInv'
  BY ShutDownEffect DEF ThreadInv, FetcherInv
<1>3. ReplacerInv' /\ WatcherInv'
  BY ShutDownEffect DEF ThreadInv, ReplacerInv, WatcherInv
<1> QED
  BY <1>1, <1>2, <1>3 DEF ThreadInv

LEMMA TypeStep ==
    ASSUME TypeOK, ThreadInv, [Next]_vars
    PROVE  TypeOK' /\ ThreadInv'
<1>1. ASSUME NEW f \in Fetcher,
             \/ Listen(f) \/ Disconnect(f) \/ MarkChange(f)
             \/ Fetch(f) \/ MarkFetched(f) \/ Ask(f)
      PROVE  TypeOK' /\ ThreadInv'
  BY <1>1, OpenClientType, EndFetcherType, ConnectType, ReceiveType, HandleEventType,
     EventRaisesType, DisconnectType, MarkChangeType, StartFetchType, AnswerFetchType,
     ExitFetchType, RetryFetchType, AddFetchedType, MarkFetchedType DEF Listen, Fetch, Ask
<1>2. ASSUME NEW r \in Replacer, Replace(r) PROVE TypeOK' /\ ThreadInv'
  BY <1>2, StopCurrentThreadType, StartNewThreadType DEF Replace
<1>3. ASSUME \/ \E c \in Configs : ConfigEvent(c)
             \/ ConfigCleared \/ Load \/ MarkRemoved
      PROVE  TypeOK' /\ ThreadInv'
  BY <1>3, ConfigEventType, ConfigClearedType, KeepZoneType, AddZoneType, UpdateZoneType,
     RemoveZoneType, RemoveRaisesType, LoadedType, MarkRemovedType DEF Load
<1>4. ASSUME Save \/ WriteFails PROVE TypeOK' /\ ThreadInv'
  BY <1>4, StartSaveType, ReadZoneType, WriteConfigMapType, WriteFailsType DEF Save
<1>5. ASSUME \/ \E n \in Node, m \in Management : ClientJoins(n, m) \/ ClientLeaves(n, m)
             \/ Restart
      PROVE  TypeOK' /\ ThreadInv'
  BY <1>5, ClientJoinsType, ClientLeavesType, RestartType
<1>6. ASSUME Stop \/ LeaveLoop \/ ShutDown PROVE TypeOK' /\ ThreadInv'
  BY <1>6, ShutDownType
<1>7. CASE UNCHANGED vars
  BY <1>7 DEF vars, TypeOK, ThreadInv, FetcherInv, ReplacerInv, WatcherInv
<1> QED
  BY <1>1, <1>2, <1>3, <1>4, <1>5, <1>6, <1>7 DEF Next

LEMMA TypesKept == Spec => [](TypeOK /\ ThreadInv)
<1>1. TypeOK /\ ThreadInv /\ [Next]_vars => (TypeOK /\ ThreadInv)'
  BY TypeStep
<1> QED
  BY TypeInit, <1>1, PTL DEF Spec

\* Every variable keeps its type, whatever the user, the managements and the
\* Kubernetes API do (topology.py, topology_service.py, zone_topology_fetcher.py).
THEOREM TypeCorrect == Spec => []TypeOK
BY TypesKept, PTL

=============================================================================
