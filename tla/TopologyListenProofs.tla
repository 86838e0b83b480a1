------------------------ MODULE TopologyListenProofs ------------------------
(* Through one change of the configuration, each zone is watched by its own   *)
(* thread, and stays enabled while that thread listens.                       *)
EXTENDS TopologySaveProofs

USE DEF topology, threads, saving, service, outside

Runs(f) == fetchers[f].pc \notin {"unused", "ended"}

-----------------------------------------------------------------------------
(* The start *)

\* The threads run on their own zones, and nothing else has begun.
Begins ==
    /\ Fresh(config, zones, ws_threads, fetchers, saver)
    /\ disabled = {} /\ watcher = Idle /\ replacers = [r \in Replacer |-> NoReplacer]

LEMMA StartedListen == Begins => ListenInv
<1> SUFFICES ASSUME Begins PROVE ListenInv
  OBVIOUS
<1> USE DEF Begins, Fresh
<1>1. \A f \in Fetcher : fetchers[f].pc # "unused" => fetchers[f].zone \in Known
  BY NoneAssumption DEF Known
<1>2. \A r \in Replacer : ~Replacing(r)
  BY DEF Replacing, NoReplacer
<1>3. LookingInv
  BY DEF LookingInv, Idle
<1>4. UnchangedInv
  BY <1>2 DEF UnchangedInv, Idle
<1>5. ReplacingInv
  BY <1>2 DEF ReplacingInv
<1>6. StartedInv
  BY DEF StartedInv
<1>7. ListeningInv
  BY <1>1 DEF ListeningInv, New, Listening, Active
<1> QED
  BY <1>3, <1>4, <1>5, <1>6, <1>7 DEF ListenInv

LEMMA ListenInit == Init => ListenInv
BY StartedListen, InitFresh DEF Init, Begins

LEMMA RestartListen ==
    ASSUME TypeOK, Restart
    PROVE  ListenInv'
<1>1. Begins'
  BY RestartFresh DEF Restart, Begins
<1> QED
  BY <1>1, StartedListen, PTL

-----------------------------------------------------------------------------
(* The threads' own steps *)

\* Neither the zones nor who belongs to which zone changes.
Stays == /\ UNCHANGED <<config, changes, ws_threads, replacers, watcher>>
         /\ \A z \in Zone : zones'[z].management = zones[z].management
         /\ saver.pc = "failed" => saver'.pc = "failed"

LEMMA PutStays ==
    ASSUME TypeOK, NEW z, NEW ns, AddNodes(z, ns) \/ AddNodesRaises(z, ns)
    PROVE  \A y \in Zone : zones'[y].management = zones[y].management
<1>1. \E s : Put(z, s)
  BY DEF AddNodes, AddNodesRaises
<1>2. PICK s : Put(z, s)
  BY <1>1
<1> QED
  BY <1>2 DEF Put, TypeOK, ZoneInfo

LEMMA RemoveStays ==
    ASSUME TypeOK, NEW z, NEW n, RemoveNode(z, n)
    PROVE  \A y \in Zone : zones'[y].management = zones[y].management
BY DEF RemoveNode, TypeOK, ZoneInfo

LEMMA StepStays ==
    ASSUME TypeOK, NEW f \in Fetcher, FetcherStep(f) \/ MarkStep(f)
    PROVE  Stays
<1>1. CASE OpenClient(f) \/ EndFetcher(f) \/ Connect(f) \/ Receive(f) \/ Disconnect(f)
           \/ StartFetch(f) \/ AnswerFetch(f) \/ ExitFetch(f) \/ RetryFetch(f)
  BY <1>1 DEF Stays, OpenClient, EndFetcher, Connect, Receive, Disconnect, StartFetch,
     AnswerFetch, ExitFetch, RetryFetch
<1>2. CASE HandleEvent(f) \/ EventRaises(f) \/ AddFetched(f)
  <2>1. \A z \in Zone : zones'[z].management = zones[z].management
    BY <1>2, PutStays, RemoveStays DEF HandleEvent, EventRaises, AddFetched
  <2> QED
    BY <1>2, <2>1 DEF Stays, HandleEvent, EventRaises, AddFetched
<1>3. CASE MarkStep(f)
  BY <1>3, MarkEffect DEF Stays, MarkStep, MarkChange, MarkFetched
<1> QED
  BY <1>1, <1>2, <1>3 DEF FetcherStep, Listen, Fetch, Ask

\* A thread disables its zone as it goes back to its loop, and no other thread
\* or zone is touched.
Touched(f) ==
    /\ \A g \in Fetcher :
          /\ fetchers'[g].zone = fetchers[g].zone
          /\ fetchers'[g].stop_event = fetchers[g].stop_event
          /\ fetchers'[g].pc = "unused" <=> fetchers[g].pc = "unused"
          /\ fetchers[g].pc = "ended" => fetchers'[g].pc = "ended"
          /\ g # f => fetchers'[g].pc = fetchers[g].pc
    /\ \/ disabled' \subseteq disabled
       \/ /\ fetchers[f].pc \notin {"unused", "ended"} /\ fetchers'[f].pc = "loop"
          /\ disabled' = disabled \cup {fetchers[f].zone}
    /\ fetchers'[f].pc \in {"listening", "received", "changed"} =>
          \/ fetchers[f].zone \notin disabled'
          \/ Listening(f) /\ disabled' = disabled

LEMMA GotoTouches ==
    ASSUME TypeOK, NEW f \in Fetcher, NEW l \in FetcherPc \ {"unused"}, Goto(f, l),
           Runs(f)
    PROVE  \A g \in Fetcher :
              /\ fetchers'[g].zone = fetchers[g].zone
              /\ fetchers'[g].stop_event = fetchers[g].stop_event
              /\ fetchers'[g].pc = "unused" <=> fetchers[g].pc = "unused"
              /\ fetchers[g].pc = "ended" => fetchers'[g].pc = "ended"
              /\ fetchers'[g].pc = IF g = f THEN l ELSE fetchers[g].pc
BY DEF TypeOK, FetcherState, Goto, Runs

LEMMA StepTouches ==
    ASSUME TypeOK, NEW f \in Fetcher, FetcherStep(f) \/ MarkStep(f)
    PROVE  Touched(f)
<1>1. CASE OpenClient(f)
  BY <1>1 DEF Touched, OpenClient, TypeOK, FetcherState
<1>2. CASE EndFetcher(f)
  BY <1>2, GotoTouches DEF Touched, EndFetcher, Runs, FetcherPc
<1>3. CASE Connect(f)
  BY <1>3, GotoTouches DEF Touched, Connect, Enable, Runs, FetcherPc
<1>4. CASE Receive(f) \/ HandleEvent(f) \/ MarkChange(f)
  <2>1. PICK l \in {"received", "changed", "listening"} : Goto(f, l)
    BY <1>4 DEF Receive, HandleEvent, MarkChange
  <2>2. Listening(f) /\ Runs(f) /\ disabled' = disabled
    BY <1>4 DEF Receive, HandleEvent, MarkChange, Received, Listening, Runs
  <2> QED
    BY <2>1, <2>2, GotoTouches DEF Touched, FetcherPc
<1>5. CASE EventRaises(f) \/ Disconnect(f)
  <2>1. Runs(f) /\ Leave(f)
    BY <1>5 DEF EventRaises, Disconnect, Received, Runs
  <2> QED
    BY <2>1, GotoTouches DEF Touched, Leave, Runs, FetcherPc
<1>6. CASE Fetch(f) \/ AnswerFetch(f) \/ ExitFetch(f) \/ MarkFetched(f)
  <2>1. UNCHANGED <<fetchers, disabled>>
    BY <1>6 DEF Fetch, StartFetch, AnswerFetch, ExitFetch, RetryFetch, AddFetched, MarkFetched
  <2> QED
    BY <2>1 DEF Touched, Listening
<1> QED
  BY <1>1, <1>2, <1>3, <1>4, <1>5, <1>6 DEF FetcherStep, MarkStep, Listen, Ask

LEMMA StepListen ==
    ASSUME TypeOK, ThreadInv, ListenInv, NEW f \in Fetcher,
           FetcherStep(f) \/ MarkStep(f)
    PROVE  ListenInv'
<1>1. Stays /\ Touched(f)
  BY StepStays, StepTouches
<1>2. Known' = Known
  BY <1>1 DEF Known, Stays
<1>3. LookingInv'
  BY <1>1 DEF Stays, ListenInv, LookingInv
<1>4. UnchangedInv'
  BY <1>1 DEF Stays, ListenInv, UnchangedInv, Replacing
<1>5. ReplacingInv'
  <2> SUFFICES ASSUME changes <= 1, NEW r \in Replacer, Replacing(r)
               PROVE  LET z == replacers[r].zone IN
                      /\ config # None /\ z \in Known /\ zones'[z].management = config[z]
                      /\ \A s \in Replacer : Replacing(s) /\ s # r => replacers[s].zone # z
                      /\ replacers[r].pc = "join" =>
                            /\ ws_threads[z] = replacers[r].fetcher
                            /\ fetchers'[replacers[r].fetcher].stop_event
    BY <1>1, <1>2 DEF Stays, ReplacingInv, Replacing
  <2>1. replacers[r].zone \in Zone
    BY DEF ThreadInv, ReplacerInv, Replacing
  <2>2. replacers[r].pc = "join" => replacers[r].fetcher \in Fetcher
    BY DEF ThreadInv, ReplacerInv
  <2> QED
    BY <1>1, <2>1, <2>2 DEF Stays, Touched, ListenInv, ReplacingInv
<1>6. StartedInv'
  BY <1>1 DEF Stays, Touched, ListenInv, StartedInv, TypeOK
<1>7. ListeningInv'
  <2> SUFFICES ASSUME changes <= 1, NEW g \in Fetcher
               PROVE  LET z == fetchers[g].zone IN
                      /\ fetchers'[g].pc # "unused" => ~New(z)
                      /\ fetchers'[g].pc \notin {"unused", "ended"} => ws_threads[z] = g
                      /\ Active(g)' => z \in Known
                      /\ Listening(g)' => z \notin disabled'
    BY <1>1, <1>2 DEF Stays, Touched, ListeningInv, New
  <2> DEFINE z == fetchers[g].zone
  <2>1. /\ fetchers[g].pc # "unused" => ~New(z)
        /\ fetchers[g].pc \notin {"unused", "ended"} => ws_threads[z] = g
        /\ Active(g) => z \in Known
        /\ Listening(g) => z \notin disabled
    BY DEF ListenInv, ListeningInv
  <2>2. /\ fetchers'[g].stop_event = fetchers[g].stop_event
        /\ fetchers'[g].pc = "unused" <=> fetchers[g].pc = "unused"
        /\ fetchers[g].pc = "ended" => fetchers'[g].pc = "ended"
        /\ g # f => fetchers'[g].pc = fetchers[g].pc
    BY <1>1 DEF Touched
  <2>3. Active(g)' => Active(g)
    BY <2>2 DEF Active
  <2>4. Listening(g)' => z \notin disabled'
    <3> SUFFICES ASSUME Listening(g)' PROVE z \notin disabled'
      OBVIOUS
    <3>1. CASE g = f
      BY <1>1, <2>1, <3>1 DEF Touched, Listening
    <3>2. CASE g # f
      <4>1. Listening(g)
        BY <2>2, <3>2 DEF Listening
      <4>2. CASE disabled' \subseteq disabled
        BY <2>1, <4>1, <4>2
      <4>3. CASE /\ fetchers[f].pc \notin {"unused", "ended"}
                 /\ disabled' = disabled \cup {fetchers[f].zone}
        <5>1. ws_threads[fetchers[f].zone] = f
          BY <4>3 DEF ListenInv, ListeningInv
        <5>2. ws_threads[z] = g
          BY <2>1, <4>1 DEF Listening
        <5>3. z # fetchers[f].zone
          BY <3>2, <5>1, <5>2
        <5> QED
          BY <2>1, <4>1, <4>3, <5>3
      <4> QED
        BY <1>1, <4>2, <4>3 DEF Touched
    <3> QED
      BY <3>1, <3>2
  <2> QED
    BY <2>1, <2>2, <2>3, <2>4
<1> QED
  BY <1>3, <1>4, <1>5, <1>6, <1>7 DEF ListenInv

-----------------------------------------------------------------------------
(* Steps that only tell threads to stop *)

Quiet ==
    /\ UNCHANGED <<config, changes, ws_threads, replacers, disabled>>
    /\ \A z \in Zone : zones'[z].management = zones[z].management
    /\ saver.pc = "failed" => saver'.pc = "failed"
    /\ \A f \in Fetcher : /\ fetchers'[f].zone = fetchers[f].zone
                          /\ fetchers'[f].pc = fetchers[f].pc
                          /\ fetchers[f].stop_event => fetchers'[f].stop_event

LEMMA StopEvents ==
    ASSUME TypeOK, NEW f \in Fetcher, StopListening(f)
    PROVE  \A g \in Fetcher :
              /\ fetchers'[g].zone = fetchers[g].zone /\ fetchers'[g].pc = fetchers[g].pc
              /\ fetchers'[g].stop_event = IF g = f THEN TRUE ELSE fetchers[g].stop_event
BY DEF TypeOK, FetcherState, StopListening

LEMMA QuietListen ==
    ASSUME TypeOK, ThreadInv, ListenInv, Quiet
    PROVE  /\ ReplacingInv' /\ StartedInv' /\ ListeningInv'
           /\ UNCHANGED watcher => ListenInv'
<1>1. Known' = Known
  BY DEF Known, Quiet
<1>2. ReplacingInv'
  <2> SUFFICES ASSUME changes <= 1, NEW r \in Replacer, Replacing(r)
               PROVE  LET z == replacers[r].zone IN
                      /\ config # None /\ z \in Known /\ zones'[z].management = config[z]
                      /\ \A s \in Replacer : Replacing(s) /\ s # r => replacers[s].zone # z
                      /\ replacers[r].pc = "join" =>
                            /\ ws_threads[z] = replacers[r].fetcher
                            /\ fetchers'[replacers[r].fetcher].stop_event
    BY <1>1 DEF Quiet, ReplacingInv, Replacing
  <2>1. replacers[r].zone \in Zone
    BY DEF ThreadInv, ReplacerInv, Replacing
  <2>2. replacers[r].pc = "join" => replacers[r].fetcher \in Fetcher
    BY DEF ThreadInv, ReplacerInv
  <2> QED
    BY <2>1, <2>2 DEF Quiet, ListenInv, ReplacingInv
<1>3. StartedInv'
  BY DEF Quiet, ListenInv, StartedInv, TypeOK
<1>4. ListeningInv'
  BY <1>1 DEF Quiet, ListenInv, ListeningInv, New, Active, Listening
<1>5. ASSUME UNCHANGED watcher PROVE LookingInv' /\ UnchangedInv'
  <2>1. LookingInv'
    BY <1>5 DEF Quiet, ListenInv, LookingInv
  <2>2. UnchangedInv'
    BY <1>5 DEF Quiet, ListenInv, UnchangedInv, Replacing
  <2> QED
    BY <2>1, <2>2
<1> QED
  BY <1>2, <1>3, <1>4, <1>5 DEF ListenInv

\* The saver changes nothing but itself, the flag and the ConfigMap.
LEMMA SaverEffect ==
    ASSUME TypeOK, Save \/ WriteFails
    PROVE  /\ UNCHANGED <<outside, topology, disabled, threads, watcher>>
           /\ saver.pc # "dead" \/ saver.left # {}
           /\ saver.pc = "failed" => saver'.pc = "failed"
<1>1. CASE StartSave
  BY <1>1 DEF StartSave
<1>2. ASSUME NEW z \in Zone, ReadZone(z)
      PROVE  /\ UNCHANGED <<outside, topology, disabled, threads, watcher>>
             /\ saver.left # {} /\ saver'.pc = saver.pc
  BY <1>2 DEF ReadZone, TypeOK, SaverState
<1>3. CASE WriteConfigMap
  BY <1>3 DEF WriteConfigMap
<1>4. CASE WriteFails
  BY <1>4 DEF WriteFails
<1> QED
  BY <1>1, <1>2, <1>3, <1>4 DEF Save

LEMMA OutsideListen ==
    ASSUME TypeOK, ThreadInv, ListenInv,
           \/ Save \/ WriteFails \/ Stop \/ LeaveLoop \/ ShutDown
           \/ \E n \in Node, m \in Management : ClientJoins(n, m) \/ ClientLeaves(n, m)
    PROVE  ListenInv'
<1>1. CASE Save \/ WriteFails
  <2>1. /\ UNCHANGED <<outside, topology, disabled, threads, watcher>>
        /\ saver.pc = "failed" => saver'.pc = "failed"
    BY <1>1, SaverEffect
  <2>2. Quiet /\ UNCHANGED watcher
    BY <2>1 DEF Quiet
  <2> QED
    BY <2>2, QuietListen
<1>2. CASE Stop \/ LeaveLoop \/ StoppedAll \/ Join
  <2>1. Quiet /\ UNCHANGED watcher
    BY <1>2 DEF Quiet, Stop, LeaveLoop, StoppedAll, Join
  <2> QED
    BY <2>1, QuietListen
<1>3. ASSUME NEW f \in Fetcher, StopThread(f) PROVE ListenInv'
  <2>1. Quiet /\ UNCHANGED watcher
    BY <1>3, StopEvents DEF Quiet, StopThread
  <2> QED
    BY <2>1, QuietListen
<1>4. CASE \E n \in Node, m \in Management : ClientJoins(n, m) \/ ClientLeaves(n, m)
  <2>1. Quiet /\ UNCHANGED watcher
    BY <1>4 DEF Quiet, ClientJoins, ClientLeaves
  <2> QED
    BY <2>1, QuietListen
<1> QED
  BY <1>1, <1>2, <1>3, <1>4 DEF ShutDown

-----------------------------------------------------------------------------
(* Replacements *)

LEMMA ReplacerStep ==
    ASSUME TypeOK, NEW r \in Replacer, NEW l \in ReplacerPc, Step(r, l)
    PROVE  \A s \in Replacer : /\ replacers'[s].zone = replacers[s].zone
                               /\ replacers'[s].fetcher = replacers[s].fetcher
                               /\ replacers'[s].pc = IF s = r THEN l ELSE replacers[s].pc
BY DEF TypeOK, ReplacerState, Step

LEMMA StopCurrentThreadListen ==
    ASSUME TypeOK, ThreadInv, ListenInv, NEW r \in Replacer, StopCurrentThread(r)
    PROVE  ListenInv'
<1> DEFINE f == ws_threads[replacers[r].zone]
<1>1. /\ Replacing(r) /\ replacers[r].pc = "stop" /\ replacers[r].zone \in Zone
      /\ f \in Fetcher \cup {None}
      /\ UNCHANGED <<config, changes, zones, ws_threads, disabled, watcher>>
  BY DEF StopCurrentThread, Replacing, ThreadInv, ReplacerInv, TypeOK
<1>2. /\ \A g \in Fetcher : /\ fetchers'[g].zone = fetchers[g].zone
                            /\ fetchers'[g].pc = fetchers[g].pc
                            /\ fetchers[g].stop_event => fetchers'[g].stop_event
      /\ f # None => fetchers'[f].stop_event
  <2>1. CASE f = None
    BY <2>1 DEF StopCurrentThread
  <2>2. CASE f # None
    <3>1. f \in Fetcher /\ StopListening(f)
      BY <1>1, <2>2 DEF StopCurrentThread
    <3> HIDE DEF f
    <3> QED
      BY <3>1, StopEvents
  <2> QED
    BY <2>1, <2>2
<1>3. /\ \A s \in Replacer : replacers'[s].zone = replacers[s].zone
      /\ \A s \in Replacer \ {r} : replacers'[s] = replacers[s]
      /\ replacers'[r].pc = "join" => f # None /\ replacers'[r].fetcher = f
  <2>1. CASE f # None /\ Stops(f)
    <3>1. replacers' = [replacers EXCEPT ![r] = [@ EXCEPT !.pc = "join", !.fetcher = f]]
      BY <2>1 DEF StopCurrentThread
    <3>2. f # None
      BY <2>1
    <3> HIDE DEF f
    <3> QED
      BY <3>1, <3>2 DEF TypeOK, ReplacerState
  <2>2. CASE ~(f # None /\ Stops(f))
    <3>1. Step(r, "ended")
      BY <2>2 DEF StopCurrentThread
    <3>2. \A s \in Replacer \ {r} : replacers'[s] = replacers[s]
      BY <3>1 DEF Step, TypeOK
    <3> QED
      BY <3>1, <3>2, ReplacerStep DEF ReplacerPc
  <2> QED
    BY <2>1, <2>2
<1> HIDE DEF f
<1>4. \A s \in Replacer : Replacing(s)' => Replacing(s)
  BY <1>1, <1>3 DEF Replacing
<1>5. LookingInv'
  BY <1>1 DEF ListenInv, LookingInv
<1>6. UnchangedInv'
  BY <1>1 DEF ListenInv, UnchangedInv
<1>7. StartedInv'
  BY <1>1, <1>2 DEF ListenInv, StartedInv, TypeOK
<1>8. ListeningInv'
  BY <1>1, <1>2 DEF ListenInv, ListeningInv, New, Known, Active, Listening
<1>9. ReplacingInv'
  <2> SUFFICES ASSUME changes <= 1, NEW s \in Replacer, Replacing(s)'
               PROVE  LET z == replacers[s].zone IN
                      /\ config # None /\ z \in Known /\ zones[z].management = config[z]
                      /\ \A q \in Replacer : Replacing(q)' /\ q # s => replacers[q].zone # z
                      /\ replacers'[s].pc = "join" =>
                            /\ ws_threads[z] = replacers'[s].fetcher
                            /\ fetchers'[replacers'[s].fetcher].stop_event
    BY <1>1, <1>3 DEF ReplacingInv, Known
  <2>1. Replacing(s)
    BY <1>4
  <2>2. CASE s = r
    BY <1>2, <1>3, <1>4, <2>1, <2>2 DEF ListenInv, ReplacingInv, f
  <2>3. CASE s # r
    <3>1. replacers[s].pc = "join" => replacers[s].fetcher \in Fetcher
      BY DEF ThreadInv, ReplacerInv
    <3> QED
      BY <1>2, <1>3, <1>4, <2>1, <2>3, <3>1 DEF ListenInv, ReplacingInv
  <2> QED
    BY <2>2, <2>3
<1> QED
  BY <1>5, <1>6, <1>7, <1>8, <1>9 DEF ListenInv

\* What a thread that is started for zone z, or not, leaves true.
LEMMA StartListen ==
    ASSUME TypeOK, ThreadInv, ListenInv, NEW z \in Zone, NEW m \in Management,
           StartListening(z, m) \/ UNCHANGED <<ws_threads, fetchers>>,
           UNCHANGED <<config, changes, disabled>>,
           changes <= 1 => z \in Known', Known \subseteq Known',
           \A y \in Zone \ {z} : zones'[y] = zones[y],
           changes <= 1 => \A f \in Fetcher : Runs(f) => fetchers[f].zone # z,
           changes <= 1 => \A s \in Replacer : Replacing(s)' =>
                /\ Replacing(s) /\ replacers[s].zone # z
                /\ replacers'[s].zone = replacers[s].zone
                /\ replacers'[s].fetcher = replacers[s].fetcher
                /\ replacers'[s].pc = replacers[s].pc
    PROVE  ReplacingInv' /\ StartedInv' /\ ListeningInv'
<1>1. PICK g \in Fetcher \cup {None} :
         /\ \A f \in Fetcher \ {g} : fetchers'[f] = fetchers[f]
         /\ \A y \in Zone \ {z} : ws_threads'[y] = ws_threads[y]
         /\ g = None => UNCHANGED <<ws_threads, fetchers>>
         /\ g # None => /\ fetchers[g].pc = "unused" /\ ws_threads'[z] = g
                        /\ fetchers'[g].zone = z /\ fetchers'[g].pc = "loop"
  <2>1. CASE UNCHANGED <<ws_threads, fetchers>>
    <3>1. WITNESS None \in Fetcher \cup {None}
    <3> QED
      BY <2>1
  <2>2. CASE StartListening(z, m)
    <3>1. PICK h \in Fetcher : /\ fetchers[h].pc = "unused"
                               /\ ws_threads' = [ws_threads EXCEPT ![z] = h]
                               /\ fetchers' = [fetchers EXCEPT ![h] = NewFetcher(z, m)]
      BY <2>2 DEF StartListening
    <3>2. WITNESS h \in Fetcher \cup {None}
    <3> QED
      BY <3>1, NoneAssumption DEF TypeOK, NewFetcher
  <2> QED
    BY <2>1, <2>2
<1>2. \A f \in Fetcher : fetchers[f].pc # "unused" => fetchers[f].zone \in Zone
  BY DEF ThreadInv, FetcherInv
<1>3. StartedInv'
  <2> SUFFICES ASSUME NEW y \in Zone, ws_threads'[y] # None
               PROVE  fetchers'[ws_threads'[y]].pc # "unused"
    BY DEF StartedInv
  <2>1. CASE ws_threads'[y] = g
    BY <1>1, <2>1 DEF ListenInv, StartedInv
  <2>2. CASE ws_threads'[y] # g
    <3>1. ws_threads'[y] = ws_threads[y] /\ ws_threads[y] \in Fetcher
      BY <1>1, <2>2 DEF TypeOK
    <3> QED
      BY <1>1, <2>2, <3>1 DEF ListenInv, StartedInv
  <2> QED
    BY <2>1, <2>2
<1>4. ReplacingInv'
  <2> SUFFICES ASSUME changes <= 1, NEW s \in Replacer, Replacing(s)'
               PROVE  LET y == replacers[s].zone IN
                      /\ config # None /\ y \in Known' /\ zones'[y].management = config[y]
                      /\ \A q \in Replacer : Replacing(q)' /\ q # s => replacers'[q].zone # y
                      /\ replacers[s].pc = "join" =>
                            /\ ws_threads'[y] = replacers[s].fetcher
                            /\ fetchers'[replacers[s].fetcher].stop_event
    BY DEF ReplacingInv
  <2> DEFINE y == replacers[s].zone
  <2>1. Replacing(s) /\ y # z /\ y \in Zone
    BY DEF ThreadInv, ReplacerInv, Replacing
  <2>2. /\ config # None /\ y \in Known /\ zones[y].management = config[y]
        /\ \A q \in Replacer : Replacing(q) /\ q # s => replacers[q].zone # y
        /\ replacers[s].pc = "join" =>
              /\ ws_threads[y] = replacers[s].fetcher
              /\ fetchers[replacers[s].fetcher].stop_event
    BY <2>1 DEF ListenInv, ReplacingInv
  <2>3. replacers[s].pc = "join" => replacers[s].fetcher \in Fetcher
    BY DEF ThreadInv, ReplacerInv
  <2>4. replacers[s].pc = "join" => replacers[s].fetcher # g
    BY <1>1, <2>1, <2>2, <2>3, NoneAssumption DEF ListenInv, StartedInv
  <2> HIDE DEF y
  <2>5. replacers[s].pc = "join" => /\ ws_threads'[y] = replacers[s].fetcher
                                    /\ fetchers'[replacers[s].fetcher].stop_event
    BY <1>1, <2>1, <2>2, <2>3, <2>4
  <2> QED
    BY <2>1, <2>2, <2>5 DEF y
<1>5. ListeningInv'
  <2> DEFINE Added(y) == y \notin Known' /\ (changes = 0 \/ (config # None /\ config[y] # None))
  <2> SUFFICES ASSUME changes <= 1, NEW f \in Fetcher
               PROVE  LET y == fetchers'[f].zone IN
                      /\ fetchers'[f].pc # "unused" => ~Added(y)
                      /\ fetchers'[f].pc \notin {"unused", "ended"} => ws_threads'[y] = f
                      /\ Active(f)' => y \in Known'
                      /\ Listening(f)' => y \notin disabled
    BY DEF ListeningInv, New
  <2>1. CASE f = g
    BY <1>1, <2>1, NoneAssumption DEF Listening
  <2>2. CASE f # g
    <3>1. /\ fetchers[f].pc # "unused" => ~New(fetchers[f].zone)
          /\ fetchers[f].pc \notin {"unused", "ended"} => ws_threads[fetchers[f].zone] = f
          /\ Active(f) => fetchers[f].zone \in Known
          /\ Listening(f) => fetchers[f].zone \notin disabled
      BY DEF ListenInv, ListeningInv
    <3>2. fetchers[f].pc \notin {"unused", "ended"} => fetchers[f].zone # z
      BY DEF Runs
    <3>3. fetchers'[f] = fetchers[f]
      BY <1>1, <2>2
    <3> QED
      BY <1>1, <1>2, <3>1, <3>2, <3>3 DEF Active, Listening, New
  <2> QED
    BY <2>1, <2>2
<1> QED
  BY <1>3, <1>4, <1>5

LEMMA StartNewThreadListen ==
    ASSUME TypeOK, ThreadInv, ListenInv, NEW r \in Replacer, StartNewThread(r)
    PROVE  ListenInv'
<1> DEFINE z == replacers[r].zone
           g == replacers[r].fetcher
<1>1. /\ Replacing(r) /\ z \in Zone /\ replacers[r].management \in Management
      /\ replacers[r].pc = "join" /\ fetchers[g].pc = "ended"
      /\ UNCHANGED <<config, changes, zones, disabled, watcher>>
  BY DEF StartNewThread, Replacing, ThreadInv, ReplacerInv
<1>2. \A s \in Replacer : /\ replacers'[s].zone = replacers[s].zone
                          /\ replacers'[s].fetcher = replacers[s].fetcher
                          /\ replacers'[s].pc = IF s = r THEN "ended" ELSE replacers[s].pc
  BY ReplacerStep DEF StartNewThread, ReplacerPc
<1>3. LookingInv' /\ UnchangedInv'
  BY <1>1 DEF ListenInv, LookingInv, UnchangedInv
<1>4. changes <= 1 => ws_threads[z] = g /\ z \in Known
  BY <1>1 DEF ListenInv, ReplacingInv
<1>5. changes <= 1 => \A s \in Replacer : Replacing(s)' => Replacing(s) /\ replacers[s].zone # z
  BY <1>1, <1>2 DEF Replacing, ListenInv, ReplacingInv
<1>6. Known' = Known
  BY <1>1 DEF Known
<1>7. changes <= 1 => \A f \in Fetcher : Runs(f) => fetchers[f].zone # z
  BY <1>1, <1>4 DEF Runs, ListenInv, ListeningInv
<1>8. StartListening(z, replacers[r].management) \/ UNCHANGED <<ws_threads, fetchers>>
  BY DEF StartNewThread
<1> HIDE DEF z, g
<1>9. ReplacingInv' /\ StartedInv' /\ ListeningInv'
  BY <1>1, <1>2, <1>4, <1>5, <1>6, <1>7, <1>8, StartListen DEF Replacing
<1> QED
  BY <1>3, <1>9 DEF ListenInv

-----------------------------------------------------------------------------
(* The configuration and its watcher *)

\* While the watcher loads a configuration there is one, and it has been changed.
LEMMA LoadingFacts ==
    ASSUME ThreadInv, ListenInv, watcher.pc # "idle"
    PROVE  /\ changes # 0 /\ config # None /\ config \in Config
           /\ \A z \in watcher.left : config[z] # None
           /\ UNCHANGED changes => UnchangedInv'
<1>1. changes # 0
  BY DEF ListenInv, UnchangedInv
<1>2. config \in Config /\ config # None
  BY NoneAssumption DEF ThreadInv, WatcherInv
<1> QED
  BY <1>1, <1>2 DEF ThreadInv, WatcherInv, UnchangedInv

LEMMA HandledLooking ==
    ASSUME TypeOK, ListenInv, NEW z \in Zone, Loading(z), Handled(z) \/ Abort,
           UNCHANGED config
    PROVE  LookingInv'
<1>1. CASE Abort
  BY <1>1 DEF Abort, Idle, LookingInv
<1>2. CASE Handled(z)
  <2>1. /\ watcher'.left = watcher.left \ {z} /\ watcher'.existing = watcher.existing \ {z}
        /\ watcher'.pc = watcher.pc
    BY <1>2 DEF Handled, TypeOK, WatcherState
  <2> QED
    BY <2>1 DEF ListenInv, LookingInv, Loading
<1> QED
  BY <1>1, <1>2

LEMMA AddZoneListen ==
    ASSUME TypeOK, ThreadInv, ListenInv, NEW z \in Zone, AddZone(z)
    PROVE  ListenInv'
<1>1. /\ watcher.pc # "idle" /\ z \in watcher.left /\ z \notin Known
      /\ UNCHANGED <<config, changes, disabled, replacers>>
  BY DEF AddZone, Loading
<1>2. UnchangedInv' /\ config # None /\ config[z] \in Management
  BY <1>1, LoadingFacts, ConfigType
<1>3. LookingInv'
  BY HandledLooking DEF AddZone
<1>4. /\ \A y \in Zone \ {z} : zones'[y] = zones[y]
      /\ zones'[z].management = config[z]
  BY DEF AddZone, TypeOK
<1>5. Known' = Known \cup {z}
  BY <1>2, <1>4, NoneAssumption DEF Known
<1>6. New(z)
  BY <1>1, <1>2, NoneAssumption DEF New
<1>7. changes <= 1 => \A f \in Fetcher : Runs(f) => fetchers[f].zone # z
  BY <1>6 DEF ListenInv, ListeningInv, Runs
<1>8. changes <= 1 => \A s \in Replacer : Replacing(s) => replacers[s].zone # z
  BY <1>1 DEF ListenInv, ReplacingInv
<1>9. StartListening(z, config[z]) \/ UNCHANGED <<ws_threads, fetchers>>
  BY DEF AddZone
<1>10. ReplacingInv' /\ StartedInv' /\ ListeningInv'
  BY <1>1, <1>2, <1>4, <1>5, <1>7, <1>8, <1>9, StartListen DEF Replacing
<1> QED
  BY <1>2, <1>3, <1>10 DEF ListenInv

LEMMA UpdateZoneListen ==
    ASSUME TypeOK, ThreadInv, ListenInv, NEW z \in Zone, UpdateZone(z)
    PROVE  ListenInv'
<1>1. /\ watcher.pc # "idle" /\ z \in watcher.left
      /\ z \in Known /\ zones[z].management # config[z]
      /\ UNCHANGED <<config, changes, disabled, ws_threads, fetchers>>
  BY DEF UpdateZone, Loading
<1>2. UnchangedInv' /\ config # None /\ config[z] \in Management
  BY <1>1, LoadingFacts, ConfigType
<1>3. LookingInv'
  BY HandledLooking DEF UpdateZone
<1>4. /\ \A y \in Zone \ {z} : zones'[y] = zones[y]
      /\ zones'[z].management = config[z]
  BY DEF UpdateZone, TypeOK
<1>5. Known' = Known
  BY <1>1, <1>2, <1>4, NoneAssumption DEF Known
<1>6. StartedInv' /\ ListeningInv'
  BY <1>1, <1>5 DEF ListenInv, StartedInv, ListeningInv, New, Active, Listening
<1>7. ReplacingInv'
  <2>1. PICK r \in Replacer :
           /\ replacers[r].pc = "unused"
           /\ replacers' = [replacers EXCEPT ![r] =
                 [zone |-> z, management |-> config[z], fetcher |-> None, pc |-> "stop"]]
    BY DEF UpdateZone
  <2>2. /\ replacers'[r].zone = z /\ replacers'[r].pc = "stop" /\ ~Replacing(r)
        /\ \A s \in Replacer \ {r} : replacers'[s] = replacers[s]
    BY <2>1 DEF TypeOK, Replacing
  <2>3. changes <= 1 => \A s \in Replacer : Replacing(s) => replacers[s].zone # z
    BY <1>1 DEF ListenInv, ReplacingInv
  <2>4. \A s \in Replacer : Replacing(s) => replacers[s].zone \in Zone
    BY DEF ThreadInv, ReplacerInv, Replacing
  <2> SUFFICES ASSUME changes <= 1, NEW s \in Replacer, Replacing(s)'
               PROVE  LET y == replacers'[s].zone IN
                      /\ config # None /\ y \in Known /\ zones'[y].management = config[y]
                      /\ \A q \in Replacer : Replacing(q)' /\ q # s => replacers'[q].zone # y
                      /\ replacers'[s].pc = "join" =>
                            /\ ws_threads[y] = replacers'[s].fetcher
                            /\ fetchers[replacers'[s].fetcher].stop_event
    BY <1>1, <1>5 DEF ReplacingInv
  <2>5. CASE s = r
    BY <1>1, <1>2, <1>4, <2>2, <2>3, <2>5 DEF Replacing
  <2>6. CASE s # r
    <3>1. Replacing(s) /\ replacers'[s] = replacers[s]
      BY <2>2, <2>6 DEF Replacing
    <3> QED
      BY <1>4, <2>2, <2>3, <2>4, <2>6, <3>1 DEF ListenInv, ReplacingInv, Replacing
  <2> QED
    BY <2>5, <2>6
<1> QED
  BY <1>2, <1>3, <1>6, <1>7 DEF ListenInv

LEMMA RemoveZoneListen ==
    ASSUME TypeOK, ThreadInv, ListenInv, NEW z \in Zone, RemoveZone(z)
    PROVE  ListenInv'
<1> DEFINE g == ws_threads[z]
<1>1. /\ watcher.pc # "idle" /\ watcher.left = {} /\ z \in watcher.existing
      /\ g \in Fetcher /\ StopListening(g)
      /\ UNCHANGED <<config, changes, disabled, ws_threads, replacers>>
  BY DEF RemoveZone, Removing, TypeOK
<1>2. UnchangedInv' /\ config # None /\ changes # 0
  BY <1>1, LoadingFacts
<1>3. config[z] = None
  BY <1>1 DEF ListenInv, LookingInv
<1>4. LookingInv'
  BY <1>1 DEF RemoveZone, ListenInv, LookingInv, TypeOK, WatcherState
<1>5. /\ \A y \in Zone \ {z} : zones'[y] = zones[y]
      /\ zones'[z].management = None
  BY DEF RemoveZone, TypeOK
<1>6. Known' = Known \ {z}
  BY <1>5 DEF Known
<1> HIDE DEF g
<1>7. \A f \in Fetcher :
         /\ fetchers'[f].zone = fetchers[f].zone /\ fetchers'[f].pc = fetchers[f].pc
         /\ fetchers'[f].stop_event = IF f = g THEN TRUE ELSE fetchers[f].stop_event
  BY <1>1, StopEvents
<1>8. StartedInv'
  BY <1>1, <1>7 DEF ListenInv, StartedInv, TypeOK
<1>9. ReplacingInv'
  <2> SUFFICES ASSUME changes <= 1, NEW r \in Replacer, Replacing(r)
               PROVE  LET y == replacers[r].zone IN
                      /\ config # None /\ y \in Known' /\ zones'[y].management = config[y]
                      /\ \A s \in Replacer : Replacing(s) /\ s # r => replacers[s].zone # y
                      /\ replacers[r].pc = "join" =>
                            /\ ws_threads[y] = replacers[r].fetcher
                            /\ fetchers'[replacers[r].fetcher].stop_event
    BY <1>1 DEF ReplacingInv, Replacing
  <2>1. replacers[r].zone # z
    BY <1>3 DEF ListenInv, ReplacingInv, Known
  <2>2. replacers[r].zone \in Zone
    BY DEF ThreadInv, ReplacerInv, Replacing
  <2>3. replacers[r].pc = "join" => replacers[r].fetcher \in Fetcher
    BY DEF ThreadInv, ReplacerInv
  <2> QED
    BY <1>5, <1>6, <1>7, <2>1, <2>2, <2>3 DEF ListenInv, ReplacingInv
<1>10. ListeningInv'
  <2> SUFFICES ASSUME changes <= 1, NEW f \in Fetcher
               PROVE  LET y == fetchers[f].zone IN
                      /\ fetchers[f].pc # "unused" =>
                            ~(y \notin Known' /\
                                 (changes = 0 \/ (config # None /\ config[y] # None)))
                      /\ fetchers[f].pc \notin {"unused", "ended"} => ws_threads[y] = f
                      /\ Active(f)' => y \in Known'
                      /\ Listening(f) => y \notin disabled
    BY <1>1, <1>7 DEF ListeningInv, New, Listening
  <2>1. LET y == fetchers[f].zone IN
        /\ fetchers[f].pc # "unused" => ~New(y)
        /\ fetchers[f].pc \notin {"unused", "ended"} => ws_threads[y] = f
        /\ Active(f) => y \in Known
        /\ Listening(f) => y \notin disabled
    BY DEF ListenInv, ListeningInv
  <2>2. Active(f)' => Active(f) /\ f # g
    BY <1>7 DEF Active
  <2> QED
    BY <1>2, <1>3, <1>6, <2>1, <2>2 DEF New, Active, g
<1> QED
  BY <1>2, <1>4, <1>8, <1>9, <1>10 DEF ListenInv

LEMMA OtherLoadListen ==
    ASSUME TypeOK, ThreadInv, ListenInv, NEW z \in Zone,
           KeepZone(z) \/ RemoveRaises(z)
    PROVE  ListenInv'
<1>1. Quiet
  <2>1. CASE KeepZone(z)
    BY <2>1 DEF Quiet, KeepZone
  <2>2. CASE RemoveRaises(z)
    <3>1. UNCHANGED <<config, changes, ws_threads, replacers, disabled, zones, saver>>
      BY <2>2 DEF RemoveRaises
    <3>2. UNCHANGED fetchers \/ (ws_threads[z] # None /\ StopListening(ws_threads[z]))
      BY <2>2 DEF RemoveRaises
    <3>3. ws_threads[z] # None => ws_threads[z] \in Fetcher
      BY DEF TypeOK
    <3>4. \A f \in Fetcher : /\ fetchers'[f].zone = fetchers[f].zone
                             /\ fetchers'[f].pc = fetchers[f].pc
                             /\ fetchers[f].stop_event => fetchers'[f].stop_event
      BY <3>2, <3>3, StopEvents
    <3> QED
      BY <3>1, <3>4 DEF Quiet
  <2> QED
    BY <2>1, <2>2
<1>2. watcher.pc # "idle"
  BY DEF KeepZone, RemoveRaises, Loading, Removing
<1>3. UnchangedInv'
  BY <1>1, <1>2, LoadingFacts DEF Quiet
<1>4. LookingInv'
  <2>1. CASE KeepZone(z)
    BY <2>1, HandledLooking DEF KeepZone
  <2>2. CASE RemoveRaises(z)
    BY <2>2 DEF RemoveRaises, Abort, Idle, LookingInv
  <2> QED
    BY <2>1, <2>2
<1> QED
  BY <1>1, <1>3, <1>4, QuietListen DEF ListenInv

LEMMA ConfigListen ==
    ASSUME TypeOK, ThreadInv, ListenInv, (\E c \in Configs : ConfigEvent(c)) \/ ConfigCleared
    PROVE  ListenInv'
<1>1. UNCHANGED <<zones, disabled, ws_threads, fetchers, replacers>>
  BY DEF ConfigEvent, ConfigCleared
<1>2. changes \in Nat
  BY BoundsAssumption DEF TypeOK
<1>3. \/ changes' = changes + 1
      \/ changes' = changes /\ config' = config /\ changes # 0
  BY DEF ConfigEvent, ConfigCleared, Watching, ListenInv, UnchangedInv
<1>4. Known' = Known
  BY <1>1 DEF Known
<1>5. LookingInv'
  BY DEF ConfigEvent, ConfigCleared, TopologyLockFree, LookingInv, Known
<1>6. UnchangedInv'
  BY <1>2, <1>3 DEF UnchangedInv
<1>7. StartedInv'
  BY <1>1 DEF ListenInv, StartedInv
<1>8. CASE changes' = changes + 1 /\ changes' <= 1
  <2>1. changes = 0
    BY <1>2, <1>8
  <2>2. ReplacingInv'
    BY <1>1, <2>1 DEF ListenInv, UnchangedInv, ReplacingInv, Replacing
  <2>3. ListeningInv'
    BY <1>1, <1>4, <2>1 DEF ListenInv, ListeningInv, New, Active, Listening
  <2> QED
    BY <1>5, <1>6, <1>7, <2>2, <2>3 DEF ListenInv
<1>9. CASE changes' = changes /\ config' = config
  <2>1. ReplacingInv' /\ ListeningInv'
    BY <1>1, <1>4, <1>9 DEF ListenInv, ReplacingInv, ListeningInv, New, Active, Listening,
       Replacing
  <2> QED
    BY <1>5, <1>6, <1>7, <2>1 DEF ListenInv
<1>10. CASE ~(changes' <= 1)
  BY <1>5, <1>6, <1>7, <1>10 DEF ListenInv, ReplacingInv, ListeningInv
<1> QED
  BY <1>3, <1>8, <1>9, <1>10

-----------------------------------------------------------------------------
(* The theorems *)

LEMMA ListenStep ==
    ASSUME TypeOK, ThreadInv, ListenInv, [Next]_vars
    PROVE  ListenInv'
<1>1. ASSUME NEW f \in Fetcher,
             Listen(f) \/ Disconnect(f) \/ MarkChange(f) \/ Fetch(f) \/ MarkFetched(f)
             \/ Ask(f)
      PROVE  ListenInv'
  BY <1>1, StepListen DEF FetcherStep, MarkStep
<1>2. ASSUME NEW r \in Replacer, Replace(r) PROVE ListenInv'
  BY <1>2, StopCurrentThreadListen, StartNewThreadListen DEF Replace
<1>3. CASE (\E c \in Configs : ConfigEvent(c)) \/ ConfigCleared
  BY <1>3, ConfigListen
<1>4. CASE Load \/ MarkRemoved
  <2>1. ASSUME NEW z \in Zone,
               KeepZone(z) \/ AddZone(z) \/ UpdateZone(z) \/ RemoveZone(z) \/ RemoveRaises(z)
        PROVE  ListenInv'
    BY <2>1, OtherLoadListen, AddZoneListen, UpdateZoneListen, RemoveZoneListen
  <2>2. CASE Loaded \/ MarkRemoved
    <3>1. Quiet /\ watcher.pc # "idle" /\ LookingInv'
      BY <2>2 DEF Quiet, Loaded, MarkRemoved, Mark, Idle, ListenInv, LookingInv, TypeOK,
         WatcherState
    <3> QED
      BY <3>1, LoadingFacts, QuietListen DEF Quiet, ListenInv
  <2> QED
    BY <1>4, <2>1, <2>2 DEF Load
<1>5. CASE \/ Save \/ WriteFails \/ Stop \/ LeaveLoop \/ ShutDown
           \/ \E n \in Node, m \in Management : ClientJoins(n, m) \/ ClientLeaves(n, m)
  BY <1>5, OutsideListen
<1>6. CASE Restart
  BY <1>6, RestartListen
<1>7. CASE UNCHANGED vars
  <2>1. Quiet /\ UNCHANGED watcher
    BY <1>7 DEF vars, Quiet
  <2> QED
    BY <2>1, QuietListen
<1> QED
  BY <1>1, <1>2, <1>3, <1>4, <1>5, <1>6, <1>7 DEF Next

LEMMA ListenKept == Spec => [](TypeOK /\ ThreadInv /\ ListenInv)
<1>1. Init => TypeOK /\ ThreadInv /\ ListenInv
  BY TypeInit, ListenInit
<1>2. TypeOK /\ ThreadInv /\ ListenInv /\ [Next]_vars => (TypeOK /\ ThreadInv /\ ListenInv)'
  BY TypeStep, ListenStep
<1> QED
  BY <1>1, <1>2, PTL DEF Spec

\* However the threads, a change of the configuration, failures of the Kubernetes
\* API, crashes and the shutdown interleave, through one change each zone has one
\* thread that goes on, the one in ws_threads (topology_service.py,
\* stop_current_thread_and_start_new_one).
THEOREM OneListenerKept == Spec => []OneListener
<1>1. ListenInv => OneListener
  BY DEF ListenInv, ListeningInv, OneListener, Active
<1> QED
  BY ListenKept, <1>1, PTL

\* And no thread that it replaced has disabled a zone that is listened to
\* (zone_topology_fetcher.py, the "finally" of run).
THEOREM ListenedEnabledKept == Spec => []ListenedEnabled
<1>1. ListenInv => ListenedEnabled
  BY DEF ListenInv, ListeningInv, ListenedEnabled, Listening
<1> QED
  BY ListenKept, <1>1, PTL

=============================================================================
