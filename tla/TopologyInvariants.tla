------------------------- MODULE TopologyInvariants -------------------------
(* The strengthenings that make the topology's invariants inductive.          *)
(* TopologyProofs proves them.                                                *)
EXTENDS Topology

\* What a thread's attributes hold where it is.
FetcherInv ==
    \A f \in Fetcher :
        /\ fetchers[f].pc # "unused" => /\ fetchers[f].zone \in Zone
                                        /\ fetchers[f].management \in Management
        /\ fetchers[f].pc = "received" => events[f] # <<>>
        /\ fetches[f].spawned \/ fetches[f].pc # "idle" => fetchers[f].pc # "unused"

ReplacerInv ==
    \A r \in Replacer :
        /\ replacers[r].pc # "unused" => /\ replacers[r].zone \in Zone
                                         /\ replacers[r].management \in Management
        /\ replacers[r].pc = "join" => replacers[r].fetcher \in Fetcher

WatcherInv ==
    /\ watcher.pc = "idle" => watcher.left = {}
    /\ watcher.pc # "idle" => config \in Config
    /\ \A z \in watcher.left : config[z] # None

ThreadInv == FetcherInv /\ ReplacerInv /\ WatcherInv

\* The user leaves the configuration alone: the watcher has nothing to do, and
\* every thread's zone stays.  All zones are there unless the start has failed.
StaticInv ==
    /\ changes = 0
    /\ config \in Configs
    /\ watcher.pc = "idle"
    /\ \A r \in Replacer : replacers[r].pc = "unused"
    /\ \A z \in Zone : /\ zones[z].management \in {None, config[z]}
                       /\ saver.pc # "failed" => zones[z].management = config[z]
                       /\ z \notin Known => zones[z].nodes = {}
    /\ \A f \in Fetcher :
          fetchers[f].pc # "unused" => /\ fetchers[f].zone \in Known
                                       /\ fetchers[f].management = config[fetchers[f].zone]

\* What the saver has read of a zone is what the topology says, unless it has
\* changed since; then the change waits for the saver to be marked.
SaveInv ==
    /\ saver.pc # "saving" => saver.left = {}
    /\ saver.pc = "saving" =>
          /\ required
          /\ Marking \/ \A z \in Zone \ saver.left : saver.snapshot[z] = Members[z]
          /\ saver.left \subseteq Known

\* A zone that is not there has no nodes, and a saver that does not save has read
\* nothing.
UnknownInv == \A z \in Zone : z \notin Known => zones[z].nodes = {}
RestingInv == SaveLockFree => saver.left = {} /\ saver.snapshot = Nobody

\* Each node that a thread hears of, fetches or has added is at home in its zone,
\* and an event says of no node that stays that it has gone.
EventsInv ==
    \A f \in Fetcher : fetchers[f].pc # "unused" =>
        \A i \in 1..Len(events[f]) :
            IF events[f][i].name = "newClientEvent"
            THEN <<events[f][i].node, fetchers[f].management>> \in Homes
            ELSE events[f][i].node \in Leavers
FetchedInv ==
    \A f \in Fetcher : fetchers[f].pc # "unused" =>
        \A n \in fetches[f].nodes : <<n, fetchers[f].management>> \in Homes
ClientsInv == \A m \in Management : \A n \in clients[m] : <<n, m>> \in Homes
MembersInv == \A z \in Zone : \A n \in zones[z].nodes : <<n, config[z]>> \in Homes

HomeInv == EventsInv /\ FetchedInv /\ ClientsInv /\ MembersInv

\* What is saved, and what the saver has read to save, is in the topology, but for
\* the nodes that may leave.
GrowInv ==
    /\ \A z \in Zone : saved[z] \ Leavers \subseteq zones[z].nodes
    /\ saver.pc # "saving" => saver.left = {}
    /\ saver.pc = "saving" =>
          \A z \in Zone : /\ saver.snapshot[z] \ Leavers \subseteq zones[z].nodes
                          /\ z \notin saver.left =>
                                 saved[z] \ Leavers \subseteq saver.snapshot[z]

\* The watcher looks at a zone that is in the configuration before it looks for
\* those that are not.
LookingInv ==
    watcher.pc # "idle" =>
        \A z \in watcher.existing : z \in watcher.left \/ config[z] = None

\* Before the first change no thread is being replaced, and all zones are loaded
\* unless the start has failed.
UnchangedInv ==
    changes = 0 => /\ config \in Config
                   /\ watcher.pc = "idle"
                   /\ \A r \in Replacer : ~Replacing(r)
                   /\ saver.pc # "failed" =>
                         \A z \in Zone : zones[z].management = config[z]

\* Through one change, a zone has one replacement at most; the zone is there as
\* configured, and the thread waited for is the zone's, which is told to stop.
ReplacingInv ==
    changes <= 1 =>
        \A r \in Replacer : Replacing(r) =>
            LET z == replacers[r].zone IN
            /\ config # None /\ z \in Known /\ zones[z].management = config[z]
            /\ \A s \in Replacer : Replacing(s) /\ s # r => replacers[s].zone # z
            /\ replacers[r].pc = "join" => /\ ws_threads[z] = replacers[r].fetcher
                                           /\ fetchers[replacers[r].fetcher].stop_event

\* ws_threads holds threads that were started.
StartedInv == \A z \in Zone : ws_threads[z] # None => fetchers[ws_threads[z]].pc # "unused"

\* Through one change, no zone that is to be added has ever had a thread, each
\* thread that runs is its zone's and runs on only for a zone that is there, and
\* a zone whose thread listens is enabled.
New(z) == z \notin Known /\ (changes = 0 \/ (config # None /\ config[z] # None))
Listening(f) == fetchers[f].pc \in {"listening", "received", "changed"}
ListeningInv ==
    changes <= 1 =>
        \A f \in Fetcher :
            LET z == fetchers[f].zone IN
            /\ fetchers[f].pc # "unused" => ~New(z)
            /\ fetchers[f].pc \notin {"unused", "ended"} => ws_threads[z] = f
            /\ Active(f) => z \in Known
            /\ Listening(f) => z \notin disabled

ListenInv == LookingInv /\ UnchangedInv /\ ReplacingInv /\ StartedInv /\ ListeningInv

\* Without changes of the configuration, the threads are those of ws_threads, and
\* are told to stop only after the saver has ended.
OwnInv ==
    /\ \A f \in Fetcher : fetchers[f].pc # "unused" => ws_threads[fetchers[f].zone] = f
    /\ \A z \in Zone : ws_threads[z] # None => fetchers[ws_threads[z]].zone = z
EndingInv ==
    /\ stopping.pc \notin {"no", "told"} => saver.pc = "dead"
    /\ \A f \in Fetcher : fetchers[f].stop_event => saver.pc = "dead"

\* Without lost connections, of each client a thread that is registered has an
\* event of its coming under way, which no event of its going follows; or it has
\* no event of it, and the client is in its zone or still to be fetched, or would be
\* had exit(1) not ended the fetch.
Announced(q, n) ==
    \E i \in 1..Len(q) : /\ q[i] = [name |-> "newClientEvent", node |-> n]
                         /\ \A j \in i + 1..Len(q) : q[j].node # n
Unmentioned(q, n) == \A i \in 1..Len(q) : q[i].node # n
Fetching(f, n) == \/ fetches[f].spawned
                  \/ fetches[f].pc \in {"asking", "failed", "exited"}
                  \/ fetches[f].pc = "answered" /\ n \in fetches[f].nodes
Heard(f, n) == \/ Announced(events[f], n)
               \/ /\ Unmentioned(events[f], n)
                  /\ n \in zones[fetchers[f].zone].nodes \/ Fetching(f, n)
HeardBy(f) ==
    ~fetchers[f].stop_event =>
        /\ ~Listening(f) => events[f] = <<>> /\ ~fetches[f].spawned /\ fetches[f].pc = "idle"
        /\ fetches[f].spawned => fetches[f].pc = "idle"
        /\ Listening(f) => \A n \in clients[fetchers[f].management] : Heard(f, n)
HeardInv == \A f \in Fetcher : HeardBy(f)

=============================================================================
