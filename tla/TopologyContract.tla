-------------------------- MODULE TopologyContract --------------------------
(* What the topology ConfigMap promises the node services that read it,       *)
(* although it is written while zones, fetches and events change the topology *)
(* (topology_service.py:23): a save holds every node that was in its zone all *)
(* through it, and none that was there at no time.                            *)
CONSTANTS Zone, Node

VARIABLES
    known,   \* the nodes of each zone
    busy,    \* is a save under way?
    due,     \* what it will write
    saved    \* what the last one has written

Nodes == [Zone -> SUBSET Node]
Nothing == [z \in Zone |-> {}]

Init ==
    /\ known = Nothing /\ saved = Nothing
    /\ ~busy /\ due = Nothing

\* Nodes come and go.  A save under way may or may not see it.
Change ==
    /\ known' \in Nodes /\ due' \in Nodes
    /\ \A z \in Zone : /\ due'[z] \ due[z] \subseteq known'[z] \ known[z]
                       /\ due[z] \ due'[z] \subseteq known[z] \ known'[z]
    /\ ~busy => due' = due
    /\ UNCHANGED <<busy, saved>>

Begin ==
    /\ ~busy
    /\ busy' /\ due' = known
    /\ UNCHANGED <<known, saved>>

Write ==
    /\ busy
    /\ saved' = due
    /\ ~busy' /\ due' = Nothing
    /\ UNCHANGED known

\* A save that fails, or the process that ends: the ConfigMap stays.
GiveUp ==
    /\ ~busy' /\ due' = Nothing
    /\ known' \in {known, Nothing}
    /\ UNCHANGED saved

Next == Change \/ Begin \/ Write \/ GiveUp

Spec == Init /\ [][Next]_<<known, busy, due, saved>>
=============================================================================
