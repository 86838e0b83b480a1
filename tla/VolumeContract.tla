--------------------------- MODULE VolumeContract ---------------------------
(* What CreateVolume promises its caller, whatever zones, locks and caches it *)
(* takes (csi.proto, CreateVolumeRequest.name): a name is given at most one   *)
(* piece of storage, and every answer names the zone that storage is in.      *)
CONSTANTS Names, Zones

VARIABLES
    storage,    \* the zones in which storage was provisioned for each name
    answered    \* the zones that answers for each name have carried

Init ==
    /\ storage = [n \in Names |-> {}]
    /\ answered = [n \in Names |-> {}]

Provision(n, z) ==
    /\ storage[n] = {}
    /\ storage' = [storage EXCEPT ![n] = {z}]
    /\ UNCHANGED answered

Answer(n, z) ==
    /\ z \in storage[n]
    /\ answered' = [answered EXCEPT ![n] = @ \cup {z}]
    /\ UNCHANGED storage

Next == \E n \in Names, z \in Zones : Provision(n, z) \/ Answer(n, z)

Spec == Init /\ [][Next]_<<storage, answered>>
=============================================================================
