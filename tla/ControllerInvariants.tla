------------------------ MODULE ControllerInvariants ------------------------
(* The strengthenings that make the controller's invariants inductive.  TLC   *)
(* checks them on the small instances; ControllerProofs proves them.          *)
EXTENDS Controller

\* The thread has a volume of its name and zone for sure: its save was
\* answered, and the handler has not returned yet.
Saved(w) == (pc[w] = "saving" /\ http[w] = "ok") \/ pc[w] = "commit"

\* ... or knows of one that existed when the management was last asked.
Found(w) == \/ pc[w] = "saving" /\ http[w] \in {"ok", "exists"}
            \/ pc[w] \in {"compare", "commit"}

\* What a thread's locals hold at each point of its handler.
ThreadInv ==
    \A w \in Workers :
        /\ pc[w] = "idle" => local[w] = Blank
        /\ pc[w] # "idle" => local[w].name \in Names
        /\ pc[w] \in {"lock"} \cup Critical =>
              local[w].entry \in Entries /\ local[w].capacity \in Capacities
        /\ pc[w] \in {"deleting", "read", "extending"} => local[w].entry = None
        /\ pc[w] \in {"save", "saving", "compare", "commit", "deleting", "read", "extending"}
              => local[w].zone \in Zones
        /\ pc[w] = "deleting" => local[w].capacity = 0
        /\ pc[w] \in {"read", "extending"} => local[w].capacity \in Capacities
        /\ http[w] # "none" => pc[w] \in {"saving", "deleting", "extending"}

\* An entry of the dictionary belongs to one name: to that of the volume in it
\* and of the threads that work on it.
CacheInv ==
    \A n \in Names : cache[n] # None =>
        /\ \A m \in Names : cache[m] = cache[n] => m = n
        /\ \A w \in Workers : local[w].entry = cache[n] => local[w].name = n
        /\ csiVolume[cache[n]] # None => csiVolume[cache[n]].name = n

\* A thread that is creating a volume has found none in its entry, and no
\* other thread puts one there.
VacantInv ==
    \A w \in Workers : pc[w] \in Critical => csiVolume[local[w].entry] = None

IInv == TypeOK /\ ThreadInv /\ LockInv /\ CacheInv /\ VacantInv

\* Without deletions and restarts no entry leaves the dictionary, and every id
\* that was handed out is that of the volume in its name's entry.
KeptInv ==
    /\ \A w \in Workers : /\ pc[w] # "deleting"
                          /\ local[w].entry # None =>
                                cache[local[w].name] = local[w].entry
    /\ \A id \in handedOut : /\ cache[id.name] # None
                             /\ csiVolume[cache[id.name]] # None
                             /\ IdOf(csiVolume[cache[id.name]]) = id

\* The cache says that the name's volume is in the zone.
Cached(z, n) == /\ cache[n] # None
                /\ csiVolume[cache[n]] # None
                /\ csiVolume[cache[n]].zone = z

\* When nothing is lost either, the storage is what the cache says, or what the
\* one thread that is about to put it there has been answered.
PieceInv ==
    /\ late = {}
    /\ \A z \in Zones, n \in Names : Has(z, n) =>
          \/ Cached(z, n)
          \/ \E w \in Workers : local[w].name = n /\ local[w].zone = z /\ Saved(w)
    /\ \A z \in Zones, n \in Names : Cached(z, n) => Has(z, n)
    /\ \A w \in Workers : Saved(w) => Has(local[w].zone, local[w].name)

\* With deletions: what the cache says, and what a thread whose entry is still
\* in the dictionary is about to add, is there or its removal is under way.
Present(z, n) ==
    \/ Has(z, n)
    \/ \E d \in Workers : /\ pc[d] = "deleting" /\ http[d] = "ok"
                          /\ local[d].name = n /\ local[d].zone = z

Trusts(z, n) ==
    \/ Cached(z, n)
    \/ /\ cache[n] # None
       /\ \E w \in Workers : local[w].entry = cache[n] /\ Found(w) /\ local[w].zone = z

SoundInv == late = {} /\ \A z \in Zones, n \in Names : Trusts(z, n) => Present(z, n)
=============================================================================
