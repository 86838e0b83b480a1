----------------------------- MODULE MCTopology -----------------------------
(* Small instances of the topology service for TLC. *)
EXTENDS Topology, TLC

CONSTANTS z1, z2, m1, m2, m3, n1, n2, f1, f2

\* Both zones for ever, each with a management of its own.
Static == {(z1 :> m1) @@ (z2 :> m2)}

\* All nodes belong to one management, or each to one, or they may move.
Settlers == {<<n, m1>> : n \in Node}
Apart == {<<n1, m1>>, <<n2, m2>>}
Movers == Node \X Management

\* A zone that is absent, or has one management or another.
Changing == {(z1 :> m) : m \in {None, m1, m2}}

\* One zone whose two nodes join, or two zones and a node of one of them.
OneOrTwo == {(z1 :> m1) @@ (z2 :> None), (z1 :> m2) @@ (z2 :> m3)}
Newcomers == {<<n1, m1>>, <<n2, m1>>, <<n2, m2>>}

\* Which fetcher is whose makes no difference.
NamedInit == Init /\ ws_threads[z1] = f1
NamedSpec == NamedInit /\ [][Next]_vars /\ Fairness

FetcherSymmetry == Permutations(Fetcher)

\* Nor does it in Static which zone comes first, with its management.
Twins == (z1 :> z2) @@ (z2 :> z1) @@ (m1 :> m2) @@ (m2 :> m1)
StaticSymmetry ==
    {p @@ q : p \in Permutations(Fetcher), q \in {Twins, [v \in DOMAIN Twins |-> v]}}
=============================================================================
