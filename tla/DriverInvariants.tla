-------------------------- MODULE DriverInvariants --------------------------
(* The inductive invariants about the controller's process that its proofs    *)
(* need.                                                                      *)
EXTENDS Driver

Asking == {"login", "dbUUID", "isAlive", "version", "call"}
Waiting == {"login", "again", "alive"}

\* A thread has requests and results only while it asks the management; nobody
\* calls before the start-up is over; while it is not, an attempt is left.
PhaseInv ==
    /\ \A t \in Thread : phase[t] \notin Asking => stack[t] = <<>> /\ result[t] = None
    /\ phase[Main] \in Phase \ {"idle", "pool", "call"}
    /\ \A t \in Handler : /\ phase[t] \in {"idle", "pool", "login", "dbUUID", "call"}
                          /\ ~serving => phase[t] = "idle"
    /\ phase[Main] # "dead" => attempts # 0

\* The requests of a thread, each inside the one before: which of them wait, and
\* for what.  Only isAlive is asked for the search, and it waits for nothing.
\* A search that goes on is not over.
Shape(t) ==
    LET q == stack[t] IN
    /\ \A i \in 1..Len(q) : q[i].asked < Servers * Rotations
    /\ \A i \in 1..Len(q) : q[i].pc \in Waiting <=> i < Len(q) \/ result[t] # None
    /\ \A i \in 1..Len(q) : q[i].pc \in Waiting => q[i].route # "/isAlive"
    /\ \A i \in 1..Len(q) - 1 : q[i].pc = "alive" <=> q[i + 1].route = "/isAlive"
    /\ q # <<>> => (q[1].route = "/isAlive" <=> phase[t] = "isAlive")
ShapeInv == \A t \in Thread : Shape(t)

\* What a thread that can count on servers relies on: nothing but servers that
\* are up or down, and no other handler at work.
Alone(t) ==
    /\ phase[t] \in Asking \cup {"pool"}
    /\ \A s \in Server : mood[s] \in {"up", "down"}
    /\ \A s \in steady[t] : mood[s] = "up"
    /\ \A u \in Handler \ {t} : phase[u] = "idle"
AloneInv == \A t \in Thread : steady[t] # {} => Alone(t)

\* How many times the index moves from server i to server s.
Distance(i, s) == IF s >= i THEN s - i ELSE s - i + Servers

\* Request r began its search at a server that is down, and gets to each server
\* of a set before it ends; the index is i, m the moods.
Searches(r, i, m, up) ==
    /\ m[r.from] = "down"
    /\ \A s \in up : r.asked + Distance(i, s) < Servers * Rotations

\* The request is sent to the server in use.  A search gets to a server to count
\* on.  No request but isAlive gives anything but data.
Finds(t) ==
    LET q == stack[t] IN
    /\ At(t, "send") => current = index
    /\ \A i \in 1..Len(q) : q[i].pc = "alive" => Searches(q[i], index, mood, steady[t])
    /\ result[t] # None =>
          IF q # <<>> /\ Top(t).pc = "alive"
          THEN \/ result[t] = "data" /\ index # Top(t).from
               \/ result[t] = "timeout" /\ index \notin steady[t]
          ELSE result[t] = "data"
FindsInv == \A t \in Thread : steady[t] # {} /\ phase[t] # "isAlive" => Finds(t)

=============================================================================
