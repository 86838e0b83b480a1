----------------------------- MODULE Connection -----------------------------
(* A connection of the SDK to the servers of one management cluster.          *)
(*                                                                            *)
(* The threads of the controller share it, without a lock: which server is in *)
(* use, and the session.  A request that fails is tried again; then isAlive   *)
(* looks for a server that answers.  An answer that asks to log in makes the  *)
(* request log in and start again, inside itself: each thread has a stack of  *)
(* requests, and what one returns or raises goes to the one below.            *)
EXTENDS Integers, Sequences, FiniteSets, SequencesExt

CONSTANTS
    None,
    Thread,
    Servers,        \* the number of managementServers
    Retries,        \* maxHttpRequestRetries
    Rotations,      \* maxManagementsRotations
    MaxEvents,      \* bound: servers that change
    MaxExpiries     \* bound: sessions that end

ASSUME ConnectionAssumption ==
    /\ None \notin Thread
    /\ {Servers, Rotations} \subseteq Nat \ {0}
    /\ {Retries, MaxEvents, MaxExpiries} \subseteq Nat

VARIABLES
    mood,       \* how each server answers
    session,    \* do the servers accept the session?
    index,      \* currentMgmtIndex
    current,    \* managementServer
    stack,      \* of each thread: the requests it is in, the innermost last
    result,     \* what the innermost request gave
    events, expiries

connection == <<mood, session, index, current, stack, result, events, expiries>>

Server == 0..Servers - 1

\* A server that is slow answers isAlive and nothing else; one that is sick
\* answers each request with an error status.
Mood == {"up", "slow", "sick", "down"}

\* Answers and errors of a request: data; an error status; None, which is neither;
\* a ManagementTimeout because no server, or because the server in use, is ready.
Result == {"data", "error", "neither", "timeout", "overload"}
Raised == {"timeout", "overload"}

ASSUME ResultAssumption == None \notin Result

Route == {"/login", "/isAlive", "other"}
Request == [route : Route, tries : 0..Retries, from : Server, asked : 0..Servers * Rotations,
            pc : {"start", "send", "login", "again", "alive"}]

Fresh(r) == [route |-> r, tries |-> 0, from |-> 0, asked |-> 0, pc |-> "start"]

-----------------------------------------------------------------------------
(* The stack of a thread *)

Top(t) == Last(stack[t])
At(t, l) == stack[t] # <<>> /\ result[t] = None /\ Top(t).pc = l

\* What the innermost request gave goes to this one, which waits at l.
Back(t, l) == stack[t] # <<>> /\ result[t] # None /\ Top(t).pc = l
Over(t) == stack[t] = <<>> /\ result[t] # None

Wait(t, r) ==
    /\ stack' = [stack EXCEPT ![t] = Append(Front(@), r)]
    /\ result' = [result EXCEPT ![t] = None]
Goto(t, l) == Wait(t, [Top(t) EXCEPT !.pc = l])

\* r waits for a request of its own.
Enter(t, r, route) ==
    /\ stack' = [stack EXCEPT ![t] = Front(@) \o <<r, Fresh(route)>>]
    /\ result' = [result EXCEPT ![t] = None]
Begin(t, route) ==
    /\ stack' = [stack EXCEPT ![t] = <<Fresh(route)>>]
    /\ result' = [result EXCEPT ![t] = None]

\* r returns, or raises.
Give(t, r) ==
    /\ stack' = [stack EXCEPT ![t] = Front(@)]
    /\ result' = [result EXCEPT ![t] = r]

-----------------------------------------------------------------------------
(* One request *)

\* What follows an exception: another try, or isAlive.
Fail(t) ==
    LET q == Top(t) IN
    IF q.route = "/isAlive" THEN Give(t, "timeout")
    ELSE IF q.tries < Retries
    THEN Wait(t, [q EXCEPT !.tries = q.tries + 1, !.pc = "start"])
    ELSE Enter(t, [q EXCEPT !.from = index, !.asked = 0, !.pc = "alive"], "/isAlive")

\* request: the server in use is put where doRequest reads it.
Choose(t) ==
    /\ At(t, "start")
    /\ current' = index
    /\ Goto(t, "send")
    /\ UNCHANGED <<mood, session, index, events, expiries>>

\* doRequest: isAlive asks for no session.
Send(t) ==
    /\ At(t, "send")
    /\ LET route == Top(t).route
           m == mood[current]
           fails == m = "down" \/ (m = "slow" /\ route # "/isAlive")
       IN \/ fails /\ Fail(t) /\ UNCHANGED session
          \/ m = "sick" /\ Give(t, "error") /\ UNCHANGED session
          \/ ~fails /\ m # "sick" /\ route = "/isAlive" /\ Give(t, "data") /\ UNCHANGED session
          \/ m = "up" /\ route = "/login" /\ Give(t, "data") /\ session' = TRUE
          \/ m = "up" /\ route = "other" /\ session /\ Give(t, "data") /\ UNCHANGED session
          \/ /\ m = "up" /\ route = "other" /\ ~session
             /\ Enter(t, [Top(t) EXCEPT !.pc = "login"], "/login") /\ UNCHANGED session
    /\ UNCHANGED <<mood, index, current, events, expiries>>

\* After the login, the request starts again inside this one; a login that gave
\* no data raises when its answer is looked into.
LoggedIn(t) ==
    /\ Back(t, "login")
    /\ IF result[t] = "data" THEN Enter(t, [Top(t) EXCEPT !.pc = "again"], Top(t).route)
       ELSE Fail(t)
    /\ UNCHANGED <<mood, session, index, current, events, expiries>>

\* It is inside the try block: what it raises counts as one more failure.
Again(t) ==
    /\ Back(t, "again")
    /\ IF result[t] \in Raised THEN Fail(t) ELSE Give(t, result[t])
    /\ UNCHANGED <<mood, session, index, current, events, expiries>>

\* Mutants: the index is not brought back to the first server; it does not move.
NextPast == index + 1
NextStays == index

getNextMgmtIndex == (index + 1) % Servers

\* isAlive, and what doRequest makes of it.  An error status is neither alive nor
\* an exception: the request returns nothing at all.
Alive(t) ==
    /\ Back(t, "alive")
    /\ LET q == Top(t)
           next == [q EXCEPT !.asked = q.asked + 1]
       IN \/ /\ result[t] = "data" /\ UNCHANGED index
             /\ IF index = q.from THEN Give(t, "overload") ELSE Wait(t, Fresh(q.route))
          \/ result[t] = "error" /\ Give(t, "neither") /\ UNCHANGED index
          \/ /\ result[t] = "timeout" /\ index' = getNextMgmtIndex
             /\ IF next.asked = Servers * Rotations THEN Give(t, "timeout")
                ELSE Enter(t, next, "/isAlive")
    /\ UNCHANGED <<mood, session, current, events, expiries>>

Step(t) == Choose(t) \/ Send(t) \/ LoggedIn(t) \/ Again(t) \/ Alive(t)

-----------------------------------------------------------------------------
(* The servers *)

Turn(s, m) ==
    /\ m # mood[s] /\ mood' = [mood EXCEPT ![s] = m]
    /\ events < MaxEvents /\ events' = events + 1
    /\ UNCHANGED <<session, index, current, stack, result, expiries>>

Expire ==
    /\ session /\ session' = FALSE
    /\ expiries < MaxExpiries /\ expiries' = expiries + 1
    /\ UNCHANGED <<mood, index, current, stack, result, events>>

ConnectionTypeOK ==
    /\ mood \in [Server -> Mood] /\ session \in BOOLEAN
    /\ {index, current} \subseteq Server
    /\ stack \in [Thread -> Seq(Request)]
    /\ result \in [Thread -> Result \cup {None}]
    /\ events \in 0..MaxEvents /\ expiries \in 0..MaxExpiries

=============================================================================
