--------------------------- MODULE FailoverProofs ---------------------------
(* Proofs about the requests of the controller's threads, for any number of   *)
(* threads, servers, retries, rotations and events: what a thread's stack     *)
(* holds, and that a request finds a server that is up.                       *)
EXTENDS DriverInvariants, SequenceTheorems, TLAPS

-----------------------------------------------------------------------------
(* The ends of a sequence *)

LEMMA EndOf ==
    ASSUME NEW S, NEW q \in Seq(S), q # <<>>
    PROVE  /\ Len(q) \in Nat \ {0} /\ Last(q) = q[Len(q)] /\ Last(q) \in S
           /\ Front(q) \in Seq(S) /\ Len(Front(q)) = Len(q) - 1
           /\ \A i \in 1..Len(q) - 1 : Front(q)[i] = q[i]
  <1>1. Len(q) \in Nat \ {0} BY EmptySeq
  <1>2. \A i \in 1..Len(q) - 1 : q[i] \in S BY ElementOfSeq
  <1>3. /\ Front(q) \in Seq(S) /\ Len(Front(q)) = Len(q) - 1
        /\ \A i \in 1..Len(q) - 1 : Front(q)[i] = q[i]
    <2> DEFINE n == Len(q) - 1
    <2>1. n \in Nat /\ 1 \in Int BY <1>1
    <2>2. \A i \in 1..n : q[i] \in S BY <1>2
    <2> HIDE DEF n
    <2>3. /\ SubSeq(q, 1, n) \in Seq(S) /\ Len(SubSeq(q, 1, n)) = n
          /\ \A i \in 1..n : SubSeq(q, 1, n)[i] = q[i]
      <3>1. /\ SubSeq(q, 1, n) \in Seq(S)
            /\ Len(SubSeq(q, 1, n)) = IF 1 <= n THEN n - 1 + 1 ELSE 0
            /\ \A i \in 1..n - 1 + 1 : SubSeq(q, 1, n)[i] = q[1 + i - 1]
        BY <2>1, <2>2, SubSeqProperties
      <3> QED BY <2>1, <3>1
    <2> QED BY <2>3 DEF Front, n
  <1> QED BY <1>1, <1>3, ElementOfSeq DEF Last

\* The last element is replaced.
LEMMA Replaced ==
    ASSUME NEW S, NEW q \in Seq(S), q # <<>>, NEW r \in S
    PROVE  /\ Append(Front(q), r) \in Seq(S) /\ Append(Front(q), r) # <<>>
           /\ Len(Append(Front(q), r)) = Len(q) /\ Append(Front(q), r)[Len(q)] = r
           /\ \A i \in 1..Len(q) - 1 : Append(Front(q), r)[i] = q[i]
  BY EndOf, AppendProperties

\* The last element is replaced and another one put after it.
LEMMA Extended ==
    ASSUME NEW S, NEW q \in Seq(S), q # <<>>, NEW e \in Seq(S), Len(e) = 2
    PROVE  /\ Front(q) \o e \in Seq(S) /\ Front(q) \o e # <<>>
           /\ Len(Front(q) \o e) = Len(q) + 1
           /\ (Front(q) \o e)[Len(q)] = e[1] /\ (Front(q) \o e)[Len(q) + 1] = e[2]
           /\ \A i \in 1..Len(q) - 1 : (Front(q) \o e)[i] = q[i]
  <1> DEFINE g == Front(q)
             p == g \o e
  <1>2. /\ Len(q) \in Nat \ {0} /\ g \in Seq(S) /\ Len(g) = Len(q) - 1
        /\ \A i \in 1..Len(q) - 1 : g[i] = q[i]
    BY EndOf
  <1> HIDE DEF g
  <1>3. /\ p \in Seq(S) /\ Len(p) = Len(q) + 1
        /\ \A i \in 1..Len(q) + 1 : p[i] = IF i <= Len(q) - 1 THEN g[i] ELSE e[i - (Len(q) - 1)]
    <2>1. /\ p \in Seq(S) /\ Len(p) = Len(g) + Len(e)
          /\ \A i \in 1..Len(g) + Len(e) :
                p[i] = IF i <= Len(g) THEN g[i] ELSE e[i - Len(g)]
      BY <1>2, ConcatProperties
    <2>2. Len(g) + Len(e) = Len(q) + 1 BY <1>2
    <2> HIDE DEF p
    <2> QED BY <1>2, <2>1, <2>2
  <1> HIDE DEF p
  <1>4. p[Len(q)] = e[1] BY <1>2, <1>3
  <1>5. p[Len(q) + 1] = e[2]
    <2>1. /\ Len(q) + 1 \in 1..Len(q) + 1 /\ ~(Len(q) + 1 <= Len(q) - 1)
          /\ Len(q) + 1 - (Len(q) - 1) = 2
      BY <1>2
    <2>2. p[Len(q) + 1] = e[Len(q) + 1 - (Len(q) - 1)] BY <1>3, <2>1
    <2> QED BY <2>1, <2>2
  <1>6. p # <<>> BY <1>2, <1>3, EmptySeq
  <1>7. \A i \in 1..Len(q) - 1 : p[i] = q[i] BY <1>2, <1>3
  <1> QED BY <1>3, <1>4, <1>5, <1>6, <1>7 DEF p, g

-----------------------------------------------------------------------------
(* What a step does to the stacks *)

Stacks ==
    /\ stack \in [Thread -> Seq(Request)]
    /\ result \in [Thread -> Result \cup {None}]

Others(t) ==
    \A u \in Thread \ {t} : stack'[u] = stack[u] /\ result'[u] = result[u]

LEMMA Rounds == /\ Servers * Rotations \in Nat \ {0}
                /\ Servers <= Servers * Rotations
  <1>1. Servers \in Nat \ {0} /\ Rotations \in Nat \ {0} BY ConnectionAssumption
  <1> QED BY <1>1

LEMMA FreshType ==
    ASSUME NEW route \in Route
    PROVE  /\ Fresh(route) \in Request /\ Fresh(route).route = route
           /\ Fresh(route).pc = "start" /\ Fresh(route).asked = 0
  <1>1. 0 \in Server /\ 0 \in 0..Retries /\ 0 \in 0..Servers * Rotations
    BY Rounds, ConnectionAssumption DEF Server
  <1> QED BY <1>1 DEF Fresh, Request

LEMMA WaitEffect ==
    ASSUME Stacks, NEW t \in Thread, stack[t] # <<>>, NEW r \in Request, Wait(t, r)
    PROVE  /\ Stacks' /\ Others(t) /\ result'[t] = None /\ stack'[t] # <<>>
           /\ Len(stack'[t]) = Len(stack[t]) /\ stack'[t][Len(stack[t])] = r
           /\ \A i \in 1..Len(stack[t]) - 1 : stack'[t][i] = stack[t][i]
  <1>1. stack[t] \in Seq(Request) BY DEF Stacks
  <1>2. stack'[t] = Append(Front(stack[t]), r) /\ result'[t] = None /\ Others(t)
    BY DEF Stacks, Wait, Others
  <1>3. stack'[t] \in Seq(Request) BY <1>1, <1>2, Replaced
  <1>4. Stacks' BY <1>2, <1>3 DEF Stacks, Wait, Others
  <1> QED BY <1>1, <1>2, <1>4, Replaced

LEMMA EnterEffect ==
    ASSUME Stacks, NEW t \in Thread, stack[t] # <<>>, NEW r \in Request,
           NEW route \in Route, Enter(t, r, route)
    PROVE  /\ Stacks' /\ Others(t) /\ result'[t] = None /\ stack'[t] # <<>>
           /\ Len(stack'[t]) = Len(stack[t]) + 1
           /\ stack'[t][Len(stack[t])] = r
           /\ stack'[t][Len(stack[t]) + 1] = Fresh(route)
           /\ \A i \in 1..Len(stack[t]) - 1 : stack'[t][i] = stack[t][i]
  <1>1. stack[t] \in Seq(Request) /\ Fresh(route) \in Request BY FreshType DEF Stacks
  <1>2. /\ stack'[t] = Front(stack[t]) \o <<r, Fresh(route)>>
        /\ result'[t] = None /\ Others(t)
    BY DEF Stacks, Enter, Others
  <1>3. /\ stack'[t] \in Seq(Request) /\ stack'[t] # <<>>
        /\ Len(stack'[t]) = Len(stack[t]) + 1
        /\ stack'[t][Len(stack[t])] = r
        /\ stack'[t][Len(stack[t]) + 1] = Fresh(route)
        /\ \A i \in 1..Len(stack[t]) - 1 : stack'[t][i] = stack[t][i]
    <2> DEFINE p == stack'[t]
               q == stack[t]
               e == <<r, Fresh(route)>>
    <2>1. q \in Seq(Request) /\ q # <<>> /\ p = Front(q) \o e BY <1>1, <1>2
    <2>2. e \in Seq(Request) /\ Len(e) = 2 /\ e[1] = r /\ e[2] = Fresh(route) BY <1>1
    <2> HIDE DEF p, q, e
    <2>3. /\ p \in Seq(Request) /\ p # <<>> /\ Len(p) = Len(q) + 1
          /\ p[Len(q)] = e[1] /\ p[Len(q) + 1] = e[2]
          /\ \A i \in 1..Len(q) - 1 : p[i] = q[i]
      BY <2>1, <2>2, Extended
    <2> QED BY <2>2, <2>3 DEF p, q
  <1>4. Stacks' BY <1>2, <1>3 DEF Stacks, Enter, Others
  <1> QED BY <1>2, <1>3, <1>4

LEMMA GiveEffect ==
    ASSUME Stacks, NEW t \in Thread, stack[t] # <<>>, NEW d \in Result, Give(t, d)
    PROVE  /\ Stacks' /\ Others(t) /\ result'[t] = d
           /\ Len(stack'[t]) = Len(stack[t]) - 1
           /\ \A i \in 1..Len(stack[t]) - 1 : stack'[t][i] = stack[t][i]
  <1>1. stack[t] \in Seq(Request) BY DEF Stacks
  <1>2. stack'[t] = Front(stack[t]) /\ result'[t] = d /\ Others(t)
    BY DEF Stacks, Give, Others
  <1>3. stack'[t] \in Seq(Request) BY <1>1, <1>2, EndOf
  <1>4. Stacks' BY <1>2, <1>3 DEF Stacks, Give, Others
  <1> QED BY <1>1, <1>2, <1>4, EndOf

LEMMA BeginEffect ==
    ASSUME Stacks, NEW t \in Thread, NEW route \in Route, Begin(t, route)
    PROVE  /\ Stacks' /\ Others(t) /\ result'[t] = None
           /\ Len(stack'[t]) = 1 /\ stack'[t][1] = Fresh(route)
  <1>1. Fresh(route) \in Request BY FreshType
  <1>2. stack'[t] = <<Fresh(route)>> /\ result'[t] = None /\ Others(t)
    BY DEF Stacks, Begin, Others
  <1>3. Stacks' BY <1>1, <1>2 DEF Stacks, Begin, Others
  <1> QED BY <1>2, <1>3

-----------------------------------------------------------------------------
(* The shape of a stack *)

LEMMA TopType ==
    ASSUME Stacks, NEW t \in Thread, stack[t] # <<>>
    PROVE  /\ Len(stack[t]) \in Nat \ {0} /\ Top(t) = stack[t][Len(stack[t])]
           /\ Top(t) \in Request
  BY EndOf DEF Stacks, Top

LEMMA WaitShape ==
    ASSUME Stacks, NEW t \in Thread, Shape(t), stack[t] # <<>>,
           NEW r \in Request, r.route = Top(t).route, r.pc \notin Waiting,
           r.asked < Servers * Rotations, Wait(t, r), phase'[t] = phase[t]
    PROVE  Shape(t)'
  <1> DEFINE q == stack[t]
             p == stack'[t]
             n == Len(q)
  <1>1. n \in Nat \ {0} /\ Top(t) = q[n] BY TopType
  <1>2. /\ Len(p) = n /\ p[n] = r /\ result'[t] = None
        /\ \A i \in 1..n - 1 : p[i] = q[i]
    BY WaitEffect
  <1>3. /\ \A i \in 1..n : q[i].asked < Servers * Rotations
        /\ \A i \in 1..n : q[i].pc \in Waiting <=> i < n \/ result[t] # None
        /\ \A i \in 1..n : q[i].pc \in Waiting => q[i].route # "/isAlive"
        /\ \A i \in 1..n - 1 : q[i].pc = "alive" <=> q[i + 1].route = "/isAlive"
        /\ q[1].route = "/isAlive" <=> phase[t] = "isAlive"
    BY DEF Shape
  <1> SUFFICES
        /\ \A i \in 1..n : p[i].asked < Servers * Rotations
        /\ \A i \in 1..n : p[i].pc \in Waiting <=> i < n
        /\ \A i \in 1..n : p[i].pc \in Waiting => p[i].route # "/isAlive"
        /\ \A i \in 1..n - 1 : p[i].pc = "alive" <=> p[i + 1].route = "/isAlive"
        /\ p[1].route = "/isAlive" <=> phase[t] = "isAlive"
    BY <1>2 DEF Shape
  <1> HIDE DEF q, p, n
  <1>4. \A i \in 1..n : i = n \/ i \in 1..n - 1 BY <1>1
  <1>5. \A i \in 1..n : p[i].route = q[i].route BY <1>1, <1>2, <1>4 DEF q
  <1>6. \A i \in 1..n - 1 : i + 1 \in 1..n /\ i \in 1..n /\ i < n /\ i # n BY <1>1
  <1>7. \A i \in 1..n : p[i].asked < Servers * Rotations BY <1>2, <1>3, <1>4
  <1>8. \A i \in 1..n : p[i].pc \in Waiting <=> i < n BY <1>2, <1>3, <1>4, <1>6, <1>1
  <1>9. \A i \in 1..n : p[i].pc \in Waiting => p[i].route # "/isAlive"
    BY <1>2, <1>3, <1>4, <1>5
  <1>10. \A i \in 1..n - 1 : p[i].pc = "alive" <=> p[i + 1].route = "/isAlive"
    BY <1>2, <1>3, <1>5, <1>6
  <1>11. 1 \in 1..n BY <1>1
  <1> QED BY <1>3, <1>5, <1>7, <1>8, <1>9, <1>10, <1>11

LEMMA EnterShape ==
    ASSUME Stacks, NEW t \in Thread, Shape(t), stack[t] # <<>>,
           NEW r \in Request, r.route = Top(t).route, r.route # "/isAlive",
           NEW route \in Route, r.pc \in Waiting, r.pc = "alive" <=> route = "/isAlive",
           r.asked < Servers * Rotations, Enter(t, r, route), phase'[t] = phase[t]
    PROVE  Shape(t)'
  <1> DEFINE q == stack[t]
             p == stack'[t]
             n == Len(q)
             f == Fresh(route)
  <1>1. n \in Nat \ {0} /\ Top(t) = q[n] BY TopType
  <1>2. /\ Len(p) = n + 1 /\ p[n] = r /\ p[n + 1] = f /\ result'[t] = None
        /\ \A i \in 1..n - 1 : p[i] = q[i]
    BY EnterEffect
  <1>3. /\ \A i \in 1..n : q[i].asked < Servers * Rotations
        /\ \A i \in 1..n : q[i].pc \in Waiting <=> i < n \/ result[t] # None
        /\ \A i \in 1..n : q[i].pc \in Waiting => q[i].route # "/isAlive"
        /\ \A i \in 1..n - 1 : q[i].pc = "alive" <=> q[i + 1].route = "/isAlive"
        /\ q[1].route = "/isAlive" <=> phase[t] = "isAlive"
    BY DEF Shape
  <1>4. f.route = route /\ f.pc \notin Waiting /\ f.asked < Servers * Rotations
    BY FreshType, Rounds DEF Waiting
  <1> SUFFICES
        /\ \A i \in 1..n + 1 : p[i].asked < Servers * Rotations
        /\ \A i \in 1..n + 1 : p[i].pc \in Waiting <=> i < n + 1
        /\ \A i \in 1..n + 1 : p[i].pc \in Waiting => p[i].route # "/isAlive"
        /\ \A i \in 1..n + 1 - 1 : p[i].pc = "alive" <=> p[i + 1].route = "/isAlive"
        /\ p[1].route = "/isAlive" <=> phase[t] = "isAlive"
    BY <1>2 DEF Shape
  <1>5. n + 1 - 1 = n BY <1>1
  <1>6. q[n].route = r.route BY <1>1
  <1> HIDE DEF q, p, n, f
  <1>7. \A i \in 1..n + 1 : i = n + 1 \/ i = n \/ i \in 1..n - 1 BY <1>1
  <1>8. \A i \in 1..n - 1 : i + 1 \in 1..n /\ i \in 1..n /\ i < n BY <1>1
  <1>9. \A i \in 1..n : i = n \/ i \in 1..n - 1 BY <1>1
  <1>10. \A i \in 1..n : p[i].route = q[i].route BY <1>2, <1>6, <1>9
  <1>11. \A i \in 1..n + 1 : p[i].asked < Servers * Rotations
    BY <1>2, <1>3, <1>4, <1>7, <1>8
  <1>12. \A i \in 1..n + 1 : p[i].pc \in Waiting <=> i < n + 1
    <2>1. \A i \in 1..n - 1 : p[i].pc \in Waiting BY <1>2, <1>3, <1>8
    <2>2. \A i \in 1..n - 1 : i < n + 1 BY <1>1
    <2>3. n < n + 1 /\ ~(n + 1 < n + 1) BY <1>1
    <2> QED BY <2>1, <2>2, <2>3, <1>2, <1>4, <1>7
  <1>13. \A i \in 1..n + 1 : p[i].pc \in Waiting => p[i].route # "/isAlive"
    BY <1>2, <1>3, <1>4, <1>7, <1>8
  <1>14. \A i \in 1..n : p[i].pc = "alive" <=> p[i + 1].route = "/isAlive"
    <2>1. \A i \in 1..n - 1 : p[i].pc = "alive" <=> p[i + 1].route = "/isAlive"
      BY <1>2, <1>3, <1>8, <1>10
    <2>2. p[n].pc = "alive" <=> p[n + 1].route = "/isAlive" BY <1>2, <1>4
    <2> QED BY <2>1, <2>2, <1>9
  <1>15. 1 \in 1..n BY <1>1
  <1> QED BY <1>3, <1>5, <1>10, <1>11, <1>12, <1>13, <1>14, <1>15

LEMMA GiveShape ==
    ASSUME Stacks, NEW t \in Thread, Shape(t), stack[t] # <<>>,
           NEW d \in Result, Give(t, d), phase'[t] = phase[t]
    PROVE  Shape(t)'
  <1> DEFINE q == stack[t]
             p == stack'[t]
             n == Len(q)
  <1>1. n \in Nat \ {0} BY TopType
  <1>2. /\ Len(p) = n - 1 /\ result'[t] = d /\ p \in Seq(Request)
        /\ \A i \in 1..n - 1 : p[i] = q[i]
    BY GiveEffect DEF Stacks
  <1>3. d # None BY ResultAssumption
  <1>4. /\ \A i \in 1..n : q[i].asked < Servers * Rotations
        /\ \A i \in 1..n : q[i].pc \in Waiting <=> i < n \/ result[t] # None
        /\ \A i \in 1..n : q[i].pc \in Waiting => q[i].route # "/isAlive"
        /\ \A i \in 1..n - 1 : q[i].pc = "alive" <=> q[i + 1].route = "/isAlive"
        /\ q[1].route = "/isAlive" <=> phase[t] = "isAlive"
    BY DEF Shape
  <1>5. p # <<>> => 1 \in 1..n - 1 BY <1>1, <1>2, EmptySeq
  <1>6. /\ \A i \in 1..n - 1 : i \in 1..n /\ i < n
        /\ \A i \in 1..n - 1 - 1 : i \in 1..n - 1 /\ i + 1 \in 1..n - 1
    BY <1>1
  <1> SUFFICES
        /\ \A i \in 1..n - 1 : p[i].asked < Servers * Rotations
        /\ \A i \in 1..n - 1 : p[i].pc \in Waiting
        /\ \A i \in 1..n - 1 : p[i].pc \in Waiting => p[i].route # "/isAlive"
        /\ \A i \in 1..n - 1 - 1 : p[i].pc = "alive" <=> p[i + 1].route = "/isAlive"
        /\ p # <<>> => (p[1].route = "/isAlive" <=> phase[t] = "isAlive")
    BY <1>2, <1>3 DEF Shape
  <1> HIDE DEF q, p, n
  <1> QED BY <1>2, <1>4, <1>5, <1>6

LEMMA BeginShape ==
    ASSUME Stacks, NEW t \in Thread, NEW route \in Route, Begin(t, route),
           route = "/isAlive" <=> phase'[t] = "isAlive"
    PROVE  Shape(t)'
  <1>1. /\ Len(stack'[t]) = 1 /\ stack'[t][1] = Fresh(route) /\ result'[t] = None
    BY BeginEffect
  <1>2. /\ Fresh(route).route = route /\ Fresh(route).pc \notin Waiting
        /\ Fresh(route).asked < Servers * Rotations
    BY FreshType, Rounds DEF Waiting
  <1> QED BY <1>1, <1>2 DEF Shape

LEMMA OtherShape ==
    ASSUME NEW t \in Thread, Shape(t), UNCHANGED <<stack[t], result[t]>>,
           stack[t] = <<>> \/ phase'[t] = phase[t]
    PROVE  Shape(t)'
  BY DEF Shape

\* The request that is tried again; the one that begins to search.
Retry(q) == [q EXCEPT !.tries = q.tries + 1, !.pc = "start"]
Search(q, i) == [q EXCEPT !.from = i, !.asked = 0, !.pc = "alive"]

LEMMA Retried ==
    ASSUME NEW q \in Request, q.tries < Retries
    PROVE  /\ Retry(q) \in Request /\ Retry(q).route = q.route /\ Retry(q).pc = "start"
           /\ Retry(q).asked = q.asked
  <1>1. q.tries + 1 \in 0..Retries /\ "start" \in {"start", "send", "login", "again", "alive"}
    BY ConnectionAssumption DEF Request
  <1> DEFINE p == [q EXCEPT !.tries = q.tries + 1]
  <1>2. p \in Request /\ p.route = q.route /\ p.asked = q.asked BY <1>1 DEF Request
  <1>3. Retry(q) = [p EXCEPT !.pc = "start"] BY DEF Retry
  <1> HIDE DEF p
  <1>4. [p EXCEPT !.pc = "start"] \in Request BY <1>2 DEF Request
  <1> QED BY <1>2, <1>3, <1>4 DEF Request

LEMMA Searching ==
    ASSUME NEW q \in Request, NEW i \in Server
    PROVE  /\ Search(q, i) \in Request /\ Search(q, i).route = q.route
           /\ Search(q, i).pc = "alive" /\ Search(q, i).from = i /\ Search(q, i).asked = 0
  <1>1. 0 \in 0..Servers * Rotations /\ "alive" \in {"start", "send", "login", "again", "alive"}
    BY Rounds
  <1> DEFINE p == [q EXCEPT !.from = i]
             s == [p EXCEPT !.asked = 0]
  <1>2. p \in Request /\ p.route = q.route /\ p.from = i BY DEF Request
  <1>3. Search(q, i) = [s EXCEPT !.pc = "alive"] BY DEF Search
  <1> HIDE DEF p
  <1>4. s \in Request /\ s.route = q.route /\ s.from = i /\ s.asked = 0
    BY <1>1, <1>2 DEF Request
  <1> HIDE DEF s
  <1> QED BY <1>1, <1>3, <1>4 DEF Request

LEMMA FailShape ==
    ASSUME Stacks, index \in Server, NEW t \in Thread, Shape(t), stack[t] # <<>>,
           Fail(t), phase'[t] = phase[t]
    PROVE  Stacks' /\ Others(t) /\ Shape(t)'
  <1>0. PICK q : q = Top(t) OBVIOUS
  <1>1. /\ q \in Request /\ q.asked < Servers * Rotations
    BY <1>0, TopType DEF Shape
  <1>2. CASE q.route = "/isAlive"
    <2>1. Give(t, "timeout") /\ "timeout" \in Result BY <1>0, <1>2 DEF Fail, Result
    <2> QED BY <2>1, GiveEffect, GiveShape
  <1>3. CASE q.route # "/isAlive" /\ q.tries < Retries
    <2>1. Wait(t, Retry(q)) BY <1>0, <1>3 DEF Fail, Retry
    <2>2. /\ Retry(q) \in Request /\ Retry(q).route = q.route /\ Retry(q).pc \notin Waiting
          /\ Retry(q).asked < Servers * Rotations
      BY <1>1, <1>3, Retried DEF Waiting
    <2> QED BY <1>0, <2>1, <2>2, WaitEffect, WaitShape
  <1>4. CASE q.route # "/isAlive" /\ ~(q.tries < Retries)
    <2> DEFINE r == Search(q, index)
    <2>1. Enter(t, r, "/isAlive") /\ "/isAlive" \in Route
      BY <1>0, <1>4 DEF Fail, Route, Search
    <2>2. /\ r \in Request /\ r.route = q.route /\ r.pc = "alive" /\ r.pc \in Waiting
          /\ r.asked < Servers * Rotations
      BY <1>1, Searching, Rounds DEF Waiting
    <2> HIDE DEF r
    <2> QED BY <1>0, <1>4, <2>1, <2>2, EnterEffect, EnterShape
  <1> QED BY <1>2, <1>3, <1>4

LEMMA NextType == index \in Server => getNextMgmtIndex \in Server
  <1>1. Servers \in Nat \ {0} BY ConnectionAssumption
  <1> QED BY <1>1 DEF getNextMgmtIndex, Server

-----------------------------------------------------------------------------
(* The steps of a request *)

LEMMA ChooseShape ==
    ASSUME ConnectionTypeOK, NEW t \in Thread, Shape(t), Choose(t), phase'[t] = phase[t]
    PROVE  ConnectionTypeOK' /\ Others(t) /\ Shape(t)'
  <1> DEFINE r == [Top(t) EXCEPT !.pc = "send"]
  <1>1. Stacks BY DEF ConnectionTypeOK, Stacks
  <1>2. stack[t] # <<>> /\ Wait(t, r) BY DEF Choose, At, Goto
  <1>3. Top(t) \in Request /\ Top(t).asked < Servers * Rotations
    BY <1>1, <1>2, TopType DEF Shape
  <1>4. /\ r \in Request /\ r.route = Top(t).route /\ r.pc \notin Waiting
        /\ r.asked < Servers * Rotations
    BY <1>3 DEF Request, Waiting
  <1> HIDE DEF r
  <1>5. Stacks' /\ Others(t) /\ Shape(t)' BY <1>1, <1>2, <1>4, WaitEffect, WaitShape
  <1> QED BY <1>5 DEF ConnectionTypeOK, Stacks, Choose

LEMMA SendShape ==
    ASSUME ConnectionTypeOK, NEW t \in Thread, Shape(t), Send(t), phase'[t] = phase[t]
    PROVE  ConnectionTypeOK' /\ Others(t) /\ Shape(t)'
  <1>1. Stacks /\ index \in Server BY DEF ConnectionTypeOK, Stacks
  <1>2. stack[t] # <<>> /\ session' \in BOOLEAN
    BY DEF Send, At, ConnectionTypeOK
  <1>3. CASE Fail(t) BY <1>1, <1>2, <1>3, FailShape DEF ConnectionTypeOK, Stacks, Send
  <1>4. CASE \E d \in {"data", "error"} : Give(t, d)
    <2>1. PICK d \in Result : Give(t, d) BY <1>4 DEF Result
    <2>2. Stacks' /\ Others(t) /\ Shape(t)' BY <1>1, <1>2, <2>1, GiveEffect, GiveShape
    <2> QED BY <1>2, <2>2 DEF ConnectionTypeOK, Stacks, Send
  <1>5. CASE /\ Enter(t, [Top(t) EXCEPT !.pc = "login"], "/login")
             /\ Top(t).route = "other"
    <2> DEFINE r == [Top(t) EXCEPT !.pc = "login"]
    <2>1. Top(t) \in Request /\ Top(t).asked < Servers * Rotations
      BY <1>1, <1>2, TopType DEF Shape
    <2>2. /\ r \in Request /\ r.route = "other" /\ r.pc = "login" /\ "login" \in Waiting
          /\ r.asked < Servers * Rotations /\ "/login" \in Route
      BY <1>5, <2>1 DEF Request, Waiting, Route
    <2>3. Enter(t, r, "/login") BY <1>5
    <2> HIDE DEF r
    <2>4. Stacks' /\ Others(t) /\ Shape(t)'
      BY <1>1, <1>2, <1>5, <2>2, <2>3, EnterEffect, EnterShape
    <2> QED BY <1>2, <2>4 DEF ConnectionTypeOK, Stacks, Send
  <1> QED BY <1>3, <1>4, <1>5 DEF Send

LEMMA LoggedInShape ==
    ASSUME ConnectionTypeOK, NEW t \in Thread, Shape(t), LoggedIn(t), phase'[t] = phase[t]
    PROVE  ConnectionTypeOK' /\ Others(t) /\ Shape(t)'
  <1>1. Stacks /\ index \in Server BY DEF ConnectionTypeOK, Stacks
  <1>2. stack[t] # <<>> /\ Top(t).pc = "login" BY DEF LoggedIn, Back
  <1>3. CASE Fail(t) BY <1>1, <1>2, <1>3, FailShape DEF ConnectionTypeOK, Stacks, LoggedIn
  <1>4. CASE Enter(t, [Top(t) EXCEPT !.pc = "again"], Top(t).route)
    <2> DEFINE r == [Top(t) EXCEPT !.pc = "again"]
    <2>1. /\ Top(t) \in Request /\ Top(t).asked < Servers * Rotations
          /\ Top(t).route # "/isAlive"
      BY <1>1, <1>2, TopType DEF Shape, Waiting
    <2>2. /\ r \in Request /\ r.route = Top(t).route /\ r.pc = "again"
          /\ "again" \in Waiting /\ r.asked < Servers * Rotations /\ Top(t).route \in Route
      BY <2>1 DEF Request, Waiting
    <2>3. Enter(t, r, Top(t).route) BY <1>4
    <2> HIDE DEF r
    <2>4. Stacks' /\ Others(t) /\ Shape(t)'
      BY <1>1, <1>2, <2>1, <2>2, <2>3, EnterEffect, EnterShape
    <2> QED BY <2>4 DEF ConnectionTypeOK, Stacks, LoggedIn
  <1> QED BY <1>3, <1>4 DEF LoggedIn

LEMMA AgainShape ==
    ASSUME ConnectionTypeOK, NEW t \in Thread, Shape(t), Again(t), phase'[t] = phase[t]
    PROVE  ConnectionTypeOK' /\ Others(t) /\ Shape(t)'
  <1>1. Stacks /\ index \in Server BY DEF ConnectionTypeOK, Stacks
  <1>2. stack[t] # <<>> /\ result[t] \in Result BY DEF Again, Back, ConnectionTypeOK
  <1>3. CASE Fail(t) BY <1>1, <1>2, <1>3, FailShape DEF ConnectionTypeOK, Stacks, Again
  <1>4. CASE Give(t, result[t])
    <2>1. Stacks' /\ Others(t) /\ Shape(t)' BY <1>1, <1>2, <1>4, GiveEffect, GiveShape
    <2> QED BY <2>1 DEF ConnectionTypeOK, Stacks, Again
  <1> QED BY <1>3, <1>4 DEF Again

LEMMA AliveShape ==
    ASSUME ConnectionTypeOK, NEW t \in Thread, Shape(t), Alive(t), phase'[t] = phase[t]
    PROVE  ConnectionTypeOK' /\ Others(t) /\ Shape(t)'
  <1> DEFINE q == Top(t)
             r == [q EXCEPT !.asked = q.asked + 1]
  <1>1. Stacks /\ index \in Server BY DEF ConnectionTypeOK, Stacks
  <1>2. stack[t] # <<>> /\ q.pc = "alive" BY DEF Alive, Back
  <1>3. q \in Request /\ q.asked < Servers * Rotations /\ q.route # "/isAlive"
    BY <1>1, <1>2, TopType DEF Shape, Waiting
  <1>4. index' \in Server BY <1>1, NextType DEF Alive
  <1>5. CASE \E d \in {"overload", "neither", "timeout"} : Give(t, d)
    <2>1. PICK d \in Result : Give(t, d) BY <1>5 DEF Result
    <2>2. Stacks' /\ Others(t) /\ Shape(t)' BY <1>1, <1>2, <2>1, GiveEffect, GiveShape
    <2> QED BY <1>4, <2>2 DEF ConnectionTypeOK, Stacks, Alive
  <1>6. CASE Wait(t, Fresh(q.route))
    <2>1. q.route \in Route BY <1>3 DEF Request
    <2> DEFINE f == Fresh(q.route)
    <2>2. /\ f \in Request /\ f.route = q.route /\ f.pc \notin Waiting
          /\ f.asked < Servers * Rotations
      BY <2>1, FreshType, Rounds DEF Waiting
    <2>3. Wait(t, f) BY <1>6
    <2> HIDE DEF f
    <2>4. Stacks' /\ Others(t) /\ Shape(t)' BY <1>1, <1>2, <2>2, <2>3, WaitEffect, WaitShape
    <2> QED BY <1>4, <2>4 DEF ConnectionTypeOK, Stacks, Alive
  <1>7. CASE r.asked # Servers * Rotations /\ Enter(t, r, "/isAlive")
    <2>1. /\ r \in Request /\ r.route = q.route /\ r.pc = "alive" /\ "alive" \in Waiting
          /\ r.asked < Servers * Rotations /\ "/isAlive" \in Route
      BY <1>2, <1>3, <1>7, Rounds DEF Request, Waiting, Route
    <2>2. Enter(t, r, "/isAlive") BY <1>7
    <2> HIDE DEF r
    <2>3. Stacks' /\ Others(t) /\ Shape(t)'
      BY <1>1, <1>2, <1>3, <2>1, <2>2, EnterEffect, EnterShape
    <2> QED BY <1>4, <2>3 DEF ConnectionTypeOK, Stacks, Alive
  <1> QED BY <1>5, <1>6, <1>7 DEF Alive

LEMMA StepShape ==
    ASSUME ConnectionTypeOK, NEW t \in Thread, Shape(t), Step(t), phase'[t] = phase[t]
    PROVE  ConnectionTypeOK' /\ Others(t) /\ Shape(t)'
  BY ChooseShape, SendShape, LoggedInShape, AgainShape, AliveShape DEF Step

-----------------------------------------------------------------------------
(* Types *)

TypeInv == TypeOK /\ PhaseInv /\ ShapeInv

OthersTurned(t) == \A u \in Thread \ {t} : phase'[u] = phase[u]

LEMMA TurnedEffect ==
    ASSUME TypeInv, NEW t \in Thread, NEW p \in Phase, Turned(t, p)
    PROVE  phase' \in [Thread -> Phase] /\ phase'[t] = p /\ OthersTurned(t)
  BY DEF TypeInv, TypeOK, Turned, OthersTurned

\* A thread that begins a request, or ends.
LEMMA ShapeKept ==
    ASSUME ShapeInv, NEW t \in Thread, Others(t), OthersTurned(t), Shape(t)'
    PROVE  ShapeInv'
  <1> SUFFICES ASSUME NEW u \in Thread \ {t} PROVE Shape(u)'
    BY DEF ShapeInv
  <1>1. Shape(u) /\ UNCHANGED <<stack[u], result[u], phase[u]>>
    BY DEF ShapeInv, Others, OthersTurned
  <1> QED BY <1>1, OtherShape

LEMMA TypedStacks == TypeInv => Stacks /\ ConnectionTypeOK /\ ShapeInv
  BY DEF TypeInv, TypeOK, ConnectionTypeOK, Stacks

LEMMA AskEffect ==
    ASSUME TypeInv, NEW t \in Thread, NEW p \in Phase, NEW route \in Route,
           route = "/isAlive" <=> p = "isAlive", Ask(t, route, p)
    PROVE  /\ ConnectionTypeOK' /\ ShapeInv' /\ Others(t) /\ OthersTurned(t)
           /\ phase' \in [Thread -> Phase] /\ phase'[t] = p
           /\ Len(stack'[t]) = 1 /\ stack'[t][1] = Fresh(route) /\ result'[t] = None
  <1>1. phase' \in [Thread -> Phase] /\ phase'[t] = p /\ OthersTurned(t)
    BY TurnedEffect DEF Ask
  <1>2. /\ Stacks' /\ Others(t) /\ Shape(t)'
        /\ Len(stack'[t]) = 1 /\ stack'[t][1] = Fresh(route) /\ result'[t] = None
    BY <1>1, TypedStacks, BeginEffect, BeginShape DEF Ask
  <1>3. ConnectionTypeOK' BY <1>2, TypedStacks DEF ConnectionTypeOK, Stacks, Ask
  <1>4. ShapeInv' BY <1>1, <1>2, TypedStacks, ShapeKept
  <1> QED BY <1>1, <1>2, <1>3, <1>4

LEMMA ConnectEffect ==
    ASSUME TypeInv, NEW t \in Thread, Connect(t)
    PROVE  /\ ConnectionTypeOK' /\ ShapeInv' /\ Others(t) /\ OthersTurned(t)
           /\ phase' \in [Thread -> Phase] /\ phase'[t] = "login"
           /\ Len(stack'[t]) = 1 /\ stack'[t][1] = Fresh("/login") /\ result'[t] = None
  <1>1. phase' \in [Thread -> Phase] /\ phase'[t] = "login" /\ OthersTurned(t)
    BY TurnedEffect DEF Connect, Phase
  <1>2. /\ Stacks' /\ Others(t) /\ Shape(t)'
        /\ Len(stack'[t]) = 1 /\ stack'[t][1] = Fresh("/login") /\ result'[t] = None
    BY <1>1, TypedStacks, BeginEffect, BeginShape DEF Connect, Route
  <1>3. ConnectionTypeOK' BY <1>2, TypedStacks DEF ConnectionTypeOK, Stacks, Connect
  <1>4. ShapeInv' BY <1>1, <1>2, TypedStacks, ShapeKept
  <1> QED BY <1>1, <1>2, <1>3, <1>4

LEMMA EndsEffect ==
    ASSUME TypeInv, NEW t \in Thread, NEW p \in Phase, Ends(t, p), Over(t)
    PROVE  /\ ConnectionTypeOK' /\ ShapeInv' /\ Others(t) /\ OthersTurned(t)
           /\ phase' \in [Thread -> Phase] /\ phase'[t] = p
           /\ stack'[t] = <<>> /\ result'[t] = None
           /\ steady' \in [Thread -> SUBSET Server] /\ steady'[t] = {}
           /\ \A u \in Thread \ {t} : steady'[u] = steady[u]
  <1>1. phase' \in [Thread -> Phase] /\ phase'[t] = p /\ OthersTurned(t)
    BY TurnedEffect DEF Ends
  <1>2. /\ Stacks' /\ Others(t) /\ stack'[t] = <<>> /\ result'[t] = None
    BY TypedStacks DEF Ends, Over, Stacks, Others
  <1>3. ConnectionTypeOK' BY <1>2, TypedStacks DEF ConnectionTypeOK, Stacks, Ends
  <1>4. Shape(t)' BY <1>2 DEF Shape
  <1>5. ShapeInv' BY <1>1, <1>2, <1>4, TypedStacks, ShapeKept
  <1>6. /\ steady' \in [Thread -> SUBSET Server] /\ steady'[t] = {}
        /\ \A u \in Thread \ {t} : steady'[u] = steady[u]
    BY DEF TypeInv, TypeOK, Ends
  <1> QED BY <1>1, <1>2, <1>3, <1>5, <1>6

LEMMA CountedEffect ==
    ASSUME NEW t \in Thread, steady' = Counted(t)
    PROVE  /\ steady' \in [Thread -> SUBSET Server]
           /\ \A u \in Thread : steady'[u] # {} =>
                 /\ u = t
                 /\ \A s \in Server : mood[s] \in {"up", "down"}
                 /\ \A s \in steady'[u] : mood[s] = "up"
                 /\ \A v \in Handler \ {t} : phase[v] = "idle"
  BY DEF Counted

LEMMA MainTurns ==
    ASSUME TypeInv, ~serving, NEW p \in Phase \ {"idle", "pool", "call"}, Others(Main),
           phase'[Main] = p, OthersTurned(Main),
           p \notin Asking => stack'[Main] = <<>> /\ result'[Main] = None,
           p # "dead" => attempts' # 0
    PROVE  PhaseInv'
  <1>1. \A t \in Handler : t \in Thread \ {Main} BY DEF Handler
  <1>2. Main \in Thread BY DriverAssumption
  <1> QED BY <1>1, <1>2 DEF TypeInv, PhaseInv, Others, OthersTurned, Handler

LEMMA HandlerTurns ==
    ASSUME TypeInv, serving, NEW t \in Handler,
           phase'[t] \in {"idle", "pool", "login", "dbUUID", "call"}, Others(t),
           OthersTurned(t), attempts' = attempts,
           phase'[t] \notin Asking => stack'[t] = <<>> /\ result'[t] = None
    PROVE  PhaseInv'
  <1>1. t \in Thread /\ Main \in Thread \ {t} BY DriverAssumption DEF Handler
  <1>2. serving' BY <1>1 DEF serving, OthersTurned
  <1>3. \A u \in Handler \ {t} : phase'[u] = phase[u] BY DEF OthersTurned, Handler
  <1> QED BY <1>1, <1>2, <1>3 DEF TypeInv, PhaseInv, Others, OthersTurned, serving

LEMMA TypeInit == Init => TypeInv
  <1> SUFFICES ASSUME Init PROVE TypeInv OBVIOUS
  <1> USE ConnectionAssumption, DriverAssumption DEF Init
  <1>1. 0 \in Server BY DEF Server
  <1>2. \A t \in Thread : stack[t] = <<>> /\ result[t] = None OBVIOUS
  <1>3. ConnectionTypeOK
    <2>1. mood \in [Server -> Mood] /\ session \in BOOLEAN OBVIOUS
    <2>2. index \in Server /\ current \in Server BY <1>1
    <2>3. events \in 0..MaxEvents /\ expiries \in 0..MaxExpiries OBVIOUS
    <2>4. <<>> \in Seq(Request) BY EmptySeq
    <2>5. stack \in [Thread -> Seq(Request)] BY <2>4
    <2>6. result \in [Thread -> Result \cup {None}] OBVIOUS
    <2> QED BY <2>1, <2>2, <2>3, <2>5, <2>6 DEF ConnectionTypeOK
  <1>4. TypeOK
    <2>1. phase \in [Thread -> Phase] BY DEF Phase
    <2>2. attempts \in 0..Attempts OBVIOUS
    <2>3. pooled \in BOOLEAN /\ lock \in Handler \cup {None} /\ version \in Versions
      OBVIOUS
    <2>4. steady \in [Thread -> SUBSET Server] OBVIOUS
    <2> QED BY <1>3, <2>1, <2>2, <2>3, <2>4 DEF TypeOK
  <1>5. PhaseInv
    <2>1. phase[Main] = "new" /\ \A t \in Handler : phase[t] = "idle" BY DEF Handler
    <2> QED BY <1>2, <2>1 DEF PhaseInv, Phase
  <1>6. ShapeInv
    <2>1. \A t \in Thread : Len(stack[t]) = 0 BY <1>2
    <2> QED BY <1>2, <2>1 DEF ShapeInv, Shape
  <1> QED BY <1>4, <1>5, <1>6 DEF TypeInv

\* The start-up.
LEMMA StartUpTyped == ASSUME TypeInv, StartUp \/ Restart PROVE TypeInv'
  <1> USE DriverAssumption
  <1>1. /\ phase \in [Thread -> Phase] /\ attempts \in 0..Attempts /\ version \in Versions
        /\ pooled \in BOOLEAN /\ lock \in Handler \cup {None}
        /\ steady \in [Thread -> SUBSET Server]
    BY DEF TypeInv, TypeOK
  <1>2. PhaseInv BY DEF TypeInv
  <1>3. Main \in Thread OBVIOUS
  <1>4. CASE Start
    <2>1. phase[Main] = "new" /\ ~serving BY <1>4 DEF Start, serving
    <2>2. /\ ConnectionTypeOK' /\ ShapeInv' /\ Others(Main) /\ OthersTurned(Main)
          /\ phase' \in [Thread -> Phase] /\ phase'[Main] = "login"
      BY <1>3, <1>4, ConnectEffect DEF Start
    <2>3. attempts' = attempts /\ attempts # 0 BY <1>2, <1>4, <2>1 DEF Start, PhaseInv
    <2>4. PhaseInv' BY <2>1, <2>2, <2>3, MainTurns DEF Phase, Asking
    <2>5. steady' \in [Thread -> SUBSET Server] BY <1>3, <1>4, CountedEffect DEF Start
    <2> QED BY <1>1, <1>4, <2>2, <2>4, <2>5 DEF Start, TypeInv, TypeOK
  <1>5. CASE Identified
    <2>1. phase[Main] = "dbUUID" /\ ~serving BY <1>5 DEF Identified, Gave, serving
    <2>2. /\ ConnectionTypeOK' /\ ShapeInv' /\ Others(Main) /\ OthersTurned(Main)
          /\ phase' \in [Thread -> Phase] /\ phase'[Main] = "isAlive"
      BY <1>3, <1>5, AskEffect DEF Identified, Phase, Route
    <2>3. attempts' = attempts /\ attempts # 0
      BY <1>2, <1>5, <2>1 DEF Identified, PhaseInv
    <2>4. PhaseInv' BY <2>1, <2>2, <2>3, MainTurns DEF Phase, Asking
    <2> QED BY <1>1, <1>5, <2>2, <2>4 DEF Identified, TypeInv, TypeOK
  <1>6. CASE Reached
    <2>1. phase[Main] = "isAlive" /\ ~serving BY <1>6 DEF Reached, Gave, serving
    <2>2. /\ ConnectionTypeOK' /\ ShapeInv' /\ Others(Main) /\ OthersTurned(Main)
          /\ phase' \in [Thread -> Phase] /\ phase'[Main] = "version"
      BY <1>3, <1>6, AskEffect DEF Reached, Phase, Route
    <2>3. attempts' = attempts /\ attempts # 0
      BY <1>2, <1>6, <2>1 DEF Reached, PhaseInv
    <2>4. PhaseInv' BY <2>1, <2>2, <2>3, MainTurns DEF Phase, Asking
    <2> QED BY <1>1, <1>6, <2>2, <2>4 DEF Reached, TypeInv, TypeOK
  <1>7. CASE NotConnected
    <2>1. /\ phase[Main] \in {"login", "dbUUID", "isAlive"} /\ Over(Main)
          /\ ~serving /\ TryAgain
      BY <1>7 DEF NotConnected, Gave, serving
    <2>2. attempts # 0 BY <1>2, <2>1 DEF PhaseInv
    <2>3. PICK p \in {"new", "dead"} :
             /\ Ends(Main, p) /\ attempts' \in 0..Attempts
             /\ p # "dead" => attempts' # 0
      BY <1>1, <2>1, <2>2 DEF TryAgain
    <2>4. /\ ConnectionTypeOK' /\ ShapeInv' /\ Others(Main) /\ OthersTurned(Main)
          /\ phase' \in [Thread -> Phase] /\ phase'[Main] = p
          /\ stack'[Main] = <<>> /\ result'[Main] = None
          /\ steady' \in [Thread -> SUBSET Server]
      BY <1>3, <2>1, <2>3, EndsEffect DEF Phase
    <2>5. PhaseInv' BY <2>1, <2>3, <2>4, MainTurns DEF Phase
    <2> QED BY <1>1, <2>1, <2>3, <2>4, <2>5 DEF TryAgain, TypeInv, TypeOK
  <1>8. CASE Validate
    <2>1. phase[Main] = "version" /\ Over(Main) /\ ~serving
      BY <1>8 DEF Validate, Gave, serving
    <2>2. PICK p \in {"serve", "dead"} : Ends(Main, p) BY <1>8 DEF Validate
    <2>3. /\ ConnectionTypeOK' /\ ShapeInv' /\ Others(Main) /\ OthersTurned(Main)
          /\ phase' \in [Thread -> Phase] /\ phase'[Main] = p
          /\ stack'[Main] = <<>> /\ result'[Main] = None
          /\ steady' \in [Thread -> SUBSET Server]
      BY <1>3, <2>1, <2>2, EndsEffect DEF Phase
    <2>4. attempts' = Attempts /\ Attempts # 0 BY <1>8 DEF Validate
    <2>5. PhaseInv' BY <2>1, <2>3, <2>4, MainTurns DEF Phase
    <2> QED BY <1>1, <1>8, <2>3, <2>4, <2>5 DEF Validate, TypeInv, TypeOK
  <1>9. CASE Restart
    <2>1. phase[Main] = "dead" /\ ~serving BY <1>9 DEF Restart, serving
    <2>2. phase' \in [Thread -> Phase] /\ phase'[Main] = "new" /\ OthersTurned(Main)
      BY <1>3, <1>9, TurnedEffect DEF Restart, Phase
    <2>3. stack[Main] = <<>> /\ result[Main] = None BY <1>2, <2>1 DEF PhaseInv, Asking
    <2>4. UNCHANGED <<stack, result>> BY <1>9 DEF Restart, connection
    <2>5. Others(Main) BY <2>4 DEF Others
    <2>6. attempts' = Attempts /\ Attempts # 0 BY <1>9 DEF Restart
    <2>7. PhaseInv' BY <2>1, <2>2, <2>3, <2>4, <2>5, <2>6, MainTurns DEF Phase
    <2>8. ConnectionTypeOK'
      BY <1>9 DEF Restart, connection, TypeInv, TypeOK, ConnectionTypeOK
    <2>9. Shape(Main)' BY <2>3, <2>4 DEF Shape
    <2>10. ShapeInv' BY <1>3, <2>2, <2>5, <2>9, ShapeKept DEF TypeInv
    <2> QED BY <1>1, <1>9, <2>2, <2>6, <2>7, <2>8, <2>10 DEF Restart, TypeInv, TypeOK
  <1> QED BY <1>4, <1>5, <1>6, <1>7, <1>8, <1>9 DEF StartUp

LEMMA LoginTyped == ASSUME TypeInv, NEW t \in Thread, Login(t) PROVE TypeInv'
  <1>1. phase[t] = "login" BY DEF Login, Gave
  <1>2. /\ ConnectionTypeOK' /\ ShapeInv' /\ Others(t) /\ OthersTurned(t)
        /\ phase' \in [Thread -> Phase] /\ phase'[t] = "dbUUID"
    BY AskEffect DEF Login, Phase, Route
  <1>3. UNCHANGED <<attempts, version, pooled, lock, steady>> BY DEF Login
  <1>4. PhaseInv'
    <2>1. CASE t = Main
      <3>1. ~serving /\ attempts' # 0 BY <1>1, <1>3, <2>1 DEF TypeInv, PhaseInv, serving
      <3> QED BY <1>2, <2>1, <3>1, MainTurns DEF Phase, Asking
    <2>2. CASE t # Main
      <3>1. t \in Handler BY <2>2 DEF Handler
      <3>2. serving BY <1>1, <3>1 DEF TypeInv, PhaseInv
      <3> QED BY <1>2, <1>3, <3>1, <3>2, HandlerTurns DEF Asking
    <2> QED BY <2>1, <2>2
  <1> QED BY <1>2, <1>3, <1>4 DEF TypeInv, TypeOK

LEMMA HandlerTyped ==
    ASSUME TypeInv, NEW t \in Handler, Call(t) \/ Handle(t)
    PROVE  TypeInv'
  <1>1. /\ phase \in [Thread -> Phase] /\ attempts \in 0..Attempts /\ version \in Versions
        /\ pooled \in BOOLEAN /\ lock \in Handler \cup {None}
        /\ steady \in [Thread -> SUBSET Server]
    BY DEF TypeInv, TypeOK
  <1>2. t \in Thread BY DEF Handler
  <1>3. serving
    <2>1. serving \/ phase[t] # "idle" BY DEF Call, Handle, Pool, Pooled, NoApi, Answer, Gave
    <2> QED BY <2>1 DEF TypeInv, PhaseInv
  <1>4. CASE Call(t)
    <2>1. phase' \in [Thread -> Phase] /\ phase'[t] = "pool" /\ OthersTurned(t)
      BY <1>2, <1>4, TurnedEffect DEF Call, Phase
    <2>2. stack[t] = <<>> /\ result[t] = None
      BY <1>2, <1>4 DEF Call, TypeInv, PhaseInv, Asking
    <2>3. UNCHANGED <<stack, result>> BY <1>4 DEF Call, connection
    <2>4. Others(t) BY <2>3 DEF Others
    <2>5. attempts' = attempts BY <1>4 DEF Call
    <2>6. PhaseInv' BY <1>3, <2>1, <2>2, <2>3, <2>4, <2>5, HandlerTurns
    <2>7. ConnectionTypeOK'
      BY <1>4 DEF Call, connection, TypeInv, TypeOK, ConnectionTypeOK
    <2>8. Shape(t)' BY <2>2, <2>3 DEF Shape
    <2>9. ShapeInv' BY <1>2, <2>1, <2>4, <2>8, ShapeKept DEF TypeInv
    <2>10. steady' \in [Thread -> SUBSET Server] BY <1>2, <1>4, CountedEffect DEF Call
    <2> QED BY <1>1, <1>4, <2>1, <2>6, <2>7, <2>9, <2>10 DEF Call, TypeInv, TypeOK
  <1>5. CASE Pool(t)
    <2>1. /\ ConnectionTypeOK' /\ ShapeInv' /\ Others(t) /\ OthersTurned(t)
          /\ phase' \in [Thread -> Phase] /\ phase'[t] \in {"login", "call"}
      <3>1. CASE pooled BY <1>2, <1>5, <3>1, AskEffect DEF Pool, Phase, Route
      <3>2. CASE ~pooled BY <1>2, <1>5, <3>2, ConnectEffect DEF Pool
      <3> QED BY <3>1, <3>2
    <2>2. /\ UNCHANGED <<attempts, version, pooled, steady>>
          /\ lock' \in Handler \cup {None}
      BY <1>1, <1>5 DEF Pool
    <2>3. PhaseInv' BY <1>3, <2>1, <2>2, HandlerTurns DEF Asking
    <2> QED BY <1>1, <2>1, <2>2, <2>3 DEF TypeInv, TypeOK
  <1>6. CASE Pooled(t)
    <2>1. /\ ConnectionTypeOK' /\ ShapeInv' /\ Others(t) /\ OthersTurned(t)
          /\ phase' \in [Thread -> Phase] /\ phase'[t] = "call"
      BY <1>2, <1>6, AskEffect DEF Pooled, Phase, Route
    <2>2. /\ UNCHANGED <<attempts, version, steady>>
          /\ lock' \in Handler \cup {None} /\ pooled' \in BOOLEAN
      BY <1>6 DEF Pooled
    <2>3. PhaseInv' BY <1>3, <2>1, <2>2, HandlerTurns DEF Asking
    <2> QED BY <1>1, <2>1, <2>2, <2>3 DEF TypeInv, TypeOK
  <1>7. CASE NoApi(t) \/ Answer(t)
    <2>1. Ends(t, "idle") /\ Over(t) BY <1>7 DEF NoApi, Answer, Gave
    <2>2. /\ ConnectionTypeOK' /\ ShapeInv' /\ Others(t) /\ OthersTurned(t)
          /\ phase' \in [Thread -> Phase] /\ phase'[t] = "idle"
          /\ stack'[t] = <<>> /\ result'[t] = None
          /\ steady' \in [Thread -> SUBSET Server]
      BY <1>2, <2>1, EndsEffect DEF Phase
    <2>3. /\ UNCHANGED <<attempts, version, pooled>>
          /\ lock' \in Handler \cup {None}
      BY <1>1, <1>7 DEF NoApi, Answer
    <2>4. PhaseInv' BY <1>3, <2>2, <2>3, HandlerTurns
    <2> QED BY <1>1, <2>2, <2>3, <2>4 DEF TypeInv, TypeOK
  <1> QED BY <1>4, <1>5, <1>6, <1>7 DEF Handle

LEMMA ConnectingTyped ==
    ASSUME TypeInv, NEW t \in Thread, Connecting(t)
    PROVE  TypeInv' /\ Others(t)
  <1>1. Step(t) /\ UNCHANGED <<phase, attempts, version, pooled, lock, steady>>
    BY DEF Connecting, driver
  <1>2. ConnectionTypeOK' /\ Others(t) /\ Shape(t)'
    BY <1>1, TypedStacks, StepShape DEF ShapeInv
  <1>3. ShapeInv' BY <1>1, <1>2, TypedStacks, ShapeKept DEF OthersTurned
  <1>4. stack[t] # <<>>
    BY <1>1 DEF Step, Choose, Send, LoggedIn, Again, Alive, At, Back
  <1>5. phase[t] \in Asking BY <1>4 DEF TypeInv, PhaseInv
  <1>6. PhaseInv' BY <1>1, <1>2, <1>5 DEF TypeInv, PhaseInv, Others, serving
  <1> QED BY <1>1, <1>2, <1>3, <1>6 DEF TypeInv, TypeOK

LEMMA ManagementTyped == ASSUME TypeInv, Management PROVE TypeInv'
  <1>1. /\ UNCHANGED <<stack, result, phase, attempts, version, pooled, lock>>
        /\ steady' \in [Thread -> SUBSET Server]
    BY DEF Management, Turn, Expire, TypeInv, TypeOK
  <1>2. ConnectionTypeOK'
    <2>1. CASE Expire
      <3>1. session' \in BOOLEAN BY <2>1 DEF Expire
      <3>2. expiries' \in 0..MaxExpiries
        BY <2>1, ConnectionAssumption DEF Expire, TypeInv, TypeOK, ConnectionTypeOK
      <3> QED BY <2>1, <3>1, <3>2 DEF Expire, TypeInv, TypeOK, ConnectionTypeOK
    <2>2. ASSUME NEW s \in Server, NEW m \in Mood, Turn(s, m) PROVE ConnectionTypeOK'
      <3>1. mood' \in [Server -> Mood] BY <2>2 DEF Turn, TypeInv, TypeOK, ConnectionTypeOK
      <3>2. events' \in 0..MaxEvents
        BY <2>2, ConnectionAssumption DEF Turn, TypeInv, TypeOK, ConnectionTypeOK
      <3> QED BY <2>2, <3>1, <3>2 DEF Turn, TypeInv, TypeOK, ConnectionTypeOK
    <2> QED BY <2>1, <2>2 DEF Management
  <1>3. PhaseInv' BY <1>1 DEF TypeInv, PhaseInv, serving
  <1>4. ShapeInv' BY <1>1, OtherShape DEF TypeInv, ShapeInv
  <1> QED BY <1>1, <1>2, <1>3, <1>4 DEF TypeInv, TypeOK

LEMMA TypeStep == ASSUME TypeInv, [Next]_vars PROVE TypeInv'
  <1>1. CASE UNCHANGED vars
    <2>1. /\ UNCHANGED <<mood, session, index, current, stack, result, events, expiries>>
          /\ UNCHANGED <<phase, attempts, version, pooled, lock, steady>>
      BY <1>1 DEF vars, connection, driver
    <2>2. TypeOK' BY <2>1 DEF TypeInv, TypeOK, ConnectionTypeOK
    <2>3. PhaseInv' BY <2>1 DEF TypeInv, PhaseInv, serving
    <2>4. ShapeInv' BY <2>1, OtherShape DEF TypeInv, ShapeInv
    <2> QED BY <2>2, <2>3, <2>4 DEF TypeInv
  <1> QED
    BY <1>1, StartUpTyped, LoginTyped, HandlerTyped, ConnectingTyped, ManagementTyped
    DEF Next

\* Every thread's stack holds well-formed requests, the index stays within the
\* servers and the attempts within their number (ConnectionManager.py:174).
THEOREM TypeCorrect == Spec => []TypeOK
  <1>1. TypeInv => TypeOK BY DEF TypeInv
  <1> QED BY <1>1, TypeInit, TypeStep, PTL DEF Spec

-----------------------------------------------------------------------------
(* The rotation *)

LEMMA NextIndex ==
    ASSUME index \in Server
    PROVE  getNextMgmtIndex = IF index + 1 = Servers THEN 0 ELSE index + 1
  <1>1. Servers \in Nat \ {0} /\ index \in 0..Servers - 1
    BY ConnectionAssumption DEF Server
  <1>2. CASE index + 1 = Servers BY <1>1, <1>2 DEF getNextMgmtIndex
  <1>3. CASE index + 1 # Servers
    <2>1. index + 1 \in 0..Servers - 1 BY <1>1, <1>3
    <2> QED BY <1>1, <1>3, <2>1 DEF getNextMgmtIndex
  <1> QED BY <1>2, <1>3

LEMMA DistanceType ==
    ASSUME NEW i \in Server, NEW s \in Server
    PROVE  /\ Distance(i, s) \in 0..Servers - 1
           /\ Distance(i, s) = 0 => s = i
  BY ConnectionAssumption DEF Server, Distance

\* The next server is nearer to every one but the server in use.
LEMMA DistanceNext ==
    ASSUME index \in Server, NEW s \in Server, s # index
    PROVE  Distance(getNextMgmtIndex, s) = Distance(index, s) - 1
  <1>1. Servers \in Nat \ {0} /\ index \in 0..Servers - 1 /\ s \in 0..Servers - 1
    BY ConnectionAssumption DEF Server
  <1>2. getNextMgmtIndex = IF index + 1 = Servers THEN 0 ELSE index + 1 BY NextIndex
  <1> QED BY <1>1, <1>2 DEF Distance

-----------------------------------------------------------------------------
(* A thread that finds its server *)

FoundInv == TypeInv /\ AloneInv /\ FindsInv

\* A search goes on at the end of the stack only.
LEMMA AliveAt ==
    ASSUME TypeInv, NEW t \in Thread, stack[t] # <<>>
    PROVE  \A i \in 1..Len(stack[t]) : stack[t][i].pc = "alive" =>
              \/ i = Len(stack[t]) /\ result[t] # None
              \/ /\ i = Len(stack[t]) - 1 /\ result[t] = None
                 /\ Top(t).route = "/isAlive"
  <1> DEFINE q == stack[t]
             n == Len(q)
  <1>1. n \in Nat \ {0} /\ Top(t) = q[n] BY TypedStacks, TopType
  <1>2. /\ \A i \in 1..n : q[i].pc \in Waiting <=> i < n \/ result[t] # None
        /\ \A i \in 1..n : q[i].pc \in Waiting => q[i].route # "/isAlive"
        /\ \A i \in 1..n - 1 : q[i].pc = "alive" <=> q[i + 1].route = "/isAlive"
    BY DEF TypeInv, ShapeInv, Shape
  <1> SUFFICES ASSUME NEW i \in 1..n, q[i].pc = "alive"
               PROVE  \/ i = n /\ result[t] # None
                      \/ i = n - 1 /\ result[t] = None /\ q[n].route = "/isAlive"
    BY <1>1
  <1> HIDE DEF q, n
  <1>3. i < n \/ result[t] # None BY <1>2 DEF Waiting
  <1>4. ASSUME i # n PROVE i = n - 1 /\ result[t] = None /\ q[n].route = "/isAlive"
    <2>1. i \in 1..n - 1 /\ i + 1 \in 1..n BY <1>1, <1>4
    <2>2. q[i + 1].route = "/isAlive" BY <1>2, <2>1
    <2>3. q[i + 1].pc \notin Waiting BY <1>2, <2>1, <2>2
    <2>4. ~(i + 1 < n) /\ result[t] = None BY <1>2, <2>1, <2>3
    <2>5. i + 1 = n BY <1>1, <2>1, <2>4
    <2> QED BY <1>1, <2>2, <2>4, <2>5
  <1> QED BY <1>3, <1>4, <1>1

\* What is below the innermost request waits for it.
LEMMA Below ==
    ASSUME TypeInv, NEW t \in Thread, stack[t] # <<>>, phase[t] # "isAlive"
    PROVE  /\ Top(t).route = "/isAlive" =>
                 /\ Len(stack[t]) - 1 \in 1..Len(stack[t]) - 1
                 /\ stack[t][Len(stack[t]) - 1].pc = "alive"
           /\ Top(t).route # "/isAlive" /\ Len(stack[t]) - 1 \in 1..Len(stack[t]) - 1 =>
                 stack[t][Len(stack[t]) - 1].pc # "alive"
  <1> DEFINE q == stack[t]
             n == Len(q)
  <1>1. n \in Nat \ {0} /\ Top(t) = q[n] BY TypedStacks, TopType
  <1>2. /\ \A i \in 1..n - 1 : q[i].pc = "alive" <=> q[i + 1].route = "/isAlive"
        /\ q[1].route # "/isAlive"
    BY DEF TypeInv, ShapeInv, Shape
  <1> HIDE DEF q, n
  <1>3. ASSUME n - 1 \in 1..n - 1
        PROVE  q[n - 1].pc = "alive" <=> q[n].route = "/isAlive"
    <2>1. n - 1 + 1 = n BY <1>1
    <2> QED BY <1>2, <1>3, <2>1
  <1>4. n - 1 \in 1..n - 1 \/ n = 1 BY <1>1
  <1> QED BY <1>1, <1>2, <1>3, <1>4 DEF q, n

\* The request goes on; one of its own goes on; or what it gave goes to the one below.
LEMMA FindsWait ==
    ASSUME TypeInv, NEW t \in Thread, Finds(t), stack[t] # <<>>,
           NEW r \in Request, Wait(t, r), r.pc \notin Waiting,
           UNCHANGED <<mood, index, steady>>, r.pc = "send" => current' = index
    PROVE  Finds(t)'
  <1> DEFINE q == stack[t]
             p == stack'[t]
             n == Len(q)
             Good(e) == Searches(e, index, mood, steady[t])
  <1>1. n \in Nat \ {0} BY TypedStacks, TopType
  <1>2. /\ Len(p) = n /\ p[n] = r /\ result'[t] = None /\ p \in Seq(Request) /\ p # <<>>
        /\ \A i \in 1..n - 1 : p[i] = q[i]
    BY TypedStacks, WaitEffect DEF Stacks
  <1>3. Top(t)' = r BY <1>2, EndOf DEF Top
  <1>4. \A i \in 1..n - 1 : q[i].pc = "alive" => Good(q[i]) BY <1>1 DEF Finds
  <1>5. \A i \in 1..n : p[i].pc = "alive" => Good(p[i])
    <2> HIDE DEF q, p, n, Good
    <2>1. r.pc # "alive" BY DEF Waiting
    <2>2. \A i \in 1..n : i = n \/ i \in 1..n - 1 BY <1>1
    <2> QED BY <1>2, <1>4, <2>1, <2>2
  <1> QED BY <1>2, <1>3, <1>5 DEF Finds, At

LEMMA FindsEnter ==
    ASSUME TypeInv, NEW t \in Thread, Finds(t), stack[t] # <<>>,
           NEW r \in Request, NEW route \in Route, Enter(t, r, route),
           UNCHANGED <<mood, steady>>, index' = index \/ result[t] # None,
           r.pc = "alive" => Searches(r, index', mood, steady[t])
    PROVE  Finds(t)'
  <1> DEFINE q == stack[t]
             p == stack'[t]
             n == Len(q)
             f == Fresh(route)
             Good(e) == Searches(e, index, mood, steady[t])
             Better(e) == Searches(e, index', mood, steady[t])
  <1>1. n \in Nat \ {0} BY TypedStacks, TopType
  <1>2. /\ Len(p) = n + 1 /\ p[n] = r /\ p[n + 1] = f /\ result'[t] = None
        /\ p \in Seq(Request) /\ p # <<>> /\ \A i \in 1..n - 1 : p[i] = q[i]
    BY TypedStacks, EnterEffect DEF Stacks
  <1>3. Top(t)' = f /\ f.pc = "start"
    <2>1. Top(t)' = p[Len(p)] BY <1>2, EndOf DEF Top
    <2>2. f.pc = "start" BY FreshType
    <2> HIDE DEF f, p, n
    <2> QED BY <1>2, <2>1, <2>2
  <1>4. \A i \in 1..n - 1 : q[i].pc = "alive" => Better(q[i])
    <2>1. CASE index' = index BY <1>1, <2>1 DEF Finds
    <2>2. CASE result[t] # None BY <1>1, <2>2, AliveAt
    <2> QED BY <2>1, <2>2
  <1>5. \A i \in 1..n + 1 : p[i].pc = "alive" => Better(p[i])
    <2>1. r.pc = "alive" => Better(r) OBVIOUS
    <2> HIDE DEF q, p, n, f, Better
    <2>2. \A i \in 1..n + 1 : i = n + 1 \/ i = n \/ i \in 1..n - 1 BY <1>1
    <2> QED BY <1>2, <1>3, <1>4, <2>1, <2>2
  <1> QED BY <1>2, <1>3, <1>5 DEF Finds, At

LEMMA FindsGive ==
    ASSUME TypeInv, NEW t \in Thread, Finds(t), stack[t] # <<>>,
           NEW d \in Result, Give(t, d), UNCHANGED <<index, mood, steady>>,
           LET n == Len(stack[t]) - 1 IN
           IF n \in 1..n /\ stack[t][n].pc = "alive"
           THEN \/ d = "data" /\ index # stack[t][n].from
                \/ d = "timeout" /\ index \notin steady[t]
           ELSE d = "data"
    PROVE  Finds(t)'
  <1> DEFINE q == stack[t]
             p == stack'[t]
             n == Len(q) - 1
             Good(e) == Searches(e, index, mood, steady[t])
  <1>1. Len(q) \in Nat \ {0} /\ n \in Nat BY TypedStacks, TopType
  <1>2. /\ Len(p) = n /\ result'[t] = d /\ p \in Seq(Request)
        /\ \A i \in 1..n : p[i] = q[i]
    BY TypedStacks, GiveEffect DEF Stacks
  <1>3. d # None BY ResultAssumption
  <1>4. \A i \in 1..n : q[i].pc = "alive" => Good(q[i]) BY <1>1 DEF Finds
  <1>5. \A i \in 1..n : p[i].pc = "alive" => Good(p[i])
    <2> HIDE DEF q, p, n, Good
    <2> QED BY <1>2, <1>4
  <1>6. p # <<>> => n \in 1..n /\ Top(t)' = q[n]
    <2>1. p # <<>> => Len(p) \in Nat \ {0} /\ Top(t)' = p[Len(p)] BY <1>2, EndOf DEF Top
    <2> QED BY <1>1, <1>2, <2>1
  <1>7. p = <<>> => n \notin 1..n
    <2>1. p = <<>> => n = 0 BY <1>2
    <2> HIDE DEF p, n
    <2> QED BY <2>1
  <1>8. /\ ~At(t, "send")'
        /\ IF p # <<>> /\ Top(t)'.pc = "alive"
           THEN \/ d = "data" /\ index # Top(t)'.from
                \/ d = "timeout" /\ index \notin steady[t]
           ELSE d = "data"
    BY <1>2, <1>3, <1>6, <1>7 DEF At
  <1> QED BY <1>2, <1>5, <1>8 DEF Finds

\* A thread at work that can count on a server.
Counts(t) == /\ TypeInv /\ steady[t] # {} /\ phase[t] # "isAlive"
             /\ Alone(t) /\ Finds(t)

LEMMA FindsFail ==
    ASSUME NEW t \in Thread, Counts(t), Fail(t), stack[t] # <<>>,
           mood[index] = "down", UNCHANGED <<mood, index, steady>>
    PROVE  Finds(t)'
  <1>0. PICK q : q = Top(t) OBVIOUS
  <1>1. TypeInv /\ Finds(t) /\ q \in Request /\ index \in Server
    BY <1>0, TypedStacks, TopType DEF Counts, ConnectionTypeOK
  <1>2. CASE q.route = "/isAlive"
    <2>1. Give(t, "timeout") /\ "timeout" \in Result BY <1>0, <1>2 DEF Fail, Result
    <2>2. index \notin steady[t] BY DEF Counts, Alone
    <2> QED BY <1>0, <1>1, <1>2, <2>1, <2>2, Below, FindsGive DEF Counts
  <1>3. CASE q.route # "/isAlive" /\ q.tries < Retries
    <2>1. Wait(t, Retry(q)) BY <1>0, <1>3 DEF Fail, Retry
    <2>2. Retry(q) \in Request /\ Retry(q).pc = "start" /\ Retry(q).pc \notin Waiting
      BY <1>1, <1>3, Retried DEF Waiting
    <2> QED BY <1>1, <2>1, <2>2, FindsWait
  <1>4. CASE q.route # "/isAlive" /\ ~(q.tries < Retries)
    <2> DEFINE r == Search(q, index)
    <2>1. Enter(t, r, "/isAlive") /\ "/isAlive" \in Route
      BY <1>0, <1>4 DEF Fail, Route, Search
    <2>2. r \in Request /\ r.from = index /\ r.asked = 0 BY <1>1, Searching
    <2> HIDE DEF r
    <2>3. \A s \in steady[t] : r.asked + Distance(index, s) < Servers * Rotations
      <3> SUFFICES ASSUME NEW s \in steady[t] PROVE 0 + Distance(index, s) < Servers * Rotations
        BY <2>2
      <3>1. s \in Server BY DEF Counts, TypeInv, TypeOK
      <3>2. Distance(index, s) \in 0..Servers - 1 /\ Servers \in Nat
        BY <1>1, <3>1, DistanceType, ConnectionAssumption
      <3> QED BY <3>2, Rounds
    <2>4. Searches(r, index', mood, steady[t]) BY <2>2, <2>3 DEF Searches
    <2> QED BY <1>1, <2>1, <2>2, <2>4, FindsEnter
  <1> QED BY <1>2, <1>3, <1>4

LEMMA FindsChoose ==
    ASSUME NEW t \in Thread, Counts(t), Choose(t), UNCHANGED steady
    PROVE  Finds(t)'
  <1> DEFINE r == [Top(t) EXCEPT !.pc = "send"]
  <1>1. /\ stack[t] # <<>> /\ Wait(t, r) /\ current' = index
        /\ UNCHANGED <<mood, index>>
    BY DEF Choose, At, Goto
  <1>2. TypeInv /\ Finds(t) BY DEF Counts
  <1>3. Top(t) \in Request BY <1>1, <1>2, TypedStacks, TopType
  <1>4. r \in Request /\ r.pc \notin Waiting BY <1>3 DEF Request, Waiting
  <1> HIDE DEF r
  <1> QED BY <1>1, <1>2, <1>4, FindsWait

LEMMA FindsSend ==
    ASSUME NEW t \in Thread, Counts(t), Send(t), UNCHANGED steady
    PROVE  Finds(t)'
  <1> DEFINE n == Len(stack[t]) - 1
             route == Top(t).route
  <1>1. /\ TypeInv /\ Finds(t) /\ index \in Server
        /\ stack[t] # <<>> /\ At(t, "send") /\ UNCHANGED <<mood, index>>
    BY TypedStacks DEF Counts, Send, At, ConnectionTypeOK
  <1>2. current = index /\ mood[index] \in {"up", "down"}
    BY <1>1 DEF Counts, Alone, Finds
  <1>3. CASE Fail(t) /\ mood[index] = "down" BY <1>1, <1>3, FindsFail
  <1>4. CASE Give(t, "data") /\ mood[index] = "up"
    <2>1. route = "/isAlive" => /\ n \in 1..n /\ stack[t][n].pc = "alive"
                                /\ index # stack[t][n].from
      <3> SUFFICES ASSUME route = "/isAlive"
                   PROVE  /\ n \in 1..n /\ stack[t][n].pc = "alive"
                          /\ index # stack[t][n].from
        OBVIOUS
      <3>1. n \in 1..n /\ stack[t][n].pc = "alive" BY <1>1, Below DEF Counts
      <3>2. n \in 1..Len(stack[t]) BY <1>1, <3>1, TypedStacks, TopType
      <3>3. mood[stack[t][n].from] = "down" BY <1>1, <3>1, <3>2 DEF Finds, Searches
      <3> QED BY <1>4, <3>1, <3>3
    <2>2. route # "/isAlive" => ~(n \in 1..n /\ stack[t][n].pc = "alive")
      BY <1>1, Below DEF Counts
    <2> QED BY <1>1, <1>4, <2>1, <2>2, FindsGive DEF Result
  <1>5. CASE Enter(t, [Top(t) EXCEPT !.pc = "login"], "/login")
    <2> DEFINE r == [Top(t) EXCEPT !.pc = "login"]
    <2>1. Top(t) \in Request BY <1>1, TypedStacks, TopType
    <2>2. r \in Request /\ r.pc = "login" /\ "/login" \in Route
      BY <2>1 DEF Request, Route
    <2>3. Enter(t, r, "/login") BY <1>5
    <2> HIDE DEF r
    <2> QED BY <1>1, <2>2, <2>3, FindsEnter
  <1> QED BY <1>2, <1>3, <1>4, <1>5 DEF Send

LEMMA FindsBack ==
    ASSUME NEW t \in Thread, Counts(t), LoggedIn(t) \/ Again(t), UNCHANGED steady
    PROVE  Finds(t)'
  <1>1. /\ TypeInv /\ Finds(t) /\ stack[t] # <<>> /\ result[t] # None
        /\ Top(t).pc \in {"login", "again"} /\ UNCHANGED <<mood, index>>
    BY DEF Counts, LoggedIn, Again, Back
  <1>2. result[t] = "data" BY <1>1 DEF Finds
  <1>3. Top(t) \in Request BY <1>1, TypedStacks, TopType
  <1>4. CASE LoggedIn(t)
    <2> DEFINE r == [Top(t) EXCEPT !.pc = "again"]
    <2>1. r \in Request /\ r.pc = "again" /\ Top(t).route \in Route
      BY <1>3 DEF Request
    <2>2. Enter(t, r, Top(t).route) BY <1>2, <1>4 DEF LoggedIn
    <2> HIDE DEF r
    <2> QED BY <1>1, <2>1, <2>2, FindsEnter
  <1>5. CASE Again(t)
    <2>1. Give(t, "data") BY <1>2, <1>5 DEF Again, Raised
    <2>2. Top(t).route # "/isAlive" BY <1>1, TypedStacks, TopType DEF ShapeInv, Shape, Waiting
    <2> QED BY <1>1, <2>1, <2>2, Below, FindsGive DEF Counts, Result
  <1> QED BY <1>4, <1>5

LEMMA FindsAlive ==
    ASSUME NEW t \in Thread, Counts(t), Alive(t), UNCHANGED steady
    PROVE  Finds(t)'
  <1> DEFINE q == Top(t)
             r == [q EXCEPT !.asked = q.asked + 1]
  <1>1. /\ TypeInv /\ Finds(t) /\ stack[t] # <<>> /\ result[t] # None
        /\ q.pc = "alive" /\ UNCHANGED mood /\ index \in Server
    BY TypedStacks DEF Counts, Alive, Back, ConnectionTypeOK
  <1>2. \/ result[t] = "data" /\ index # q.from
        \/ result[t] = "timeout" /\ index \notin steady[t]
    BY <1>1 DEF Finds
  <1>3. q \in Request BY <1>1, TypedStacks, TopType
  <1>4. Searches(q, index, mood, steady[t])
    BY <1>1, TypedStacks, TopType DEF Finds
  <1>5. CASE result[t] = "data"
    <2> DEFINE f == Fresh(q.route)
    <2>1. f \in Request /\ f.pc = "start" /\ f.pc \notin Waiting
      BY <1>3, FreshType DEF Request, Waiting
    <2>2. Wait(t, f) /\ UNCHANGED index BY <1>2, <1>5 DEF Alive
    <2> HIDE DEF f
    <2> QED BY <1>1, <2>1, <2>2, FindsWait
  <1>6. CASE result[t] = "timeout"
    <2>1. index' = getNextMgmtIndex /\ index \notin steady[t] BY <1>2, <1>6 DEF Alive
    <2>2. r.asked = q.asked + 1 /\ r.from = q.from /\ r.pc = "alive" /\ q.asked \in Nat
      BY <1>1, <1>3, Rounds DEF Request
    <2>3. \A s \in steady[t] : r.asked + Distance(index', s) < Servers * Rotations
      <3> SUFFICES ASSUME NEW s \in steady[t]
                   PROVE  r.asked + Distance(index', s) < Servers * Rotations
        OBVIOUS
      <3>1. s \in Server /\ s # index BY <2>1 DEF Counts, TypeInv, TypeOK
      <3>2. Distance(index', s) = Distance(index, s) - 1
        BY <1>1, <2>1, <3>1, DistanceNext
      <3>3. q.asked + Distance(index, s) < Servers * Rotations BY <1>4 DEF Searches
      <3>4. Distance(index, s) \in Int
        BY <1>1, <3>1, DistanceType, ConnectionAssumption
      <3> HIDE DEF r
      <3> QED BY <2>2, <3>2, <3>3, <3>4, Rounds
    <2>4. Searches(r, index', mood, steady[t]) BY <1>4, <2>2, <2>3 DEF Searches
    <2>5. r.asked < Servers * Rotations
      <3>1. PICK s \in steady[t] : TRUE BY DEF Counts
      <3>2. index' \in Server /\ s \in Server
        BY <1>1, <2>1, NextType DEF Counts, TypeInv, TypeOK
      <3>3. Distance(index', s) \in Nat BY <3>2, DistanceType, ConnectionAssumption
      <3> HIDE DEF r
      <3> QED BY <2>2, <2>3, <3>3, Rounds
    <2>6. Enter(t, r, "/isAlive") BY <1>6, <2>5, Rounds DEF Alive
    <2>7. r \in Request /\ "/isAlive" \in Route
      BY <1>3, <2>2, <2>5, Rounds DEF Request, Route
    <2> HIDE DEF r
    <2> QED BY <1>1, <2>4, <2>6, <2>7, FindsEnter
  <1> QED BY <1>2, <1>5, <1>6

LEMMA FindsStep ==
    ASSUME NEW t \in Thread, Counts(t), Step(t), UNCHANGED steady
    PROVE  Finds(t)'
  BY FindsChoose, FindsSend, FindsBack, FindsAlive DEF Step

\* A thread that begins a request.
LEMMA FindsBegin ==
    ASSUME NEW t \in Thread, TypeInv', NEW route \in Route,
           Len(stack'[t]) = 1, stack'[t][1] = Fresh(route), result'[t] = None
    PROVE  Finds(t)'
  <1>1. stack'[t] \in Seq(Request) BY DEF TypeInv, TypeOK, ConnectionTypeOK
  <1>2. Top(t)' = Fresh(route)
    <2> DEFINE p == stack'[t]
    <2>1. p \in Seq(Request) /\ Len(p) = 1 /\ p[1] = Fresh(route) /\ p # <<>> BY <1>1
    <2> HIDE DEF p
    <2>2. Last(p) = p[Len(p)] BY <2>1, EndOf
    <2> QED BY <2>1, <2>2 DEF Top, p
  <1>3. Fresh(route).pc = "start" BY FreshType
  <1> QED BY <1>2, <1>3 DEF Finds, At

-----------------------------------------------------------------------------
(* The steps of the process *)

LEMMA OnlyOne ==
    ASSUME TypeInv, NEW t \in Thread, Alone(t), NEW u \in Thread \ {t}
    PROVE  phase[u] \in {"idle", "serve"}
  <1>1. CASE u \in Handler BY <1>1 DEF Alone
  <1>2. CASE u \notin Handler
    <2>1. u = Main /\ t \in Handler BY <1>2 DEF Handler
    <2>2. phase[t] # "idle" BY DEF Alone, Asking
    <2> QED BY <2>1, <2>2 DEF TypeInv, PhaseInv, serving
  <1> QED BY <1>1, <1>2

\* One thread acts that does not wait to be called: no other one counts on a server.
LEMMA OneActs ==
    ASSUME FoundInv, TypeInv', NEW t \in Thread, phase[t] \notin {"idle", "serve"},
           OthersTurned(t), UNCHANGED mood,
           \A u \in Thread \ {t} : steady'[u] = steady[u],
           steady'[t] # {} => /\ steady'[t] = steady[t] /\ phase'[t] \in Asking \cup {"pool"}
                              /\ phase'[t] # "isAlive" => Finds(t)'
    PROVE  FoundInv'
  <1>1. \A u \in Thread \ {t} : steady'[u] = {}
    <2> SUFFICES ASSUME NEW u \in Thread \ {t}, steady[u] # {} PROVE FALSE
      OBVIOUS
    <2>1. TypeInv /\ Alone(u) /\ t \in Thread \ {u} BY DEF FoundInv, AloneInv
    <2> QED BY <2>1, OnlyOne
  <1>2. steady'[t] # {} => Alone(t)'
    <2> SUFFICES ASSUME steady'[t] # {} PROVE Alone(t)' OBVIOUS
    <2>1. Alone(t) BY DEF FoundInv, AloneInv
    <2>2. \A u \in Handler \ {t} : phase'[u] = phase[u] BY DEF OthersTurned, Handler
    <2> QED BY <2>1, <2>2 DEF Alone
  <1>3. AloneInv' BY <1>1, <1>2 DEF AloneInv
  <1>4. FindsInv' BY <1>1 DEF FindsInv
  <1> QED BY <1>3, <1>4 DEF FoundInv

\* One thread begins to count on the servers that are up.
LEMMA OneCounts ==
    ASSUME TypeInv', NEW t \in Thread, steady' = Counted(t), UNCHANGED mood,
           OthersTurned(t), phase'[t] \in Asking \cup {"pool"}, Finds(t)'
    PROVE  FoundInv'
  <1>1. \A u \in Thread : steady'[u] # {} =>
           /\ u = t
           /\ \A s \in Server : mood'[s] \in {"up", "down"}
           /\ \A s \in steady'[u] : mood'[s] = "up"
           /\ \A v \in Handler \ {t} : phase[v] = "idle"
    BY CountedEffect
  <1>2. \A v \in Handler \ {t} : phase'[v] = phase[v] BY DEF OthersTurned, Handler
  <1>3. AloneInv'
    <2> SUFFICES ASSUME NEW u \in Thread, steady'[u] # {} PROVE Alone(u)' BY DEF AloneInv
    <2> QED BY <1>1, <1>2 DEF Alone
  <1>4. FindsInv' BY <1>1 DEF FindsInv
  <1> QED BY <1>3, <1>4 DEF FoundInv

LEMMA FoundInit == Init => FoundInv
  <1> SUFFICES ASSUME Init PROVE FoundInv OBVIOUS
  <1>1. \A t \in Thread : steady[t] = {} BY DEF Init
  <1> QED BY <1>1, TypeInit DEF FoundInv, AloneInv, FindsInv

LEMMA StartUpFound == ASSUME FoundInv, StartUp \/ Restart PROVE FoundInv'
  <1>1. TypeInv /\ Main \in Thread BY DriverAssumption DEF FoundInv
  <1>2. TypeInv' BY <1>1, StartUpTyped
  <1>3. CASE Start
    <2>1. /\ Others(Main) /\ OthersTurned(Main) /\ phase'[Main] = "login"
          /\ Len(stack'[Main]) = 1 /\ stack'[Main][1] = Fresh("/login")
          /\ result'[Main] = None
      BY <1>1, <1>3, ConnectEffect DEF Start
    <2>2. steady' = Counted(Main) /\ UNCHANGED mood BY <1>3 DEF Start, Connect
    <2>3. Finds(Main)' BY <1>1, <1>2, <2>1, FindsBegin DEF Route
    <2> QED BY <1>1, <1>2, <2>1, <2>2, <2>3, OneCounts DEF Asking
  <1>4. ASSUME NEW p \in {"isAlive", "version"}, NEW route \in Route,
               route = "/isAlive" <=> p = "isAlive", Ask(Main, route, p),
               phase[Main] \in {"dbUUID", "isAlive"}, UNCHANGED steady
        PROVE  FoundInv'
    <2>1. /\ OthersTurned(Main) /\ phase'[Main] = p
          /\ Len(stack'[Main]) = 1 /\ stack'[Main][1] = Fresh(route)
          /\ result'[Main] = None
      BY <1>1, <1>4, AskEffect DEF Phase
    <2>2. Finds(Main)' BY <1>1, <1>2, <2>1, FindsBegin
    <2>3. UNCHANGED mood BY <1>4 DEF Ask
    <2> QED BY <1>1, <1>2, <1>4, <2>1, <2>2, <2>3, OneActs DEF Asking
  <1>5. CASE Identified BY <1>4, <1>5 DEF Identified, Gave, Route
  <1>6. CASE Reached BY <1>4, <1>6 DEF Reached, Gave, Route
  <1>7. CASE NotConnected \/ Validate
    <2>1. PICK p \in {"new", "dead", "serve"} : Ends(Main, p)
      BY <1>7 DEF NotConnected, TryAgain, Validate
    <2>2. Over(Main) /\ phase[Main] \notin {"idle", "serve"}
      BY <1>7 DEF NotConnected, Validate, Gave
    <2>3. /\ OthersTurned(Main) /\ steady'[Main] = {}
          /\ \A u \in Thread \ {Main} : steady'[u] = steady[u]
      BY <1>1, <2>1, <2>2, EndsEffect DEF Phase
    <2>4. UNCHANGED mood BY <2>1 DEF Ends
    <2> QED BY <1>1, <1>2, <2>2, <2>3, <2>4, OneActs
  <1>8. CASE Restart
    <2>1. /\ Turned(Main, "new") /\ phase[Main] = "dead"
          /\ UNCHANGED <<mood, steady>>
      BY <1>8 DEF Restart, connection
    <2>2. OthersTurned(Main) BY <1>1, <2>1, TurnedEffect DEF Phase
    <2>3. steady[Main] = {} BY <1>1, <2>1 DEF FoundInv, AloneInv, Alone, Asking
    <2> QED BY <1>1, <1>2, <2>1, <2>2, <2>3, OneActs
  <1> QED BY <1>3, <1>5, <1>6, <1>7, <1>8 DEF StartUp

LEMMA LoginFound == ASSUME FoundInv, NEW t \in Thread, Login(t) PROVE FoundInv'
  <1>1. TypeInv /\ TypeInv' BY LoginTyped DEF FoundInv
  <1>2. /\ phase[t] = "login" /\ Ask(t, "other", "dbUUID") /\ UNCHANGED <<mood, steady>>
    BY DEF Login, Gave, Ask
  <1>3. /\ OthersTurned(t) /\ phase'[t] = "dbUUID"
        /\ Len(stack'[t]) = 1 /\ stack'[t][1] = Fresh("other") /\ result'[t] = None
    BY <1>1, <1>2, AskEffect DEF Phase, Route
  <1>4. Finds(t)' BY <1>1, <1>3, FindsBegin DEF Route
  <1> QED BY <1>1, <1>2, <1>3, <1>4, OneActs DEF Asking

LEMMA HandlerFound ==
    ASSUME FoundInv, NEW t \in Handler, Call(t) \/ Handle(t)
    PROVE  FoundInv'
  <1>1. TypeInv /\ TypeInv' /\ t \in Thread BY HandlerTyped DEF FoundInv, Handler
  <1>2. CASE Call(t)
    <2>1. phase[t] = "idle" /\ Turned(t, "pool") /\ UNCHANGED <<mood, stack, result>>
      BY <1>2 DEF Call, connection
    <2>2. phase'[t] = "pool" /\ OthersTurned(t) BY <1>1, <2>1, TurnedEffect DEF Phase
    <2>3. stack'[t] = <<>> /\ result'[t] = None
      BY <1>1, <2>1 DEF TypeInv, PhaseInv, Asking
    <2>4. Finds(t)' BY <2>3 DEF Finds, At
    <2>5. steady' = Counted(t) BY <1>2 DEF Call
    <2> QED BY <1>1, <2>1, <2>2, <2>4, <2>5, OneCounts
  <1>3. ASSUME NEW route \in Route, Len(stack'[t]) = 1, stack'[t][1] = Fresh(route),
               result'[t] = None, OthersTurned(t), phase'[t] \in Asking,
               phase[t] \notin {"idle", "serve"}, UNCHANGED <<mood, steady>>
        PROVE  FoundInv'
    <2>1. Finds(t)' BY <1>1, <1>3, FindsBegin
    <2> QED BY <1>1, <1>3, <2>1, OneActs
  <1>4. CASE Pool(t) /\ pooled
    <2>1. /\ phase[t] = "pool" /\ Ask(t, "other", "call") /\ UNCHANGED <<mood, steady>>
      BY <1>4 DEF Pool, Ask
    <2>2. /\ OthersTurned(t) /\ phase'[t] = "call"
          /\ Len(stack'[t]) = 1 /\ stack'[t][1] = Fresh("other") /\ result'[t] = None
      BY <1>1, <2>1, AskEffect DEF Phase, Route
    <2> QED BY <1>3, <2>1, <2>2 DEF Route, Asking
  <1>5. CASE Pool(t) /\ ~pooled
    <2>1. phase[t] = "pool" /\ Connect(t) /\ UNCHANGED <<mood, steady>>
      BY <1>5 DEF Pool, Connect
    <2>2. /\ OthersTurned(t) /\ phase'[t] = "login"
          /\ Len(stack'[t]) = 1 /\ stack'[t][1] = Fresh("/login") /\ result'[t] = None
      BY <1>1, <2>1, ConnectEffect
    <2> QED BY <1>3, <2>1, <2>2 DEF Route, Asking
  <1>6. CASE Pooled(t)
    <2>1. /\ phase[t] = "dbUUID" /\ Ask(t, "other", "call") /\ UNCHANGED <<mood, steady>>
      BY <1>6 DEF Pooled, Gave, Ask
    <2>2. /\ OthersTurned(t) /\ phase'[t] = "call"
          /\ Len(stack'[t]) = 1 /\ stack'[t][1] = Fresh("other") /\ result'[t] = None
      BY <1>1, <2>1, AskEffect DEF Phase, Route
    <2> QED BY <1>3, <2>1, <2>2 DEF Route, Asking
  <1>7. CASE NoApi(t) \/ Answer(t)
    <2>1. /\ Ends(t, "idle") /\ Over(t) /\ phase[t] \notin {"idle", "serve"}
      BY <1>7 DEF NoApi, Answer, Gave
    <2>2. /\ OthersTurned(t) /\ steady'[t] = {}
          /\ \A u \in Thread \ {t} : steady'[u] = steady[u]
      BY <1>1, <2>1, EndsEffect DEF Phase
    <2>3. UNCHANGED mood BY <2>1 DEF Ends
    <2> QED BY <1>1, <2>1, <2>2, <2>3, OneActs
  <1> QED BY <1>2, <1>4, <1>5, <1>6, <1>7 DEF Handle

LEMMA ConnectingFound ==
    ASSUME FoundInv, NEW t \in Thread, Connecting(t)
    PROVE  FoundInv'
  <1>1. TypeInv /\ TypeInv' BY ConnectingTyped DEF FoundInv
  <1>2. Step(t) /\ UNCHANGED <<phase, steady>> BY DEF Connecting, driver
  <1>3. stack[t] # <<>> /\ UNCHANGED mood
    BY <1>2 DEF Step, Choose, Send, LoggedIn, Again, Alive, At, Back
  <1>4. phase[t] \in Asking BY <1>1, <1>3 DEF TypeInv, PhaseInv
  <1>5. steady[t] # {} /\ phase[t] # "isAlive" => Finds(t)'
    BY <1>1, <1>2, FindsStep DEF Counts, FoundInv, AloneInv, FindsInv
  <1> QED BY <1>1, <1>2, <1>3, <1>4, <1>5, OneActs DEF Asking, OthersTurned

LEMMA ManagementFound == ASSUME FoundInv, Management PROVE FoundInv'
  <1>1. TypeInv /\ TypeInv' BY ManagementTyped DEF FoundInv
  <1>2. UNCHANGED <<index, current, stack, result, phase>>
    BY DEF Management, Expire, Turn
  <1>3. CASE ~\A s \in Server : mood'[s] = mood[s] \/ mood'[s] = "down"
    <2>1. \A t \in Thread : steady'[t] = {} BY <1>3 DEF Management
    <2> QED BY <1>1, <2>1 DEF FoundInv, AloneInv, FindsInv
  <1>4. CASE \A s \in Server : mood'[s] = mood[s] \/ mood'[s] = "down"
    <2>1. \A t \in Thread : steady'[t] = {s \in steady[t] : mood'[s] = "up"}
      BY <1>4 DEF Management
    <2> SUFFICES ASSUME NEW t \in Thread, steady'[t] # {}
                 PROVE  Alone(t)' /\ (phase[t] # "isAlive" => Finds(t)')
      BY <1>1, <1>2 DEF FoundInv, AloneInv, FindsInv
    <2>2. Alone(t) BY <2>1 DEF FoundInv, AloneInv
    <2>3. Alone(t)' BY <1>2, <1>4, <2>1, <2>2 DEF Alone
    <2>4. ASSUME phase[t] # "isAlive" PROVE Finds(t)'
      <3> DEFINE q == stack[t]
      <3>1. Finds(t) BY <2>1, <2>4 DEF FoundInv, FindsInv
      <3>2. \A i \in 1..Len(q) : q[i].from \in Server
        <4>1. q \in Seq(Request) BY <1>1 DEF TypeInv, TypeOK, ConnectionTypeOK
        <4>2. \A i \in 1..Len(q) : q[i] \in Request BY <4>1, ElementOfSeq
        <4> QED BY <4>2 DEF Request
      <3>3. \A i \in 1..Len(q) :
               q[i].pc = "alive" => Searches(q[i], index', mood', steady'[t])
        BY <1>2, <1>4, <2>1, <3>1, <3>2 DEF Finds, Searches
      <3>4. index \notin steady[t] => index' \notin steady'[t] BY <1>2, <2>1
      <3> QED BY <1>2, <3>1, <3>3, <3>4 DEF Finds, At, Top
    <2> QED BY <2>3, <2>4
  <1> QED BY <1>3, <1>4

LEMMA FoundStep == ASSUME FoundInv, [Next]_vars PROVE FoundInv'
  <1>1. CASE UNCHANGED vars
    <2>1. UNCHANGED <<mood, index, current, stack, result, phase, steady>>
      BY <1>1 DEF vars, connection, driver
    <2>2. TypeInv' BY <1>1, TypeStep DEF FoundInv
    <2>3. AloneInv' BY <2>1 DEF FoundInv, AloneInv, Alone
    <2>4. FindsInv' BY <2>1 DEF FoundInv, FindsInv, Finds, At, Top
    <2> QED BY <2>2, <2>3, <2>4 DEF FoundInv
  <1> QED
    BY <1>1, StartUpFound, LoginFound, HandlerFound, ConnectingFound, ManagementFound
    DEF Next

\* With one server of the cluster up all the time, a call that has the connection
\* to itself gets its data, for every number of servers, retries and rotations
\* (ConnectionManager.py:192).
THEOREM Found == Spec => []Failover
  <1>1. FoundInv => Failover
    <2> SUFFICES ASSUME FoundInv, NEW t \in Thread, Over(t), steady[t] # {},
                        phase[t] # "isAlive"
                 PROVE  result[t] = "data"
      BY DEF Failover
    <2> QED BY DEF FoundInv, FindsInv, Finds, Over
  <1> QED BY <1>1, FoundInit, FoundStep, PTL DEF Spec

=============================================================================
