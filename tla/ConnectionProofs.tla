--------------------------- MODULE ConnectionProofs ---------------------------
(***************************************************************************)
(* The inductive invariant behind Connection's safety properties, and its  *)
(* proof, for any number of connections, with and without a timeout.       *)
(***************************************************************************)
EXTENDS Connection, TLAPS

\* What holds of connection c in state r.  A read is outstanding exactly while
\* its handler will run; a timer that waits, and a handler or a task that is
\* still to come, keep the connection alive.
Coherent(c, r) ==
    /\ r.phase \in {"head", "body"} <=> r.rd # "none"
    /\ r.phase \in {"head", "body", "queued", "exec", "write"} => r.alive
    /\ r.timer # "off" => r.bound
    /\ r.timer = "armed" => r.phase \in {"head", "body"}
    /\ r.bound => r.alive /\ c \in Timed
    /\ r.phase = "unborn" => ~r.bound
    /\ c \in Timed /\ r.phase \in {"head", "body"} => r.bound
    /\ c \in Timed /\ r.phase \in {"head", "body"} /\ r.sock = "open" => r.timer # "off"
    /\ c \notin Timed /\ r.phase \in {"queued", "exec", "write"} => r.sock = "open"

IInv == /\ conn \in [Conn -> ConnState]
        /\ peer \in [Conn -> {"up", "gone"}]
        /\ \A c \in Conn : Coherent(c, conn[c])

\* A step that leaves the other connections alone has only its own to answer for.
LEMMA OneConnection ==
    ASSUME IInv, NEW c \in Conn, NEW r \in ConnState, Coherent(c, r),
           conn' = [conn EXCEPT ![c] = r], peer' = peer
    PROVE  IInv'
BY DEF IInv

\* A connection that is done with keeps its timer only if it keeps itself.
LEMMA FinishCoherent ==
    ASSUME NEW c \in Conn, NEW r \in ConnState,
           r.timer # "armed", r.timer # "off" => r.bound, r.bound => r.alive /\ c \in Timed
    PROVE  Finish(r) \in ConnState /\ Coherent(c, Finish(r))
BY DEF Finish, Release, Unheld, Disconnect, StopTimer, Coherent, ConnState, Phase

\* What the timer's handler does to what the connection is doing: nothing.
LEMMA DisconnectKeepsPhase ==
    ASSUME NEW r \in ConnState, NEW t \in {"off", "armed", "fired"}
    PROVE  Disconnect([r EXCEPT !.timer = t]).phase = r.phase
BY DEF ConnState, Disconnect

\* Every way out of a handler or a task ends what the connection is doing.
LEMMA FinishIsDone ==
    ASSUME NEW r \in ConnState
    PROVE  /\ Finish(r).phase = "done"
           /\ Finish(Disconnect(r)).phase = "done"
           /\ Finish(Disconnect(StopTimer(r))).phase = "done"
BY DEF ConnState, Finish, Release, Disconnect, StopTimer

\* Each step changes one connection, or a client's end only.
LEMMA Inductive == IInv /\ [Next]_vars => IInv'
<1> SUFFICES ASSUME IInv, [Next]_vars PROVE IInv'
  OBVIOUS
<1>1. ASSUME NEW c \in Conn, Start(c) PROVE IInv'
  <2> DEFINE r == StartTimer(c, [conn[c] EXCEPT !.phase = "head", !.sock = "open", !.rd = "pending", !.alive = TRUE])
  <2>1. conn[c] \in ConnState /\ Coherent(c, conn[c])
    BY DEF IInv
  <2>2. r \in ConnState /\ Coherent(c, r)
    BY <1>1, <2>1 DEF Start, ConnState, Phase, Coherent, StartTimer, Unborn
  <2>3. conn' = [conn EXCEPT ![c] = r] /\ peer' = peer
    BY <1>1 DEF Start
  <2> HIDE DEF r
  <2> QED
    BY <2>2, <2>3, OneConnection
<1>2. ASSUME NEW c \in Conn, Arrive(c) PROVE IInv'
  <2> DEFINE r == [conn[c] EXCEPT !.rd = "ok"]
  <2>1. conn[c] \in ConnState /\ Coherent(c, conn[c])
    BY DEF IInv
  <2>2. r \in ConnState /\ Coherent(c, r)
    BY <1>2, <2>1 DEF Arrive, ConnState, Phase, Coherent
  <2>3. conn' = [conn EXCEPT ![c] = r] /\ peer' = peer
    BY <1>2 DEF Arrive
  <2> HIDE DEF r
  <2> QED
    BY <2>2, <2>3, OneConnection
<1>3. ASSUME NEW c \in Conn, ReadFails(c) PROVE IInv'
  <2> DEFINE r == [conn[c] EXCEPT !.rd = "err"]
  <2>1. conn[c] \in ConnState /\ Coherent(c, conn[c])
    BY DEF IInv
  <2>2. r \in ConnState /\ Coherent(c, r)
    BY <1>3, <2>1 DEF ReadFails, ConnState, Phase, Coherent
  <2>3. conn' = [conn EXCEPT ![c] = r] /\ peer' = peer
    BY <1>3 DEF ReadFails
  <2> HIDE DEF r
  <2> QED
    BY <2>2, <2>3, OneConnection
<1>4. ASSUME NEW c \in Conn, PeerGone(c) PROVE IInv'
  BY <1>4 DEF PeerGone, IInv
<1>5. ASSUME NEW c \in Conn, HeadRead(c) PROVE IInv'
  <2> DEFINE r == [conn[c] EXCEPT !.phase = "body", !.rd = "pending"]
  <2>1. conn[c] \in ConnState /\ Coherent(c, conn[c])
    BY DEF IInv
  <2>2. r \in ConnState /\ Coherent(c, r)
    BY <1>5, <2>1 DEF HeadRead, ConnState, Phase, Coherent
  <2>3. conn' = [conn EXCEPT ![c] = r] /\ peer' = peer
    BY <1>5 DEF HeadRead
  <2> HIDE DEF r
  <2> QED
    BY <2>2, <2>3, OneConnection
<1>6. ASSUME NEW c \in Conn, HeadRejected(c) PROVE IInv'
  <2> DEFINE q == Disconnect(StopTimer(conn[c]))
  <2> DEFINE r == Finish(q)
  <2>1. conn[c] \in ConnState /\ Coherent(c, conn[c])
    BY DEF IInv
  <2>2. /\ q \in ConnState /\ q.timer # "armed"
        /\ q.timer # "off" => q.bound
        /\ q.bound => q.alive /\ c \in Timed
    BY <2>1 DEF Disconnect, StopTimer, Coherent, ConnState, Phase
  <2>3. conn' = [conn EXCEPT ![c] = r] /\ peer' = peer
    BY <1>6 DEF HeadRejected
  <2> HIDE DEF q
  <2>4. r \in ConnState /\ Coherent(c, r)
    BY <2>2, FinishCoherent
  <2> HIDE DEF r
  <2> QED
    BY <2>3, <2>4, OneConnection
<1>7. ASSUME NEW c \in Conn, Route(c) PROVE IInv'
  <2> DEFINE r == StopTimer([conn[c] EXCEPT !.phase = "queued", !.rd = "none"])
  <2>1. conn[c] \in ConnState /\ Coherent(c, conn[c])
    BY DEF IInv
  <2>2. r \in ConnState /\ Coherent(c, r)
    BY <1>7, <2>1 DEF Route, ConnState, Phase, Coherent, StopTimer
  <2>3. conn' = [conn EXCEPT ![c] = r] /\ peer' = peer
    BY <1>7 DEF Route
  <2> HIDE DEF r
  <2> QED
    BY <2>2, <2>3, OneConnection
<1>8. ASSUME NEW c \in Conn, BodyRejected(c) PROVE IInv'
  <2> DEFINE q == Disconnect(StopTimer(conn[c]))
  <2> DEFINE r == Finish(q)
  <2>1. conn[c] \in ConnState /\ Coherent(c, conn[c])
    BY DEF IInv
  <2>2. /\ q \in ConnState /\ q.timer # "armed"
        /\ q.timer # "off" => q.bound
        /\ q.bound => q.alive /\ c \in Timed
    BY <2>1 DEF Disconnect, StopTimer, Coherent, ConnState, Phase
  <2>3. conn' = [conn EXCEPT ![c] = r] /\ peer' = peer
    BY <1>8 DEF BodyRejected
  <2> HIDE DEF q
  <2>4. r \in ConnState /\ Coherent(c, r)
    BY <2>2, FinishCoherent
  <2> HIDE DEF r
  <2> QED
    BY <2>3, <2>4, OneConnection
<1>9. ASSUME NEW c \in Conn, TimerExpires(c) PROVE IInv'
  <2> DEFINE r == [conn[c] EXCEPT !.timer = "fired"]
  <2>1. conn[c] \in ConnState /\ Coherent(c, conn[c])
    BY DEF IInv
  <2>2. r \in ConnState /\ Coherent(c, r)
    BY <1>9, <2>1 DEF TimerExpires, ConnState, Phase, Coherent
  <2>3. conn' = [conn EXCEPT ![c] = r] /\ peer' = peer
    BY <1>9 DEF TimerExpires
  <2> HIDE DEF r
  <2> QED
    BY <2>2, <2>3, OneConnection
<1>10. ASSUME NEW c \in Conn, TimerHandler(c) PROVE IInv'
  <2> DEFINE r == Disconnect([conn[c] EXCEPT !.timer = "off"])
  <2>1. conn[c] \in ConnState /\ Coherent(c, conn[c])
    BY DEF IInv
  <2>2. r \in ConnState /\ Coherent(c, r)
    BY <1>10, <2>1 DEF TimerHandler, ConnState, Phase, Coherent, Disconnect
  <2>3. conn' = [conn EXCEPT ![c] = r] /\ peer' = peer
    BY <1>10 DEF TimerHandler
  <2> HIDE DEF r
  <2> QED
    BY <2>2, <2>3, OneConnection
<1>11. ASSUME NEW c \in Conn, Execute(c) PROVE IInv'
  <2> DEFINE r == [conn[c] EXCEPT !.phase = "exec"]
  <2>1. conn[c] \in ConnState /\ Coherent(c, conn[c])
    BY DEF IInv
  <2>2. r \in ConnState /\ Coherent(c, r)
    BY <1>11, <2>1 DEF Execute, ConnState, Phase, Coherent
  <2>3. conn' = [conn EXCEPT ![c] = r] /\ peer' = peer
    BY <1>11 DEF Execute
  <2> HIDE DEF r
  <2> QED
    BY <2>2, <2>3, OneConnection
<1>12. ASSUME NEW c \in Conn, WriteFirst(c) PROVE IInv'
  <2> DEFINE r == [conn[c] EXCEPT !.phase = "write"]
  <2>1. conn[c] \in ConnState /\ Coherent(c, conn[c])
    BY DEF IInv
  <2>2. r \in ConnState /\ Coherent(c, r)
    BY <1>12, <2>1 DEF WriteFirst, ConnState, Phase, Coherent
  <2>3. conn' = [conn EXCEPT ![c] = r] /\ peer' = peer
    BY <1>12 DEF WriteFirst
  <2> HIDE DEF r
  <2> QED
    BY <2>2, <2>3, OneConnection
<1>13. ASSUME NEW c \in Conn, WriteRest(c) PROVE IInv'
  <2> DEFINE r == Finish(conn[c])
  <2>1. conn[c] \in ConnState /\ Coherent(c, conn[c])
    BY DEF IInv
  <2>2. r \in ConnState /\ Coherent(c, r)
    BY <1>13, <2>1 DEF WriteRest, ConnState, Phase, Coherent, Finish, Release, Unheld, Disconnect, StopTimer
  <2>3. conn' = [conn EXCEPT ![c] = r] /\ peer' = peer
    BY <1>13 DEF WriteRest
  <2> HIDE DEF r
  <2> QED
    BY <2>2, <2>3, OneConnection
<1>14. ASSUME NEW c \in Conn, Throw(c) PROVE IInv'
  <2> DEFINE q == Disconnect(conn[c])
  <2> DEFINE r == Finish(q)
  <2>1. conn[c] \in ConnState /\ Coherent(c, conn[c])
    BY DEF IInv
  <2>2. /\ q \in ConnState /\ q.timer # "armed"
        /\ q.timer # "off" => q.bound
        /\ q.bound => q.alive /\ c \in Timed
    BY <1>14, <2>1 DEF Throw, Disconnect, Coherent, ConnState, Phase
  <2>3. conn' = [conn EXCEPT ![c] = r] /\ peer' = peer
    BY <1>14 DEF Throw
  <2> HIDE DEF q
  <2>4. r \in ConnState /\ Coherent(c, r)
    BY <2>2, FinishCoherent
  <2> HIDE DEF r
  <2> QED
    BY <2>3, <2>4, OneConnection
<1>15. CASE UNCHANGED vars
  BY <1>15 DEF vars, IInv
<1> QED
  BY <1>1, <1>2, <1>3, <1>4, <1>5, <1>6, <1>7, <1>8, <1>9, <1>10, <1>11, <1>12, <1>13, <1>14, <1>15 DEF Next

-----------------------------------------------------------------------------
\* No connection is there at first.
LEMMA InitIInv == Init => IInv
BY DEF Init, IInv, Unborn, ConnState, Phase, Coherent

\* The strengthening is an invariant of the connections.
LEMMA Invariance == Spec => []IInv
BY InitIInv, Inductive, PTL DEF Spec

\* Every connection of connection.hpp keeps its type, and one without a timeout
\* never has a timer or a reference to itself.
THEOREM TypeCorrect == Spec => []TypeOK
<1>1. IInv => TypeOK
  BY DEF IInv, TypeOK, Coherent, ConnState
<1> QED
  BY <1>1, Invariance, PTL

\* From read_head to the end of read_protocol_and_body an open connection with
\* a timeout has a running or an expired timer, whatever the io thread, the
\* workers and the client do.
THEOREM ReadsAreTimed == Spec => []ReadGuarded
<1>1. IInv => ReadGuarded
  BY TimedAssumption DEF IInv, ReadGuarded, Reading, Coherent
<1> QED
  BY <1>1, Invariance, PTL

\* atimer's handler never meets a destroyed connection, although it holds a raw
\* `this`: the function bound to the timer keeps the connection.
THEOREM TimerOutlivedByConnection == Spec => []NoDanglingTimer
<1>1. IInv => NoDanglingTimer
  BY DEF IInv, NoDanglingTimer, Coherent
<1> QED
  BY <1>1, Invariance, PTL

\* From the routing of a request on its connection's timer does not run: every way
\* out of the two reads stops it, and nothing starts it again.
THEOREM TimerEndsWithRead == Spec => []TimerStopsWithRead
<1>1. IInv => TimerStopsWithRead
  BY DEF IInv, TimerStopsWithRead, Reading, Coherent
<1> QED
  BY <1>1, Invariance, PTL

\* Without a timeout nothing closes a socket between routing and the end of the
\* response.
RoutedStaysOpen ==
    \A c \in Conn \ Timed : Routed(c) => conn[c].sock = "open"

\* Nothing closes the socket of connection.hpp under a worker if timeout_milli_ is 0.
THEOREM RoutedSocketOpen == Spec => []RoutedStaysOpen
<1>1. IInv => RoutedStaysOpen
  BY DEF IInv, RoutedStaysOpen, Routed, Coherent
<1> QED
  BY <1>1, Invariance, PTL

-----------------------------------------------------------------------------
\* A connection changes by its own steps only.
LEMMA OwnStep ==
    ASSUME IInv, [Next]_vars, NEW c \in Conn, conn'[c] # conn[c]
    PROVE  \/ Start(c) \/ Arrive(c) \/ ReadFails(c) \/ HeadRead(c) \/ HeadRejected(c)
           \/ Route(c) \/ BodyRejected(c) \/ TimerExpires(c) \/ TimerHandler(c)
           \/ Execute(c) \/ WriteFirst(c) \/ WriteRest(c) \/ Throw(c)
<1>1. ASSUME NEW d \in Conn, d # c PROVE ~(\E r : conn' = [conn EXCEPT ![d] = r])
  BY <1>1 DEF IInv
<1>2. ASSUME NEW d \in Conn, \/ Start(d) \/ Arrive(d) \/ ReadFails(d) \/ HeadRead(d)
                             \/ HeadRejected(d) \/ Route(d) \/ BodyRejected(d)
                             \/ TimerExpires(d) \/ TimerHandler(d) \/ Execute(d)
                             \/ WriteFirst(d) \/ WriteRest(d) \/ Throw(d)
      PROVE  d = c
  <2>1. \E r : conn' = [conn EXCEPT ![d] = r]
    BY <1>2 DEF Start, Arrive, ReadFails, HeadRead, HeadRejected, Route, BodyRejected,
                TimerExpires, TimerHandler, Execute, WriteFirst, WriteRest, Throw
  <2> QED
    BY <1>1, <2>1
<1>3. ASSUME NEW d \in Conn, PeerGone(d) PROVE FALSE
  BY <1>3 DEF PeerGone
<1>4. ~UNCHANGED vars
  BY DEF vars
<1> QED
  BY <1>2, <1>3, <1>4 DEF Next

-----------------------------------------------------------------------------
\* How long a connection lives.  One without a timeout is destroyed, its socket
\* closed, when its call is over, at whatever point that is; one with a timeout
\* is never destroyed, because nothing unbinds what start_timer bound.
Lifetime ==
    \A c \in Conn :
        /\ conn[c].phase = "done" => (conn[c].alive <=> c \in Timed)
        /\ ~conn[c].alive => conn[c].sock = "closed" /\ conn[c].timer = "off"
        /\ c \in Timed /\ conn[c].phase # "unborn" => conn[c].alive

\* Lifetime of one connection, with what keeps it.
Mortal(c, r) ==
    /\ r.phase = "unborn" => ~r.alive
    /\ c \in Timed /\ r.phase # "unborn" => r.bound
    /\ r.phase = "done" /\ ~r.bound => ~r.alive
    /\ ~r.alive => r.sock = "closed" /\ r.timer = "off"

\* What Lifetime needs to be inductive.
MInv == IInv /\ \A c \in Conn : Mortal(c, conn[c])

\* What ends a connection's work destroys it unless its timer's function holds it.
LEMMA FinishMortal ==
    ASSUME NEW c \in Conn, NEW r \in ConnState, r.alive, r.bound <=> c \in Timed,
           r.timer # "off" => r.bound
    PROVE  Mortal(c, Finish(r))
BY DEF Finish, Release, Unheld, Disconnect, StopTimer, Mortal, ConnState, Phase

\* The induction step of Mortal.
LEMMA MortalStep ==
    ASSUME IInv, [Next]_vars, NEW c \in Conn, Mortal(c, conn[c])
    PROVE  Mortal(c, conn'[c])
<1>t. conn[c] \in ConnState /\ Coherent(c, conn[c]) /\ conn \in [Conn -> ConnState]
  BY DEF IInv
<1> USE <1>t DEF ConnState, Phase, Mortal
<1>1. CASE conn'[c] = conn[c]
  BY <1>1
<1>2. CASE Start(c)
  BY <1>2 DEF Start, StartTimer, Unborn
<1>3. CASE Arrive(c) \/ ReadFails(c) \/ HeadRead(c)
  BY <1>3 DEF Arrive, ReadFails, HeadRead, Coherent
<1>4. CASE HeadRejected(c) \/ BodyRejected(c)
  <2> DEFINE q == Disconnect(StopTimer(conn[c]))
  <2>1. q \in ConnState /\ q.alive /\ (q.bound <=> c \in Timed) /\ (q.timer # "off" => q.bound)
    BY <1>4 DEF HeadRejected, BodyRejected, Coherent, Disconnect, StopTimer
  <2>2. conn'[c] = Finish(q)
    BY <1>4 DEF HeadRejected, BodyRejected
  <2> HIDE DEF q
  <2> QED
    BY <2>1, <2>2, FinishMortal
<1>5. CASE Route(c)
  BY <1>5 DEF Route, StopTimer, Coherent
<1>6. CASE TimerExpires(c)
  BY <1>6 DEF TimerExpires, Coherent
<1>7. CASE TimerHandler(c)
  BY <1>7 DEF TimerHandler, Disconnect, Coherent
<1>8. CASE Execute(c) \/ WriteFirst(c)
  BY <1>8 DEF Execute, WriteFirst, Coherent
<1>9. CASE WriteRest(c)
  <2>1. /\ conn[c].alive /\ (conn[c].bound <=> c \in Timed)
        /\ conn[c].timer # "off" => conn[c].bound
    BY <1>9 DEF WriteRest, Coherent
  <2>2. conn'[c] = Finish(conn[c])
    BY <1>9 DEF WriteRest
  <2> QED
    BY <2>1, <2>2, FinishMortal
<1>10. CASE Throw(c)
  <2> DEFINE q == Disconnect(conn[c])
  <2>1. q \in ConnState /\ q.alive /\ (q.bound <=> c \in Timed) /\ (q.timer # "off" => q.bound)
    BY <1>10 DEF Throw, Coherent, Disconnect
  <2>2. conn'[c] = Finish(q)
    BY <1>10 DEF Throw
  <2> HIDE DEF q
  <2> QED
    BY <2>1, <2>2, FinishMortal
<1> QED
  BY <1>1, <1>2, <1>3, <1>4, <1>5, <1>6, <1>7, <1>8, <1>9, <1>10, OwnStep

\* Mortal is an invariant together with the strengthening.
LEMMA MortalInvariance == Spec => []MInv
<1>1. Init => MInv
  <2> SUFFICES ASSUME Init, NEW c \in Conn PROVE Mortal(c, conn[c])
    BY InitIInv DEF MInv
  <2>1. conn[c] = Unborn
    BY DEF Init
  <2> QED
    BY <2>1 DEF Unborn, Mortal
<1>2. MInv /\ [Next]_vars => MInv'
  BY MortalStep, Inductive DEF MInv
<1> QED
  BY <1>1, <1>2, PTL DEF Spec

\* connection.hpp's shared_ptrs free a connection without a timeout exactly when
\* its work ends, and never one with a timeout.
THEOREM DestroyedUnlessTimed == Spec => []Lifetime
<1>1. MInv => Lifetime
  BY DEF MInv, IInv, Lifetime, Mortal, Coherent
<1> QED
  BY <1>1, MortalInvariance, PTL

-----------------------------------------------------------------------------
\* The call is over, its socket is open and no timer will close it.
Leaked(c) == /\ conn[c].phase = "done"
             /\ conn[c].sock = "open"
             /\ conn[c].timer = "off"

\* The descriptor a connection with a timeout leaves behind is lost for good, and
\* only those leave one: a client that hangs up changes nothing.
LeakIsForever == [][\A c \in Conn : Leaked(c) => Leaked(c)' /\ c \in Timed]_vars

\* Nothing is left in the program that could close the socket of a connection
\* whose call is over and whose timer was stopped: the safety behind the
\* counterexample to PeerGoneClosed.
THEOREM NothingClosesLeaked == Spec => LeakIsForever
<1>1. ASSUME MInv, [Next]_vars, NEW c \in Conn, Leaked(c)
      PROVE  Leaked(c)' /\ c \in Timed
  <2>t. conn[c] \in ConnState /\ Coherent(c, conn[c]) /\ Mortal(c, conn[c])
    BY <1>1 DEF MInv, IInv
  <2>1. c \in Timed
    BY <1>1, <2>t DEF Leaked, Coherent, Mortal
  <2>2. conn[c].rd = "none"
    BY <1>1, <2>t DEF Leaked, Coherent, ConnState
  <2>3. /\ ~Start(c) /\ ~Arrive(c) /\ ~ReadFails(c) /\ ~HeadRead(c) /\ ~HeadRejected(c)
        /\ ~Route(c) /\ ~BodyRejected(c) /\ ~TimerExpires(c) /\ ~TimerHandler(c)
        /\ ~Execute(c) /\ ~WriteFirst(c) /\ ~WriteRest(c) /\ ~Throw(c)
    BY <1>1, <2>2 DEF Leaked, Start, Arrive, ReadFails, HeadRead, HeadRejected, Route,
                      BodyRejected, TimerExpires, TimerHandler, Execute, WriteFirst,
                      WriteRest, Throw
  <2>4. conn'[c] = conn[c]
    BY <1>1, <2>3, OwnStep DEF MInv
  <2> QED
    BY <1>1, <2>1, <2>4 DEF Leaked
<1>2. MInv /\ [Next]_vars
        => \A c \in Conn : Leaked(c) => Leaked(c)' /\ c \in Timed
  BY <1>1
<1> QED
  BY <1>2, MortalInvariance, PTL DEF Spec, LeakIsForever

-----------------------------------------------------------------------------
\* A request is routed by Route alone, and with its socket open.
LEMMA BecomesRouted ==
    ASSUME IInv, [Next]_vars, NEW c \in Conn, Routed(c)', ~Routed(c)
    PROVE  conn'[c].sock = "open"
<1>t. conn[c] \in ConnState /\ conn \in [Conn -> ConnState]
  BY DEF IInv
<1> USE <1>t DEF ConnState, Phase, Routed
<1>1. conn'[c] # conn[c]
  OBVIOUS
<1>2. ~HeadRead(c)
  BY DEF HeadRead
<1>7. ~Start(c)
  <2>1. ASSUME Start(c) PROVE conn'[c].phase = "head"
    <3>1. conn'[c] = StartTimer(c, [conn[c] EXCEPT !.phase = "head", !.sock = "open",
                                                   !.rd = "pending", !.alive = TRUE])
      BY <2>1 DEF Start
    <3> QED
      BY <3>1 DEF StartTimer
  <2> QED
    BY <2>1
<1>3. ~Arrive(c) /\ ~ReadFails(c) /\ ~TimerExpires(c) /\ ~Execute(c) /\ ~WriteFirst(c)
  BY DEF Arrive, ReadFails, TimerExpires, Execute, WriteFirst
<1>4. ~HeadRejected(c) /\ ~BodyRejected(c) /\ ~WriteRest(c) /\ ~Throw(c)
  BY FinishIsDone DEF HeadRejected, BodyRejected, WriteRest, Throw
<1>5. ~TimerHandler(c)
  BY DisconnectKeepsPhase DEF TimerHandler
<1>6. Route(c)
  BY <1>1, <1>2, <1>3, <1>4, <1>5, <1>7, OwnStep
<1> QED
  BY <1>6 DEF Route, StopTimer

\* The steps of a request that stays routed.
LEMMA StaysRouted ==
    ASSUME IInv, [Next]_vars, NEW c \in Conn, Routed(c), Routed(c)', conn'[c] # conn[c]
    PROVE  Execute(c) \/ WriteFirst(c) \/ TimerHandler(c)
<1>t. conn[c] \in ConnState /\ Coherent(c, conn[c]) /\ conn \in [Conn -> ConnState]
  BY DEF IInv
<1> USE <1>t DEF ConnState, Phase, Routed
<1>1. ~Start(c) /\ ~HeadRead(c) /\ ~Route(c)
  BY DEF Start, HeadRead, Route
<1>2. ~Arrive(c) /\ ~ReadFails(c) /\ ~TimerExpires(c)
  BY DEF Arrive, ReadFails, TimerExpires, Coherent
<1>3. ~HeadRejected(c) /\ ~BodyRejected(c)
  BY DEF HeadRejected, BodyRejected
<1>4. ~WriteRest(c) /\ ~Throw(c)
  BY FinishIsDone DEF WriteRest, Throw
<1> QED
  BY <1>1, <1>2, <1>3, <1>4, OwnStep

\* stop_timer cannot call back a handler that is queued, and that is the only way a
\* timeout reaches a request that was routed.
THEOREM RoutedClosedByLateTimer == Spec => OnlyLateTimerCloses
<1> DEFINE Step(c) ==
        Routed(c)' =>
            /\ conn'[c].sock = "closed" =>
                   Routed(c) /\ (conn[c].sock = "closed" \/ conn[c].timer = "fired")
            /\ Routed(c) /\ conn'[c].timer = "fired" => conn[c].timer = "fired"
<1>1. ASSUME IInv, [Next]_vars, NEW c \in Conn, Routed(c)' PROVE Step(c)
  <2>t. conn[c] \in ConnState /\ conn \in [Conn -> ConnState]
    BY <1>1 DEF IInv
  <2>1. CASE ~Routed(c)
    BY <1>1, <2>1, BecomesRouted
  <2>2. CASE Routed(c) /\ conn'[c] = conn[c]
    BY <2>t, <2>2 DEF ConnState
  <2>3. CASE Routed(c) /\ conn'[c] # conn[c]
    <3>1. Execute(c) \/ WriteFirst(c) \/ TimerHandler(c)
      BY <1>1, <2>3, StaysRouted
    <3> QED
      BY <2>t, <2>3, <3>1 DEF ConnState, Execute, WriteFirst, TimerHandler, Disconnect
  <2> QED
    BY <2>1, <2>2, <2>3
<1>2. IInv /\ [Next]_vars => \A c \in Conn : Step(c)
  BY <1>1
<1> QED
  BY <1>2, Invariance, PTL DEF Spec, OnlyLateTimerCloses

=============================================================================
