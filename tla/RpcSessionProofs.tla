--------------------------- MODULE RpcSessionProofs ---------------------------
(***************************************************************************)
(* The inductive invariant behind RpcSession's safety properties, and its  *)
(* proof, for any number of concurrent calls.                              *)
(***************************************************************************)
EXTENDS RpcSession, FiniteSetTheorems, TLAPS

\* The part of the types that the argument needs.
Types == /\ cpc \in [Call -> CallPC]
         /\ result \in [Call -> Call \cup {NoCall, Threw}]
         /\ mutex \in Call \cup {NoCall}
         /\ sock \in Call \cup {NoCall}
         /\ srv \in [Call -> {"none", "open", "refused", "head", "sent", "closed"}]
         /\ req \in [Call -> Call \cup {NoCall}]
         /\ armed \in Call \cup {NoCall}

\* The mutex is with the one call that is past lock and before its end.
Exclusive == \A c \in Call : mutex = c <=> cpc[c] \notin {"idle", "lock", "ended"}

\* Once it has connected, the call that holds the mutex finds its own connection
\* in the socket, or none; its request is the one that went out on it.
OwnConnection ==
    \A c \in Call :
        /\ cpc[c] \notin {"idle", "lock", "connect", "ended"} => sock \in {c, NoCall}
        /\ cpc[c] \in {"start", "head", "body"} => req[c] = c

OutcomeKnown ==
    \A c \in Call : cpc[c] \in {"stop", "close", "ended"} => result[c] \in {c, Threw}

IInv == /\ Types
        /\ Exclusive
        /\ OwnConnection
        /\ OutcomeKnown
        /\ ClosedBetweenCalls
        /\ TimerBelongsToReader

-----------------------------------------------------------------------------
\* No call has begun at first.
LEMMA InitIInv == Init => IInv
BY CallAssumption DEF Init, IInv, Types, Exclusive, OwnConnection, OutcomeKnown,
   ClosedBetweenCalls, TimerBelongsToReader, CallPC

\* Each step of a call, its far end or the timer thread keeps the invariant.
LEMMA Inductive == IInv /\ [Next]_vars => IInv'
<1> SUFFICES ASSUME IInv, [Next]_vars PROVE IInv'
  OBVIOUS
<1> USE CallAssumption DEF IInv, Types, Exclusive, OwnConnection, OutcomeKnown,
        ClosedBetweenCalls, TimerBelongsToReader, CallPC, Goto, Throws,
        client, server, config, timer
<1>1. ASSUME NEW c \in Call, BeginCall(c) PROVE IInv'
  BY <1>1 DEF BeginCall
<1>2. ASSUME NEW c \in Call, Lock(c) PROVE IInv'
  BY <1>2 DEF Lock
<1>3. ASSUME NEW c \in Call, Connect(c) PROVE IInv'
  BY <1>3 DEF Connect
<1>4. ASSUME NEW c \in Call, ConnectFails(c) PROVE IInv'
  BY <1>4 DEF ConnectFails
<1>5. ASSUME NEW c \in Call, Write(c) PROVE IInv'
  BY <1>5 DEF Write
<1>6. ASSUME NEW c \in Call, WriteFails(c) PROVE IInv'
  BY <1>6 DEF WriteFails
<1>7. ASSUME NEW c \in Call, StartTimer(c) PROVE IInv'
  BY <1>7 DEF StartTimer
<1>8. ASSUME NEW c \in Call, ReadHead(c) PROVE IInv'
  BY <1>8 DEF ReadHead, Responded
<1>9. ASSUME NEW c \in Call, ReadBody(c) PROVE IInv'
  BY <1>9 DEF ReadBody
<1>10. ASSUME NEW c \in Call, ReadFails(c) PROVE IInv'
  BY <1>10 DEF ReadFails, Responded, Usable
<1>11. ASSUME NEW c \in Call, StopTimer(c) PROVE IInv'
  BY <1>11 DEF StopTimer
<1>12. ASSUME NEW c \in Call, Disconnect(c) PROVE IInv'
  BY <1>12 DEF Disconnect
<1>13. ASSUME NEW k \in Call, RespondHead(k) PROVE IInv'
  BY <1>13 DEF RespondHead, Serve
<1>14. ASSUME NEW k \in Call, RespondBody(k) PROVE IInv'
  BY <1>14 DEF RespondBody, Serve
<1>15. ASSUME NEW k \in Call, ServerCloses(k) PROVE IInv'
  BY <1>15 DEF ServerCloses, Serve
<1>16. ASSUME Expire PROVE IInv'
  BY <1>16 DEF Expire
<1>17. ASSUME RunHandler PROVE IInv'
  BY <1>17 DEF RunHandler
<1>18. ASSUME TestOpen PROVE IInv'
  BY <1>18 DEF TestOpen
<1>19. ASSUME TimerClose PROVE IInv'
  BY <1>19 DEF TimerClose
<1>20. ASSUME HandlerReturns PROVE IInv'
  BY <1>20 DEF HandlerReturns
<1>21. ASSUME Stop PROVE IInv'
  BY <1>21 DEF Stop
<1>22. CASE UNCHANGED vars
  BY <1>22 DEF vars
<1> QED
  BY <1>1, <1>2, <1>3, <1>4, <1>5, <1>6, <1>7, <1>8, <1>9, <1>10, <1>11, <1>12, <1>13, <1>14, <1>15, <1>16, <1>17, <1>18, <1>19, <1>20, <1>21, <1>22 DEF Next

\* The strengthening is an invariant of the client.
LEMMA Invariance == Spec => []IInv
BY InitIInv, Inductive, PTL DEF Spec

-----------------------------------------------------------------------------
\* However many threads share a client, and whatever its timer thread does to
\* the socket meanwhile, a call that returns has its own response.
THEOREM ResponsesNotMixed == Spec => []OwnResponse
<1>1. IInv => OwnResponse
  BY DEF IInv, OutcomeKnown, OwnResponse
<1> QED
  BY <1>1, Invariance, PTL

\* Every way out of a call but a failed connect closes the socket before the
\* mutex is free again.
THEOREM SocketClosedBetweenCalls == Spec => []ClosedBetweenCalls
BY Invariance, PTL DEF IInv

\* Every way out of read stops the timer: what runs on into the next call can
\* only be a handler that was queued before.
THEOREM NoTimerLeftRunning == Spec => []TimerBelongsToReader
BY Invariance, PTL DEF IInv

-----------------------------------------------------------------------------
\* The calls that have come past the binding of their function.
Bound == {c \in Call : cpc[c] \in {"head", "body", "stop", "close", "ended"}}

\* At most one function per call is bound, and the handler that is under way has
\* no more of them to call, and one at least while it is in one.
TimerCounts ==
    /\ timed \in BOOLEAN
    /\ timer_thread \in {"none", "running", "stopped"}
    /\ tpc \in {"idle", "fired", "loop", "close"}
    /\ due \in Call \cup {NoCall}
    /\ bound \in Nat /\ bound <= Cardinality(Bound)
    /\ left \in Nat /\ left <= Cardinality(Bound)
    /\ tpc = "close" => left > 0

\* A call that comes past the binding counts from then on.
LEMMA BoundGrows ==
    ASSUME Types, [Next]_vars
    PROVE  Bound \subseteq Bound'
<1> USE DEF Types, CallPC, Bound, Goto, Throws, client, server, config, timer
<1>1. ASSUME NEW c \in Call, BeginCall(c) \/ Lock(c) \/ Connect(c) \/ ConnectFails(c)
      PROVE  Bound \subseteq Bound'
  BY <1>1 DEF BeginCall, Lock, Connect, ConnectFails
<1>2. ASSUME NEW c \in Call, Write(c) \/ WriteFails(c) \/ StartTimer(c) \/ ReadHead(c)
      PROVE  Bound \subseteq Bound'
  BY <1>2 DEF Write, WriteFails, StartTimer, ReadHead
<1>3. ASSUME NEW c \in Call, ReadBody(c) \/ ReadFails(c) \/ StopTimer(c) \/ Disconnect(c)
      PROVE  Bound \subseteq Bound'
  BY <1>3 DEF ReadBody, ReadFails, StopTimer, Disconnect
<1>4. ASSUME NEW k \in Call, RespondHead(k) \/ RespondBody(k) \/ ServerCloses(k)
      PROVE  Bound \subseteq Bound'
  BY <1>4 DEF RespondHead, RespondBody, ServerCloses, Serve
<1>5. CASE Expire \/ RunHandler \/ TestOpen \/ TimerClose \/ HandlerReturns \/ Stop
  BY <1>5 DEF Expire, RunHandler, TestOpen, TimerClose, HandlerReturns, Stop
<1>6. CASE UNCHANGED vars
  BY <1>6 DEF vars
<1> QED
  BY <1>1, <1>2, <1>3, <1>4, <1>5, <1>6 DEF Next

\* Only start_timer binds, once per call; the handler's loop counts down from that.
LEMMA TimerCountsStep == IInv /\ TimerCounts /\ [Next]_vars => TimerCounts'
<1> SUFFICES ASSUME IInv, TimerCounts, [Next]_vars PROVE TimerCounts'
  OBVIOUS
<1>t. Types
  BY DEF IInv
<1>b. /\ Cardinality(Bound) \in Nat /\ Cardinality(Bound') \in Nat
      /\ Cardinality(Bound) <= Cardinality(Bound')
  <2>1. Bound \subseteq Call /\ Bound' \subseteq Call
    BY DEF Bound
  <2>2. IsFiniteSet(Bound) /\ IsFiniteSet(Bound')
    BY <2>1, CallAssumption, FS_Subset
  <2> QED
    BY <1>t, <2>2, BoundGrows, FS_Subset, FS_CardinalityType
<1> USE DEF TimerCounts, client, server, config, timer
<1>1. ASSUME NEW c \in Call, BeginCall(c) \/ Lock(c) \/ Connect(c) \/ ConnectFails(c)
      PROVE  TimerCounts'
  BY <1>b, <1>1 DEF BeginCall, Lock, Connect, ConnectFails
<1>2. ASSUME NEW c \in Call, Write(c) \/ WriteFails(c) \/ ReadHead(c) PROVE TimerCounts'
  BY <1>b, <1>2 DEF Write, WriteFails, ReadHead
<1>3. ASSUME NEW c \in Call, StartTimer(c) PROVE TimerCounts'
  <2>1. c \notin Bound /\ Bound' = Bound \cup {c}
    BY <1>t, <1>3 DEF StartTimer, Goto, Bound, Types, CallPC
  <2>2. Cardinality(Bound') = Cardinality(Bound) + 1
    <3>1. Bound \subseteq Call
      BY DEF Bound
    <3>2. IsFiniteSet(Bound)
      BY <3>1, CallAssumption, FS_Subset
    <3> QED
      BY <2>1, <3>2, FS_AddElement
  <2> QED
    BY <1>b, <1>3, <2>2 DEF StartTimer
<1>4. ASSUME NEW c \in Call, ReadBody(c) \/ ReadFails(c) \/ StopTimer(c) \/ Disconnect(c)
      PROVE  TimerCounts'
  BY <1>b, <1>4 DEF ReadBody, ReadFails, StopTimer, Disconnect
<1>5. ASSUME NEW k \in Call, RespondHead(k) \/ RespondBody(k) \/ ServerCloses(k)
      PROVE  TimerCounts'
  BY <1>b, <1>5 DEF RespondHead, RespondBody, ServerCloses, Serve
<1>6. CASE Expire \/ RunHandler
  BY <1>b, <1>t, <1>6 DEF Expire, RunHandler, Types
<1>7. CASE TestOpen \/ TimerClose
  BY <1>b, <1>7 DEF TestOpen, TimerClose
<1>8. CASE HandlerReturns \/ Stop
  BY <1>b, <1>8 DEF HandlerReturns, Stop
<1>9. CASE UNCHANGED vars
  BY <1>b, <1>9 DEF vars
<1> QED
  BY <1>1, <1>2, <1>3, <1>4, <1>5, <1>6, <1>7, <1>8, <1>9 DEF Next

\* Nothing is bound at first.
LEMMA InitTimerCounts == Init => TimerCounts
<1> SUFFICES ASSUME Init PROVE TimerCounts
  OBVIOUS
<1>1. Bound \subseteq Call
  BY DEF Bound
<1>2. Cardinality(Bound) \in Nat
  BY <1>1, CallAssumption, FS_Subset, FS_CardinalityType
<1> QED
  BY <1>2 DEF Init, TimerCounts

\* Every variable of the client keeps its type, for any number of calls: the timer
\* of rpc_session.hpp never has more functions bound than calls were made, and its
\* handler never counts below zero.
THEOREM TypeCorrect == Spec => []TypeOK
<1>1. IInv /\ TimerCounts => TypeOK
  <2>1. Bound \subseteq Call
    BY DEF Bound
  <2>2. Cardinality(Bound) \in Nat /\ Cardinality(Call) \in Nat /\ Cardinality(Bound) <= Cardinality(Call)
    BY <2>1, CallAssumption, FS_Subset, FS_CardinalityType
  <2> QED
    BY <2>2 DEF IInv, Types, TimerCounts, TypeOK
<1> QED
  BY <1>1, InitTimerCounts, TimerCountsStep, Invariance, PTL DEF Spec

-----------------------------------------------------------------------------
\* A response is returned only if the server sent all of it on the connection of
\* the very call, and after it had that call's request.
OnlyWholeResponses ==
    \A c \in Call : result[c] = c => srv[c] = "sent" /\ req[c] = c

\* A call has no outcome before it left read or failed.
NotYet ==
    \A c \in Call : cpc[c] \in {"idle", "lock", "connect", "write", "start", "head", "body"}
                        => result[c] = NoCall

\* The induction step of OnlyWholeResponses and NotYet.
LEMMA WholeStep == IInv /\ NotYet /\ OnlyWholeResponses /\ [Next]_vars
                        => (NotYet /\ OnlyWholeResponses)'
<1> SUFFICES ASSUME IInv, NotYet, OnlyWholeResponses, [Next]_vars
             PROVE  (NotYet /\ OnlyWholeResponses)'
  OBVIOUS
<1> USE CallAssumption DEF IInv, Types, Exclusive, OwnConnection, CallPC, Goto, Throws,
        client, server, config, timer, NotYet, OnlyWholeResponses
<1>1. ASSUME NEW c \in Call, BeginCall(c) PROVE (NotYet /\ OnlyWholeResponses)'
  BY <1>1 DEF BeginCall
<1>2. ASSUME NEW c \in Call, Lock(c) PROVE (NotYet /\ OnlyWholeResponses)'
  BY <1>2 DEF Lock
<1>3. ASSUME NEW c \in Call, Connect(c) PROVE (NotYet /\ OnlyWholeResponses)'
  BY <1>3 DEF Connect
<1>4. ASSUME NEW c \in Call, ConnectFails(c) PROVE (NotYet /\ OnlyWholeResponses)'
  BY <1>4 DEF ConnectFails
<1>5. ASSUME NEW c \in Call, Write(c) PROVE (NotYet /\ OnlyWholeResponses)'
  BY <1>5 DEF Write
<1>6. ASSUME NEW c \in Call, WriteFails(c) PROVE (NotYet /\ OnlyWholeResponses)'
  BY <1>6 DEF WriteFails
<1>7. ASSUME NEW c \in Call, StartTimer(c) PROVE (NotYet /\ OnlyWholeResponses)'
  BY <1>7 DEF StartTimer
<1>8. ASSUME NEW c \in Call, ReadHead(c) PROVE (NotYet /\ OnlyWholeResponses)'
  BY <1>8 DEF ReadHead
<1>9. ASSUME NEW c \in Call, ReadBody(c) PROVE (NotYet /\ OnlyWholeResponses)'
  BY <1>9 DEF ReadBody
<1>10. ASSUME NEW c \in Call, ReadFails(c) PROVE (NotYet /\ OnlyWholeResponses)'
  BY <1>10 DEF ReadFails
<1>11. ASSUME NEW c \in Call, StopTimer(c) PROVE (NotYet /\ OnlyWholeResponses)'
  BY <1>11 DEF StopTimer
<1>12. ASSUME NEW c \in Call, Disconnect(c) PROVE (NotYet /\ OnlyWholeResponses)'
  BY <1>12 DEF Disconnect
<1>13. ASSUME NEW k \in Call, RespondHead(k) \/ RespondBody(k) \/ ServerCloses(k) PROVE (NotYet /\ OnlyWholeResponses)'
  BY <1>13 DEF RespondHead, RespondBody, ServerCloses, Serve
<1>14. ASSUME Expire PROVE (NotYet /\ OnlyWholeResponses)'
  BY <1>14 DEF Expire
<1>15. ASSUME RunHandler PROVE (NotYet /\ OnlyWholeResponses)'
  BY <1>15 DEF RunHandler
<1>16. ASSUME TestOpen PROVE (NotYet /\ OnlyWholeResponses)'
  BY <1>16 DEF TestOpen
<1>17. ASSUME TimerClose PROVE (NotYet /\ OnlyWholeResponses)'
  BY <1>17 DEF TimerClose
<1>18. ASSUME HandlerReturns PROVE (NotYet /\ OnlyWholeResponses)'
  BY <1>18 DEF HandlerReturns
<1>19. ASSUME Stop PROVE (NotYet /\ OnlyWholeResponses)'
  BY <1>19 DEF Stop
<1>20. ASSUME UNCHANGED vars PROVE (NotYet /\ OnlyWholeResponses)'
  BY <1>20 DEF vars
<1> QED
  BY <1>1, <1>2, <1>3, <1>4, <1>5, <1>6, <1>7, <1>8, <1>9, <1>10, <1>11, <1>12, <1>13, <1>14, <1>15, <1>16, <1>17, <1>18, <1>19, <1>20 DEF Next

\* client::call returns no response that was cut off when the timer, the server or
\* the network closed the socket in the middle of it.
THEOREM NoPartialResponse == Spec => []OnlyWholeResponses
<1>1. Init => NotYet /\ OnlyWholeResponses
  BY CallAssumption DEF Init, NotYet, OnlyWholeResponses
<1> QED
  BY <1>1, WholeStep, Invariance, PTL DEF Spec

-----------------------------------------------------------------------------
\* The timer is set for call c, or its handler is on the way to close c's socket.
WatchedBy(c) == \/ armed = c
                \/ due = c /\ (tpc \in {"fired", "close"} \/ (tpc = "loop" /\ left > 0))

\* No read waits for a silent server without an end: with a timeout and the timer
\* thread running, a call that reads from an open socket is watched, however many
\* late handlers of earlier calls are or were under way.
TimedReadIsGuarded ==
    \A c \in Call : timed /\ timer_thread = "running"
                        /\ cpc[c] \in {"head", "body"} /\ sock = c
                        => WatchedBy(c)

\* The one way a timeout hits another call.  A handler about to close a socket that
\* is not its own call's comes after that call's end, and hits the call that holds
\* the mutex by now, or a socket that never connected.
StrayAfterEnd ==
    tpc = "close" /\ sock \notin {NoCall, due}
        => cpc[due] = "ended" /\ (sock = mutex \/ srv[sock] = "refused")

\* A read under a timeout has bound its function; a handler that is under way was
\* armed by a call that had come to read; the call that connects finds no connection.
TimerTells ==
    /\ timed => \A c \in Call : cpc[c] \in {"head", "body", "stop"} => bound > 0
    /\ tpc # "idle" => due \in Call /\ cpc[due] \in {"head", "body", "stop", "close", "ended"}
    /\ \A c \in Call : cpc[c] = "connect" /\ sock # NoCall => srv[sock] = "refused"

TInv == IInv /\ TimerCounts /\ TimerTells /\ TimedReadIsGuarded

\* The induction step of TimerTells.
LEMMA TimerTellsStep == TInv /\ [Next]_vars => TimerTells'
<1> SUFFICES ASSUME TInv, [Next]_vars PROVE TimerTells'
  OBVIOUS
<1> USE CallAssumption DEF TInv, IInv, Types, Exclusive, OwnConnection, ClosedBetweenCalls,
        TimerBelongsToReader, CallPC, Goto, Throws, client, server, config, timer,
        TimerCounts, TimerTells
<1>1. ASSUME NEW c \in Call, BeginCall(c) PROVE TimerTells'
  BY <1>1 DEF BeginCall
<1>2. ASSUME NEW c \in Call, Lock(c) PROVE TimerTells'
  BY <1>2 DEF Lock
<1>3. ASSUME NEW c \in Call, Connect(c) PROVE TimerTells'
  BY <1>3 DEF Connect
<1>4. ASSUME NEW c \in Call, ConnectFails(c) PROVE TimerTells'
  BY <1>4 DEF ConnectFails
<1>5. ASSUME NEW c \in Call, Write(c) PROVE TimerTells'
  BY <1>5 DEF Write
<1>6. ASSUME NEW c \in Call, WriteFails(c) PROVE TimerTells'
  BY <1>6 DEF WriteFails
<1>7. ASSUME NEW c \in Call, StartTimer(c) PROVE TimerTells'
  BY <1>7 DEF StartTimer
<1>8. ASSUME NEW c \in Call, ReadHead(c) PROVE TimerTells'
  BY <1>8 DEF ReadHead
<1>9. ASSUME NEW c \in Call, ReadBody(c) PROVE TimerTells'
  BY <1>9 DEF ReadBody
<1>10. ASSUME NEW c \in Call, ReadFails(c) PROVE TimerTells'
  BY <1>10 DEF ReadFails
<1>11. ASSUME NEW c \in Call, StopTimer(c) PROVE TimerTells'
  BY <1>11 DEF StopTimer
<1>12. ASSUME NEW c \in Call, Disconnect(c) PROVE TimerTells'
  BY <1>12 DEF Disconnect
<1>13. ASSUME NEW k \in Call, RespondHead(k) \/ RespondBody(k) \/ ServerCloses(k) PROVE TimerTells'
  BY <1>13 DEF RespondHead, RespondBody, ServerCloses, Serve
<1>14. ASSUME Expire PROVE TimerTells'
  BY <1>14 DEF Expire
<1>15. ASSUME RunHandler PROVE TimerTells'
  BY <1>15 DEF RunHandler
<1>16. ASSUME TestOpen PROVE TimerTells'
  BY <1>16 DEF TestOpen
<1>17. ASSUME TimerClose PROVE TimerTells'
  BY <1>17 DEF TimerClose
<1>18. ASSUME HandlerReturns PROVE TimerTells'
  BY <1>18 DEF HandlerReturns
<1>19. ASSUME Stop PROVE TimerTells'
  BY <1>19 DEF Stop
<1>20. ASSUME UNCHANGED vars PROVE TimerTells'
  BY <1>20 DEF vars
<1> QED
  BY <1>1, <1>2, <1>3, <1>4, <1>5, <1>6, <1>7, <1>8, <1>9, <1>10, <1>11, <1>12, <1>13, <1>14, <1>15, <1>16, <1>17, <1>18, <1>19, <1>20 DEF Next

\* The induction step of TimedReadIsGuarded: no handler counts down past an open
\* socket, and only the reader's own steps put the timer off.
LEMMA GuardedStep == TInv /\ [Next]_vars => TimedReadIsGuarded'
<1> SUFFICES ASSUME TInv, [Next]_vars PROVE TimedReadIsGuarded'
  OBVIOUS
<1> USE CallAssumption DEF TInv, IInv, Types, Exclusive, OwnConnection,
        TimerBelongsToReader, CallPC, Goto, Throws, client, server, config, timer,
        TimerCounts, TimerTells, TimedReadIsGuarded, WatchedBy
<1>1. ASSUME NEW c \in Call, BeginCall(c) PROVE TimedReadIsGuarded'
  BY <1>1 DEF BeginCall
<1>2. ASSUME NEW c \in Call, Lock(c) PROVE TimedReadIsGuarded'
  BY <1>2 DEF Lock
<1>3. ASSUME NEW c \in Call, Connect(c) PROVE TimedReadIsGuarded'
  BY <1>3 DEF Connect
<1>4. ASSUME NEW c \in Call, ConnectFails(c) PROVE TimedReadIsGuarded'
  BY <1>4 DEF ConnectFails
<1>5. ASSUME NEW c \in Call, Write(c) PROVE TimedReadIsGuarded'
  BY <1>5 DEF Write
<1>6. ASSUME NEW c \in Call, WriteFails(c) PROVE TimedReadIsGuarded'
  BY <1>6 DEF WriteFails
<1>7. ASSUME NEW c \in Call, StartTimer(c) PROVE TimedReadIsGuarded'
  BY <1>7 DEF StartTimer
<1>8. ASSUME NEW c \in Call, ReadHead(c) PROVE TimedReadIsGuarded'
  BY <1>8 DEF ReadHead
<1>9. ASSUME NEW c \in Call, ReadBody(c) PROVE TimedReadIsGuarded'
  BY <1>9 DEF ReadBody
<1>10. ASSUME NEW c \in Call, ReadFails(c) PROVE TimedReadIsGuarded'
  BY <1>10 DEF ReadFails
<1>11. ASSUME NEW c \in Call, StopTimer(c) PROVE TimedReadIsGuarded'
  BY <1>11 DEF StopTimer
<1>12. ASSUME NEW c \in Call, Disconnect(c) PROVE TimedReadIsGuarded'
  BY <1>12 DEF Disconnect
<1>13. ASSUME NEW k \in Call, RespondHead(k) \/ RespondBody(k) \/ ServerCloses(k) PROVE TimedReadIsGuarded'
  BY <1>13 DEF RespondHead, RespondBody, ServerCloses, Serve
<1>14. ASSUME Expire PROVE TimedReadIsGuarded'
  BY <1>14 DEF Expire
<1>15. ASSUME RunHandler PROVE TimedReadIsGuarded'
  BY <1>15 DEF RunHandler
<1>16. ASSUME TestOpen PROVE TimedReadIsGuarded'
  BY <1>16 DEF TestOpen
<1>17. ASSUME TimerClose PROVE TimedReadIsGuarded'
  BY <1>17 DEF TimerClose
<1>18. ASSUME HandlerReturns PROVE TimedReadIsGuarded'
  BY <1>18 DEF HandlerReturns
<1>19. ASSUME Stop PROVE TimedReadIsGuarded'
  BY <1>19 DEF Stop
<1>20. ASSUME UNCHANGED vars PROVE TimedReadIsGuarded'
  BY <1>20 DEF vars
<1> QED
  BY <1>1, <1>2, <1>3, <1>4, <1>5, <1>6, <1>7, <1>8, <1>9, <1>10, <1>11, <1>12, <1>13, <1>14, <1>15, <1>16, <1>17, <1>18, <1>19, <1>20 DEF Next

\* The timer's invariant.
LEMMA TimerInvariance == Spec => []TInv
<1>1. Init => TimerTells /\ TimedReadIsGuarded
  BY DEF Init, TimerTells, TimedReadIsGuarded
<1>2. TInv /\ [Next]_vars => TInv'
  BY Inductive, TimerCountsStep, TimerTellsStep, GuardedStep DEF TInv
<1> QED
  BY <1>1, <1>2, InitIInv, InitTimerCounts, PTL DEF Spec, TInv

\* rpc_session's timer covers every read from its start to its end: the safety that
\* TimedCallEnds needs, for any number of calls.
THEOREM ReadsAreGuarded == Spec => []TimedReadIsGuarded
BY TimerInvariance, PTL DEF TInv

\* What remains of TimeoutHitsOwnCall, which the code does not keep: the handler of a
\* timeout can outlive its call, and until then hits no other.
THEOREM StrayHandlerIsLate == Spec => []StrayAfterEnd
<1>1. TInv => StrayAfterEnd
  <2> SUFFICES ASSUME TInv, tpc = "close", sock \notin {NoCall, due}
               PROVE  cpc[due] = "ended" /\ (sock = mutex \/ srv[sock] = "refused")
    BY DEF StrayAfterEnd
  <2> USE CallAssumption DEF TInv, IInv, Types, CallPC, TimerTells
  <2>1. cpc[due] = "ended"
    BY DEF OwnConnection
  <2>2. CASE mutex = NoCall
    BY <2>1, <2>2 DEF ClosedBetweenCalls
  <2>3. CASE mutex # NoCall
    BY <2>1, <2>3 DEF Exclusive, OwnConnection
  <2> QED
    BY <2>1, <2>2, <2>3
<1> QED
  BY <1>1, TimerInvariance, PTL

=============================================================================
