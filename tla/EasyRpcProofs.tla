---------------------------- MODULE EasyRpcProofs ----------------------------
(***************************************************************************)
(* The composition for any number of calls, with and without timeouts at   *)
(* either end: each end keeps its own specification, the two agree about   *)
(* the connection between them, and together they keep RemoteCall's        *)
(* promise.                                                                *)
(***************************************************************************)
EXTENDS EasyRpc, RpcSessionProofs, SequenceLemmas

\* What the two ends know of call k's connection.
Agree(k) ==
    \* Before the call has connected there is nothing at either end.
    /\ cpc[k] \in {"idle", "lock", "connect"} =>
           conn[k].phase = "unborn" /\ srv[k] = "none" /\ req[k] = NoCall
    /\ conn[k].phase # "unborn" => srv[k] \in {"open", "head", "sent", "closed"}
    \* It carries the request of its own call, which the server has once a read is done.
    /\ req[k] \in {NoCall, k}
    /\ conn[k].rd = "ok" \/ conn[k].phase \in {"body", "queued", "exec", "write"} => req[k] = k
    \* The request was executed if the connection has come that far.
    /\ conn[k].phase \in {"unborn", "head", "body", "queued"} => k \notin Range(begun)
    /\ conn[k].phase \in {"exec", "write"} => k \in Range(begun)
    /\ k \in Range(begun) => req[k] = k
    \* The client sees of the response what was written, and of the socket what it is.
    /\ srv[k] \in {"head", "sent"} => k \in Range(begun) /\ conn[k].phase # "exec"
    /\ sock = k /\ conn[k].phase = "write" => srv[k] # "open"
    /\ sock = k /\ srv[k] \in {"open", "head"} => conn[k].sock = "open"
    \* Only what was executed returns.
    /\ cpc[k] \in {"stop", "close", "ended"} /\ result[k] # Threw =>
           k \in Range(begun) /\ conn[k].phase # "exec"

SysInv == /\ IInv
          /\ conn \in [Call -> Server!ConnState]
          /\ begun \in Seq(Call)
          /\ \A k \in Call : Agree(k)

-----------------------------------------------------------------------------
(* The server's steps, as far as the client can tell them apart. *)

\* Connection k goes from a phase in `from` to one in `to`; it gets no request
\* and its socket is not opened.
Moves(k, from, to) ==
    \E r \in Server!ConnState :
        /\ conn' = [conn EXCEPT ![k] = r]
        /\ conn[k].phase \in from /\ r.phase \in to
        /\ r.rd = "ok" => conn[k].rd = "ok"
        /\ r.sock = "open" => conn[k].sock = "open"

\* Every way out of a handler or a task ends what the connection is doing.
LEMMA FinishIsDone ==
    ASSUME NEW r \in Server!ConnState
    PROVE  /\ Server!Finish(r) \in Server!ConnState
           /\ Server!Finish(r).phase = "done" /\ Server!Finish(r).rd = "none"
           /\ Server!Finish(r).sock = "open" => r.sock = "open"
BY DEF Server!ConnState, Server!Phase, Server!Finish, Server!Release, Server!Disconnect,
       Server!StopTimer, Server!Unheld

\* disconnect and stop_timer leave alone what the connection is doing.
LEMMA CloseMoves ==
    ASSUME NEW r \in Server!ConnState
    PROVE  /\ Server!StopTimer(r) \in Server!ConnState
           /\ Server!Disconnect(r) \in Server!ConnState
           /\ Server!Disconnect(r).phase = r.phase /\ Server!Disconnect(r).sock = "closed"
           /\ Server!Disconnect(r).rd = "ok" => r.rd = "ok"
BY DEF Server!ConnState, Server!Phase, Server!Disconnect, Server!StopTimer

\* A failing read, the end of the head, routing, the expiry of a
\* timer: the socket stays as it is.
LEMMA ReadMoves ==
    ASSUME SysInv, NEW k \in Call, SysRead(k)
    PROVE  /\ \/ \E p \in Server!Phase : Moves(k, {p}, {p})
              \/ Moves(k, {"head"}, {"body"}) /\ conn[k].rd = "ok"
              \/ Moves(k, {"body"}, {"queued"})
           /\ conn'[k].sock = conn[k].sock
<1>1. conn[k] \in Server!ConnState
  BY DEF SysInv
<1> USE <1>1 DEF SysInv, Moves, Server!ConnState, Server!Phase
<1>2. CASE Server!ReadFails(k)
  <2> DEFINE r == [conn[k] EXCEPT !.rd = "err"]
  <2>1. conn' = [conn EXCEPT ![k] = r] /\ r \in Server!ConnState
    BY <1>2 DEF Server!ReadFails
  <2> QED
    BY <2>1
<1>3. CASE Server!TimerExpires(k)
  <2> DEFINE r == [conn[k] EXCEPT !.timer = "fired"]
  <2>1. conn' = [conn EXCEPT ![k] = r] /\ r \in Server!ConnState
    BY <1>3 DEF Server!TimerExpires
  <2> QED
    BY <2>1
<1>4. CASE Server!HeadRead(k)
  <2> DEFINE r == [conn[k] EXCEPT !.phase = "body", !.rd = "pending"]
  <2>1. conn' = [conn EXCEPT ![k] = r] /\ r \in Server!ConnState
        /\ conn[k].phase = "head" /\ conn[k].rd = "ok"
    BY <1>4 DEF Server!HeadRead
  <2> QED
    BY <2>1
<1>5. CASE Server!Route(k)
  <2> DEFINE r == Server!StopTimer([conn[k] EXCEPT !.phase = "queued", !.rd = "none"])
  <2>1. conn' = [conn EXCEPT ![k] = r] /\ conn[k].phase = "body"
    BY <1>5 DEF Server!Route
  <2>2. r \in Server!ConnState /\ r.phase = "queued" /\ r.rd = "none" /\ r.sock = conn[k].sock
    BY DEF Server!StopTimer
  <2> HIDE DEF r
  <2> QED
    BY <2>1, <2>2
<1> QED
  BY <1>2, <1>3, <1>4, <1>5 DEF SysRead

\* The io thread gives a connection up, or its timer closes it.
LEMMA RejectMoves ==
    ASSUME SysInv, NEW k \in Call, SysReject(k)
    PROVE  \/ \E p \in Server!Phase : Moves(k, {p}, {p})
           \/ Moves(k, {"head", "body"}, {"done"})
<1>1. conn[k] \in Server!ConnState
  BY DEF SysInv
<1>2. CASE Server!HeadRejected(k) \/ Server!BodyRejected(k)
  <2> DEFINE q == Server!Disconnect(Server!StopTimer(conn[k]))
  <2>1. q \in Server!ConnState /\ q.sock = "closed"
    BY <1>1, CloseMoves
  <2>2. conn' = [conn EXCEPT ![k] = Server!Finish(q)] /\ conn[k].phase \in {"head", "body"}
    BY <1>2 DEF Server!HeadRejected, Server!BodyRejected
  <2> HIDE DEF q
  <2> QED
    BY <2>1, <2>2, FinishIsDone DEF Moves
<1>3. CASE Server!TimerHandler(k)
  <2> DEFINE q == [conn[k] EXCEPT !.timer = "off"]
  <2>1. q \in Server!ConnState /\ q.phase = conn[k].phase /\ q.rd = conn[k].rd
        /\ conn[k].phase \in Server!Phase
    BY <1>1 DEF Server!ConnState
  <2>2. conn' = [conn EXCEPT ![k] = Server!Disconnect(q)]
    BY <1>3 DEF Server!TimerHandler
  <2> HIDE DEF q
  <2> QED
    BY <2>1, <2>2, CloseMoves DEF Moves
<1> QED
  BY <1>2, <1>3 DEF SysReject

\* What a worker does to a connection.
LEMMA WorkerMoves ==
    ASSUME SysInv, NEW k \in Call
    PROVE  /\ SysExecute(k) => Moves(k, {"queued"}, {"exec"}) /\ conn'[k].sock = conn[k].sock
           /\ SysWriteFirst(k) => Moves(k, {"exec"}, {"write"}) /\ conn'[k].sock = "open"
           /\ SysWriteRest(k) => Moves(k, {"write"}, {"done"})
           /\ SysThrow(k) => Moves(k, {"exec", "write"}, {"done"})
<1>1. conn[k] \in Server!ConnState /\ conn \in [Call -> Server!ConnState]
  BY DEF SysInv
<1>2. ASSUME SysExecute(k) PROVE Moves(k, {"queued"}, {"exec"}) /\ conn'[k].sock = conn[k].sock
  <2> DEFINE r == [conn[k] EXCEPT !.phase = "exec"]
  <2>1. conn' = [conn EXCEPT ![k] = r] /\ r \in Server!ConnState /\ conn[k].phase = "queued"
    BY <1>1, <1>2 DEF SysExecute, Server!Execute, Server!ConnState, Server!Phase
  <2> QED
    BY <1>1, <2>1 DEF Moves, Server!ConnState
<1>3. ASSUME SysWriteFirst(k) PROVE Moves(k, {"exec"}, {"write"}) /\ conn'[k].sock = "open"
  <2> DEFINE r == [conn[k] EXCEPT !.phase = "write"]
  <2>1. conn' = [conn EXCEPT ![k] = r] /\ r \in Server!ConnState /\ conn[k].phase = "exec"
        /\ conn[k].sock = "open"
    BY <1>1, <1>3 DEF SysWriteFirst, Server!WriteFirst, Server!ConnState, Server!Phase
  <2> QED
    BY <1>1, <2>1 DEF Moves, Server!ConnState
<1>4. ASSUME SysWriteRest(k) PROVE Moves(k, {"write"}, {"done"})
  <2>1. conn' = [conn EXCEPT ![k] = Server!Finish(conn[k])] /\ conn[k].phase = "write"
    BY <1>4 DEF SysWriteRest, Server!WriteRest
  <2> QED
    BY <1>1, <2>1, FinishIsDone DEF Moves
<1>5. ASSUME SysThrow(k) PROVE Moves(k, {"exec", "write"}, {"done"})
  <2> DEFINE q == Server!Disconnect(conn[k])
  <2>1. conn' = [conn EXCEPT ![k] = Server!Finish(q)] /\ conn[k].phase \in {"exec", "write"}
    BY <1>5 DEF SysThrow, Server!Throw
  <2>2. q \in Server!ConnState /\ q.sock = "closed"
    BY <1>1, CloseMoves
  <2> HIDE DEF q
  <2> QED
    BY <2>1, <2>2, FinishIsDone DEF Moves
<1> QED
  BY <1>2, <1>3, <1>4, <1>5

-----------------------------------------------------------------------------
(* Each end's steps. *)

\* What the client sees of a connection's step is a step of RpcSession's far end.
LEMMA ClientStep == SysInv /\ [SysNext]_sysvars => [Next]_vars
<1> SUFFICES ASSUME SysInv, [SysNext]_sysvars PROVE [Next]_vars
  OBVIOUS
<1>1. ASSUME NEW c \in Call, SysConnect(c) \/ SysLocal(c) \/ SysDisconnect(c) PROVE Next
  BY <1>1 DEF SysConnect, SysLocal, SysDisconnect, Next
<1>2. CASE SysTimer \/ SysTimerClose
  BY <1>2 DEF SysTimer, SysTimerClose, Next
<1>3. ASSUME NEW k \in Call, SysArrive(k) \/ SysRead(k) \/ SysExecute(k)
      PROVE  UNCHANGED vars
  BY <1>3 DEF SysArrive, SysRead, SysExecute, session
<1>4. ASSUME NEW k \in Call, SysReject(k) \/ SysThrow(k) PROVE [Next]_vars
  <2>1. ServerCloses(k) \/ UNCHANGED vars
    BY <1>4 DEF SysReject, SysThrow, SeenClosed, Seen, ServerCloses, session
  <2> QED
    BY <2>1 DEF Next
<1>5. ASSUME NEW k \in Call, SysWriteFirst(k) PROVE [Next]_vars
  <2>1. conn[k].phase = "exec"
    BY <1>5 DEF SysWriteFirst, Server!WriteFirst
  <2>2. req[k] # NoCall
    BY <2>1, CallAssumption DEF SysInv, Agree
  <2>3. RespondHead(k) \/ UNCHANGED vars
    BY <1>5, <2>2 DEF SysWriteFirst, Seen, RespondHead, session
  <2> QED
    BY <2>3 DEF Next
<1>6. ASSUME NEW k \in Call, SysWriteRest(k) PROVE [Next]_vars
  <2>1. RespondBody(k) \/ UNCHANGED vars
    BY <1>6 DEF SysWriteRest, Seen, RespondBody, session
  <2> QED
    BY <2>1 DEF Next
<1>7. CASE UNCHANGED sysvars
  BY <1>7 DEF sysvars, session
<1> QED
  BY <1>1, <1>2, <1>3, <1>4, <1>5, <1>6, <1>7 DEF SysNext

\* What the server sees of the client is a step of Connection's clients.
LEMMA ServerStep == [SysNext]_sysvars => [Server!Next]_(Server!vars)
<1> SUFFICES ASSUME [SysNext]_sysvars PROVE [Server!Next]_(Server!vars)
  OBVIOUS
<1> USE DEF Server!vars, server_side
<1>1. ASSUME NEW c \in Call, SysConnect(c) PROVE Server!Next
  BY <1>1 DEF SysConnect, Server!Next
<1>2. ASSUME Hangup PROVE [Server!Next]_(Server!vars)
  BY <1>2 DEF Hangup, Server!Next
<1>3. ASSUME NEW c \in Call, SysLocal(c) \/ SysDisconnect(c)
      PROVE  [Server!Next]_(Server!vars)
  BY <1>2, <1>3 DEF SysLocal, SysDisconnect
<1>4. CASE SysTimer \/ SysTimerClose
  BY <1>2, <1>4 DEF SysTimer, SysTimerClose
<1>5. ASSUME NEW k \in Call, SysArrive(k) \/ SysRead(k) \/ SysReject(k) PROVE Server!Next
  BY <1>5 DEF SysArrive, SysRead, SysReject, Server!Next
<1>6. ASSUME NEW k \in Call,
             SysExecute(k) \/ SysWriteFirst(k) \/ SysWriteRest(k) \/ SysThrow(k)
      PROVE  Server!Next
  BY <1>6 DEF SysExecute, SysWriteFirst, SysWriteRest, SysThrow, Server!Next
<1>7. CASE UNCHANGED sysvars
  BY <1>7 DEF sysvars
<1> QED
  BY <1>1, <1>3, <1>4, <1>5, <1>6, <1>7 DEF SysNext

-----------------------------------------------------------------------------
(* The ends go on agreeing. *)

\* The part of SysInv that is not RpcSession's.
Agreed == /\ conn \in [Call -> Server!ConnState]
          /\ begun \in Seq(Call)
          /\ \A k \in Call : Agree(k)

\* The client's steps but for connect: the server's connections stay as they are.
LEMMA AgreedClient ==
    ASSUME SysInv, conn' = conn, begun' = begun,
           \/ \E c \in Call : SysLocal(c) \/ Disconnect(c)
           \/ SysTimer \/ TimerClose
    PROVE  Agreed'
<1> USE CallAssumption DEF SysInv, IInv, Types, CallPC, Goto, Throws, client, server
<1> SUFFICES ASSUME NEW k \in Call PROVE Agree(k)'
  BY DEF Agreed
<1>a. Agree(k)
  OBVIOUS
<1>1. ASSUME NEW c \in Call, BeginCall(c) \/ Lock(c) \/ StartTimer(c) \/ ReadHead(c)
      PROVE  Agree(k)'
  BY <1>a, <1>1 DEF BeginCall, Lock, StartTimer, ReadHead, Agree
<1>2. ASSUME NEW c \in Call, ConnectFails(c) PROVE Agree(k)'
  BY <1>a, <1>2 DEF ConnectFails, Agree
<1>3. ASSUME NEW c \in Call, Write(c) PROVE Agree(k)'
  BY <1>a, <1>3 DEF Write, OwnConnection, Agree
<1>4. ASSUME NEW c \in Call, WriteFails(c) \/ ReadFails(c) \/ StopTimer(c) PROVE Agree(k)'
  BY <1>a, <1>4 DEF WriteFails, ReadFails, StopTimer, Agree
<1>5. ASSUME NEW c \in Call, ReadBody(c) PROVE Agree(k)'
  <2>1. sock = c /\ srv[c] = "sent" /\ Agree(c)
    BY <1>5 DEF ReadBody, OwnConnection
  <2> QED
    BY <1>a, <1>5, <2>1 DEF ReadBody, Agree
<1>6. ASSUME NEW c \in Call, Disconnect(c) PROVE Agree(k)'
  BY <1>a, <1>6 DEF Disconnect, Agree
<1>7. CASE Expire \/ RunHandler \/ TestOpen \/ TimerClose \/ HandlerReturns \/ Stop
  BY <1>a, <1>7 DEF Expire, RunHandler, TestOpen, TimerClose, HandlerReturns, Stop, Agree
<1> QED
  BY <1>1, <1>2, <1>3, <1>4, <1>5, <1>6, <1>7 DEF SysLocal, SysTimer

\* The steps of a connection, with what the client sees of them.
LEMMA AgreedServer ==
    ASSUME SysInv, NEW k \in Call,
           \/ SysArrive(k) \/ SysRead(k) \/ SysReject(k)
           \/ SysExecute(k) \/ SysWriteFirst(k) \/ SysWriteRest(k) \/ SysThrow(k)
    PROVE  Agreed'
<1> USE CallAssumption DEF SysInv
<1>a. \A j \in Call : Agree(j)
  OBVIOUS
<1>o. ASSUME NEW r \in Server!ConnState, conn' = [conn EXCEPT ![k] = r],
             UNCHANGED <<cpc, result, req, sock>>, begun' \in Seq(Call),
             \A j \in Call \ {k} : /\ j \in Range(begun') <=> j \in Range(begun)
                                   /\ srv'[j] = srv[j],
             Agree(k)'
      PROVE  Agreed'
  <2>1. ASSUME NEW j \in Call, j # k PROVE Agree(j)'
    <3>1. /\ conn'[j] = conn[j]
          /\ srv'[j] = srv[j]
          /\ j \in Range(begun') <=> j \in Range(begun)
      BY <1>o, <2>1
    <3>2. UNCHANGED <<cpc, result, req, sock>>
      BY <1>o
    <3>3. Agree(j)
      BY <1>a
    <3> HIDE DEF SysInv
    <3> QED
      BY <3>1, <3>2, <3>3 DEF Agree
  <2>2. conn' \in [Call -> Server!ConnState]
    BY <1>o
  <2> QED
    BY <1>o, <2>1, <2>2 DEF Agreed
<1>s. ASSUME NEW from, NEW to, Seen(k, from, to)
      PROVE  /\ UNCHANGED <<cpc, result, req, sock>>
             /\ \A j \in Call \ {k} : srv'[j] = srv[j]
             /\ srv'[k] = IF sock = k /\ srv[k] \in from THEN to ELSE srv[k]
  BY <1>s DEF Seen, Serve, session, vars, client, server, IInv, Types
<1>c. ASSUME SeenClosed(k)
      PROVE  /\ UNCHANGED <<cpc, result, req, sock>>
             /\ \A j \in Call \ {k} : srv'[j] = srv[j]
             /\ \/ srv'[k] = srv[k]
                \/ srv[k] \in {"open", "head"} /\ srv'[k] = "closed"
             /\ conn'[k].sock = "closed" /\ sock = k => srv'[k] \notin {"open", "head"}
  <2>1. CASE conn'[k].sock = "closed"
    BY <1>c, <1>s, <2>1 DEF SeenClosed
  <2>2. CASE conn'[k].sock # "closed"
    BY <1>c, <2>2 DEF SeenClosed, session, vars, client, server
  <2> QED
    BY <2>1, <2>2
<1>1. CASE SysArrive(k)
  <2> DEFINE r == [conn[k] EXCEPT !.rd = "ok"]
  <2>1. r \in Server!ConnState /\ conn' = [conn EXCEPT ![k] = r] /\ req[k] # NoCall
        /\ UNCHANGED <<cpc, result, req, sock, srv, begun>>
    BY <1>1 DEF SysArrive, Server!Arrive, Server!ConnState, session, vars, client, server
  <2>2. Agree(k)'
    BY <1>a, <2>1 DEF Agree, Server!ConnState
  <2> QED
    BY <1>o, <2>1, <2>2
<1>2. CASE SysRead(k)
  <2>1. UNCHANGED <<cpc, result, req, sock, srv, begun>>
    BY <1>2 DEF SysRead, session, vars, client, server
  <2>2. PICK r \in Server!ConnState :
           /\ conn' = [conn EXCEPT ![k] = r]
           /\ r.rd = "ok" => conn[k].rd = "ok"
           /\ r.sock = conn[k].sock
           /\ \/ r.phase = conn[k].phase
              \/ conn[k].phase = "head" /\ r.phase = "body" /\ conn[k].rd = "ok"
              \/ conn[k].phase = "body" /\ r.phase = "queued"
    BY <1>2, ReadMoves DEF Moves
  <2>3. Agree(k)'
    BY <1>a, <2>1, <2>2 DEF Agree
  <2> QED
    BY <1>o, <2>1, <2>2, <2>3
<1>3. CASE SysReject(k)
  <2>1. SeenClosed(k) /\ begun' = begun
    BY <1>3 DEF SysReject
  <2>2. PICK r \in Server!ConnState :
           /\ conn' = [conn EXCEPT ![k] = r]
           /\ r.rd = "ok" => conn[k].rd = "ok"
           /\ r.sock = "open" => conn[k].sock = "open"
           /\ \/ r.phase = conn[k].phase
              \/ conn[k].phase \in {"head", "body"} /\ r.phase = "done"
    BY <1>3, RejectMoves DEF Moves
  <2>3. r.sock \in {"open", "closed"}
    BY DEF Server!ConnState
  <2>4. Agree(k) /\ conn'[k] = r
    BY <1>a, <2>2
  <2>5. Agree(k)'
    <3> HIDE DEF SysInv
    <3>1. CASE r.phase = conn[k].phase
      BY <1>c, <2>1, <2>2, <2>3, <2>4, <3>1 DEF Agree
    <3>2. CASE conn[k].phase \in {"head", "body"} /\ r.phase = "done"
      BY <1>c, <2>1, <2>2, <2>3, <2>4, <3>2 DEF Agree
    <3> QED
      BY <2>2, <3>1, <3>2
  <2> QED
    BY <1>c, <1>o, <2>1, <2>2, <2>5
<1>4. CASE SysExecute(k)
  <2>1. /\ UNCHANGED <<cpc, result, req, sock, srv>>
        /\ begun' = Append(begun, req[k])
    BY <1>4 DEF SysExecute, session, vars, client, server
  <2>2. PICK r \in Server!ConnState :
           /\ conn' = [conn EXCEPT ![k] = r]
           /\ r.rd = "ok" => conn[k].rd = "ok"
           /\ r.sock = conn[k].sock
           /\ conn[k].phase = "queued" /\ r.phase = "exec"
    <3>1. Moves(k, {"queued"}, {"exec"}) /\ conn'[k].sock = conn[k].sock
      BY <1>4, WorkerMoves
    <3>2. PICK r \in Server!ConnState :
             /\ conn' = [conn EXCEPT ![k] = r]
             /\ r.rd = "ok" => conn[k].rd = "ok"
             /\ conn[k].phase = "queued" /\ r.phase = "exec"
      BY <3>1 DEF Moves
    <3>3. r.sock = conn[k].sock
      BY <3>1, <3>2
    <3> HIDE DEF SysInv
    <3> QED
      BY <3>2, <3>3
  <2>3. begun' \in Seq(Call) /\ Range(begun') = Range(begun) \cup {k}
    BY <1>a, <2>1, <2>2, RangeAppend DEF Agree
  <2>4. Agree(k)'
    BY <1>a, <2>1, <2>2, <2>3 DEF Agree
  <2> QED
    BY <1>o, <2>1, <2>2, <2>3, <2>4
<1>5. CASE SysWriteFirst(k)
  <2>1. Seen(k, {"open"}, "head") /\ begun' = begun
    BY <1>5 DEF SysWriteFirst
  <2>2. PICK r \in Server!ConnState :
           /\ conn' = [conn EXCEPT ![k] = r]
           /\ r.rd = "ok" => conn[k].rd = "ok"
           /\ r.sock = "open"
           /\ conn[k].phase = "exec" /\ r.phase = "write"
    BY <1>5, WorkerMoves DEF Moves
  <2>3. Agree(k)'
    BY <1>a, <1>s, <2>1, <2>2 DEF Agree
  <2> QED
    BY <1>o, <1>s, <2>1, <2>2, <2>3
<1>6. CASE SysWriteRest(k)
  <2>1. Seen(k, {"head"}, "sent") /\ begun' = begun
    BY <1>6 DEF SysWriteRest
  <2>2. PICK r \in Server!ConnState :
           /\ conn' = [conn EXCEPT ![k] = r]
           /\ r.rd = "ok" => conn[k].rd = "ok"
           /\ conn[k].phase = "write" /\ r.phase = "done"
    BY <1>6, WorkerMoves DEF Moves
  <2>3. Agree(k)'
    BY <1>a, <1>s, <2>1, <2>2 DEF Agree
  <2> QED
    BY <1>o, <1>s, <2>1, <2>2, <2>3
<1>7. CASE SysThrow(k)
  <2>1. SeenClosed(k) /\ begun' = begun
    BY <1>7 DEF SysThrow
  <2>2. PICK r \in Server!ConnState :
           /\ conn' = [conn EXCEPT ![k] = r]
           /\ r.rd = "ok" => conn[k].rd = "ok"
           /\ r.sock = "open" => conn[k].sock = "open"
           /\ conn[k].phase \in {"exec", "write"} /\ r.phase = "done"
    BY <1>7, WorkerMoves DEF Moves
  <2>3. r.sock \in {"open", "closed"}
    BY DEF Server!ConnState
  <2>4. Agree(k)'
    BY <1>a, <1>c, <2>1, <2>2, <2>3 DEF Agree
  <2> QED
    BY <1>c, <1>o, <2>1, <2>2, <2>4
<1> QED
  BY <1>1, <1>2, <1>3, <1>4, <1>5, <1>6, <1>7

\* The two ends begin a connection together; hanging up changes nothing that
\* they have to agree about.
LEMMA AgreedConnect == ASSUME SysInv, NEW c \in Call, SysConnect(c) PROVE Agreed'
<1> DEFINE r == Server!StartTimer(c, [conn[c] EXCEPT !.phase = "head", !.sock = "open",
                                                     !.rd = "pending", !.alive = TRUE])
<1>1. /\ cpc[c] = "connect" /\ sock' = c /\ srv' = [srv EXCEPT ![c] = "open"]
      /\ cpc' = [cpc EXCEPT ![c] = "write"]
      /\ UNCHANGED <<result, req, begun>>
  BY DEF SysConnect, Connect, Goto
<1>2. conn' = [conn EXCEPT ![c] = r]
  BY DEF SysConnect, Server!Start
<1>3. r \in Server!ConnState /\ r.phase = "head" /\ r.sock = "open" /\ r.rd = "pending"
  BY DEF SysInv, Server!StartTimer, Server!ConnState, Server!Phase
<1> HIDE DEF r
<1> SUFFICES ASSUME NEW k \in Call PROVE Agree(k)'
  BY <1>1, <1>2, <1>3 DEF Agreed, SysInv
<1> QED
  BY <1>1, <1>2, <1>3, CallAssumption DEF SysInv, Agree, IInv, Types, CallPC

\* That the client hangs up is the client's end only.
LEMMA HangupKeeps == Hangup => conn' = conn
BY DEF Hangup, Server!PeerGone, server_side

\* The induction step: RpcSession's part by the step's being one of RpcSession.
LEMMA SysInductive == SysInv /\ [SysNext]_sysvars => SysInv'
<1> SUFFICES ASSUME SysInv, [SysNext]_sysvars PROVE SysInv'
  OBVIOUS
<1>1. ASSUME NEW c \in Call, SysConnect(c) PROVE Agreed'
  BY <1>1, AgreedConnect
<1>2. ASSUME NEW c \in Call, SysLocal(c) PROVE Agreed'
  <2>1. conn' = conn /\ begun' = begun
    BY <1>2 DEF SysLocal, server_side
  <2> QED
    BY <1>2, <2>1, AgreedClient
<1>3. ASSUME NEW c \in Call, SysDisconnect(c) PROVE Agreed'
  <2>1. Disconnect(c) /\ conn' = conn /\ begun' = begun
    BY <1>3, HangupKeeps DEF SysDisconnect
  <2> QED
    BY <2>1, AgreedClient
<1>4. ASSUME SysTimer PROVE Agreed'
  <2>1. conn' = conn /\ begun' = begun
    BY <1>4 DEF SysTimer, server_side
  <2> QED
    BY <1>4, <2>1, AgreedClient
<1>5. ASSUME SysTimerClose PROVE Agreed'
  <2>1. TimerClose /\ conn' = conn /\ begun' = begun
    BY <1>5, HangupKeeps DEF SysTimerClose
  <2> QED
    BY <2>1, AgreedClient
<1>6. ASSUME NEW k \in Call,
             \/ SysArrive(k) \/ SysRead(k) \/ SysReject(k)
             \/ SysExecute(k) \/ SysWriteFirst(k) \/ SysWriteRest(k) \/ SysThrow(k)
      PROVE  Agreed'
  BY <1>6, AgreedServer
<1>7. ASSUME UNCHANGED sysvars PROVE Agreed'
  BY <1>7 DEF SysInv, Agreed, Agree, sysvars, server_side, session, vars, client, server
<1>8. Agreed'
  BY <1>1, <1>2, <1>3, <1>4, <1>5, <1>6, <1>7 DEF SysNext
<1>9. IInv'
  BY ClientStep, Inductive DEF SysInv
<1> QED
  BY <1>8, <1>9 DEF SysInv, Agreed

\* At first nothing is at either end.
LEMMA SysInvInit == SysInit => SysInv
<1> SUFFICES ASSUME SysInit PROVE SysInv
  OBVIOUS
<1>1. IInv
  BY InitIInv DEF SysInit
<1>2. conn \in [Call -> Server!ConnState] /\ \A k \in Call : conn[k] = Server!Unborn
  BY DEF SysInit, Server!Init, Server!Unborn, Server!ConnState, Server!Phase
<1>3. begun = <<>> /\ begun \in Seq(Call) /\ Range(begun) = {}
  BY DEF SysInit, Range
<1>4. \A k \in Call : Agree(k)
  BY <1>2, <1>3, CallAssumption DEF SysInit, Init, Agree, Server!Unborn
<1> QED
  BY <1>1, <1>2, <1>3, <1>4 DEF SysInv

\* The strengthening is an invariant of the composition.
LEMMA SysInvariance == SysSpec => []SysInv
BY SysInvInit, SysInductive, PTL DEF SysSpec

-----------------------------------------------------------------------------
(* The composition's steps as steps of RemoteCall. *)

\* What a call has come to, as ImplementsRemoteCall maps it.
StatusOf(pc, res) == CASE pc = "idle"                  -> "idle"
                       [] pc = "ended" /\ res = Threw   -> "threw"
                       [] pc = "ended" /\ res # Threw   -> "returned"
                       [] OTHER                         -> "called"

Status == [c \in Call |-> StatusOf(cpc[c], result[c])]
Over   == {c \in Range(begun) : conn[c].phase # "exec"}

\* StatusOf, case by case.
LEMMA StatusOfIs ==
    ASSUME NEW pc, NEW res
    PROVE  /\ pc = "idle" => StatusOf(pc, res) = "idle"
           /\ pc = "ended" /\ res = Threw => StatusOf(pc, res) = "threw"
           /\ pc = "ended" /\ res # Threw => StatusOf(pc, res) = "returned"
           /\ pc \notin {"idle", "ended"} => StatusOf(pc, res) = "called"
BY DEF StatusOf

\* RemoteCall's steps in these terms.
LEMMA PromiseSteps ==
    ASSUME NEW c \in Call
    PROVE  /\ /\ Status[c] = "idle" /\ Status' = [Status EXCEPT ![c] = "called"]
              /\ begun' = begun /\ Over' = Over
              => Promise!Next
           /\ /\ Status[c] # "idle" /\ c \notin Range(begun) /\ begun' = Append(begun, c)
              /\ Status' = Status /\ Over' = Over
              => Promise!Next
           /\ /\ c \in Range(begun) /\ Over' = Over \cup {c}
              /\ Status' = Status /\ begun' = begun
              => Promise!Next
           /\ /\ Status[c] = "called" /\ c \in Over
              /\ Status' = [Status EXCEPT ![c] = "returned"]
              /\ begun' = begun /\ Over' = Over
              => Promise!Next
           /\ /\ Status[c] = "called" /\ Status' = [Status EXCEPT ![c] = "threw"]
              /\ begun' = begun /\ Over' = Over
              => Promise!Next
           /\ Status' = Status /\ begun' = begun /\ Over' = Over => UNCHANGED Promise!vars
<1>1. \A q : Promise!Range(q) = Range(q)
  BY DEF Promise!Range, Range
<1> USE <1>1 DEF Status, StatusOf, Over, Promise!Next
<1>2. /\ Status[c] = "idle" /\ Status' = [Status EXCEPT ![c] = "called"]
      /\ begun' = begun /\ Over' = Over
      => Promise!Invoke(c)
  BY DEF Promise!Invoke
<1>3. /\ Status[c] # "idle" /\ c \notin Range(begun) /\ begun' = Append(begun, c)
      /\ Status' = Status /\ Over' = Over
      => Promise!Begin(c)
  BY DEF Promise!Begin
<1>4. /\ c \in Range(begun) /\ Over' = Over \cup {c}
      /\ Status' = Status /\ begun' = begun
      => Promise!Finish(c)
  BY DEF Promise!Finish
<1>5. /\ Status[c] = "called" /\ c \in Over
      /\ Status' = [Status EXCEPT ![c] = "returned"]
      /\ begun' = begun /\ Over' = Over
      => Promise!Return(c)
  BY DEF Promise!Return
<1>6. /\ Status[c] = "called" /\ Status' = [Status EXCEPT ![c] = "threw"]
      /\ begun' = begun /\ Over' = Over
      => Promise!Throw(c)
  BY DEF Promise!Throw
<1>7. Status' = Status /\ begun' = begun /\ Over' = Over => UNCHANGED Promise!vars
  BY DEF Promise!vars
<1> QED
  BY <1>2, <1>3, <1>4, <1>5, <1>6, <1>7

\* A thread's own steps: it invokes, goes on, throws or returns, and nobody else
\* notices.
LEMMA StatusStep ==
    ASSUME SysInv, NEW c \in Call,
           cpc' = [cpc EXCEPT ![c] = cpc'[c]], cpc'[c] \in CallPC,
           result' = [result EXCEPT ![c] = result'[c]]
    PROVE  /\ cpc[c] = "idle" => Status[c] = "idle"
           /\ cpc[c] \notin {"idle", "ended"} => Status[c] = "called"
           /\ cpc'[c] \notin {"idle", "ended"} => Status' = [Status EXCEPT ![c] = "called"]
           /\ cpc[c] \notin {"idle", "ended"} /\ cpc'[c] \notin {"idle", "ended"}
                 => Status' = Status
           /\ cpc'[c] = "ended" /\ result'[c] = Threw => Status' = [Status EXCEPT ![c] = "threw"]
           /\ cpc'[c] = "ended" /\ result'[c] # Threw
                 => Status' = [Status EXCEPT ![c] = "returned"]
<1>1. cpc \in [Call -> CallPC] /\ DOMAIN result = Call
  BY DEF SysInv, IInv, Types
<1>2. \A d \in Call \ {c} : cpc'[d] = cpc[d] /\ result'[d] = result[d]
  BY <1>1
<1>3. Status' = [Status EXCEPT ![c] = StatusOf(cpc'[c], result'[c])]
  BY <1>2 DEF Status
<1>4. Status[c] = StatusOf(cpc[c], result[c]) /\ DOMAIN Status = Call
  BY DEF Status
<1>5. ASSUME StatusOf(cpc[c], result[c]) = "called", StatusOf(cpc'[c], result'[c]) = "called"
      PROVE  Status' = Status
  BY <1>3, <1>4, <1>5 DEF Status
<1>6. /\ cpc[c] = "idle" => StatusOf(cpc[c], result[c]) = "idle"
      /\ cpc[c] \notin {"idle", "ended"} => StatusOf(cpc[c], result[c]) = "called"
  BY StatusOfIs
<1>7. /\ cpc'[c] \notin {"idle", "ended"} => StatusOf(cpc'[c], result'[c]) = "called"
      /\ cpc'[c] = "ended" /\ result'[c] = Threw => StatusOf(cpc'[c], result'[c]) = "threw"
      /\ cpc'[c] = "ended" /\ result'[c] # Threw => StatusOf(cpc'[c], result'[c]) = "returned"
  BY StatusOfIs
<1> QED
  BY <1>3, <1>4, <1>5, <1>6, <1>7

\* The client's steps, the server's connections being where they were.
LEMMA PromiseClient ==
    ASSUME SysInv, NEW c \in Call, begun' = begun, Over' = Over,
           SysLocal(c) \/ Connect(c) \/ Disconnect(c)
    PROVE  [Promise!Next]_(Promise!vars)
<1>t. cpc \in [Call -> CallPC] /\ result \in [Call -> Call \cup {NoCall, Threw}]
  BY DEF SysInv, IInv, Types
<1>1. CASE BeginCall(c)
  <2>1. /\ cpc' = [cpc EXCEPT ![c] = "lock"] /\ result' = result /\ cpc[c] = "idle"
    BY <1>1 DEF BeginCall, Goto
  <2>2. cpc'[c] = "lock" /\ result'[c] = result[c]
    BY <1>t, <2>1
  <2>3. Status[c] = "idle" /\ Status' = [Status EXCEPT ![c] = "called"]
    BY <1>t, <2>1, <2>2, StatusStep DEF CallPC
  <2> QED
    BY <2>3, PromiseSteps
<1>2. ASSUME /\ \E pc \in CallPC \ {"idle", "ended"} : cpc' = [cpc EXCEPT ![c] = pc]
             /\ \E res : result' = [result EXCEPT ![c] = res]
             /\ cpc[c] \notin {"idle", "ended"}
      PROVE  [Promise!Next]_(Promise!vars)
  <2>1. cpc'[c] \in CallPC \ {"idle", "ended"} /\ cpc' = [cpc EXCEPT ![c] = cpc'[c]]
        /\ result' = [result EXCEPT ![c] = result'[c]]
    BY <1>t, <1>2
  <2>2. Status' = Status
    BY <1>2, <2>1, StatusStep
  <2> QED
    BY <2>2, PromiseSteps
<1>3. CASE Lock(c) \/ Connect(c) \/ Write(c) \/ StartTimer(c) \/ ReadHead(c) \/ StopTimer(c)
  <2>1. /\ \E pc \in CallPC \ {"idle", "ended"} : cpc' = [cpc EXCEPT ![c] = pc]
        /\ result' = result /\ cpc[c] \notin {"idle", "ended"}
    BY <1>3 DEF Lock, Connect, Write, StartTimer, ReadHead, StopTimer, Goto, CallPC
  <2>2. result' = [result EXCEPT ![c] = result[c]]
    BY <1>t, <2>1
  <2> QED
    BY <1>2, <2>1, <2>2
<1>4. CASE WriteFails(c) \/ ReadBody(c) \/ ReadFails(c)
  <2>1. /\ \E pc \in CallPC \ {"idle", "ended"} : cpc' = [cpc EXCEPT ![c] = pc]
        /\ \E res : result' = [result EXCEPT ![c] = res]
        /\ cpc[c] \notin {"idle", "ended"}
    BY <1>4 DEF WriteFails, ReadBody, ReadFails, Goto, Throws, CallPC
  <2> QED
    BY <1>2, <2>1
<1>5. ASSUME cpc' = [cpc EXCEPT ![c] = "ended"], cpc[c] \notin {"idle", "ended"},
             result' = [result EXCEPT ![c] = Threw]
      PROVE  [Promise!Next]_(Promise!vars)
  <2>1. cpc'[c] = "ended" /\ result'[c] = Threw
    BY <1>t, <1>5
  <2>2. Status[c] = "called" /\ Status' = [Status EXCEPT ![c] = "threw"]
    BY <1>5, <2>1, StatusStep DEF CallPC
  <2> QED
    BY <2>2, PromiseSteps
<1>6. CASE ConnectFails(c)
  BY <1>5, <1>6 DEF ConnectFails, Goto, Throws
<1>7. CASE Disconnect(c)
  <2>1. /\ cpc' = [cpc EXCEPT ![c] = "ended"] /\ cpc[c] = "close"
        /\ result' = result \/ Throws(c)
    BY <1>7 DEF Disconnect, Goto
  <2>2. CASE Throws(c)
    BY <1>5, <2>1, <2>2 DEF Throws
  <2>3. CASE result' = result /\ result[c] = Threw
    <3>1. result' = [result EXCEPT ![c] = Threw]
      BY <1>t, <2>3
    <3> QED
      BY <1>5, <2>1, <3>1
  <2>4. CASE result' = result /\ result[c] # Threw
    <3>1. c \in Over
      BY <2>1, <2>4 DEF SysInv, Agree, Over
    <3>2. cpc'[c] = "ended" /\ result'[c] # Threw /\ result' = [result EXCEPT ![c] = result'[c]]
      BY <1>t, <2>1, <2>4
    <3>3. Status[c] = "called" /\ Status' = [Status EXCEPT ![c] = "returned"]
      BY <2>1, <3>2, StatusStep DEF CallPC
    <3> QED
      BY <3>1, <3>3, PromiseSteps
  <2> QED
    BY <2>1, <2>2, <2>3, <2>4
<1> QED
  BY <1>1, <1>3, <1>4, <1>6, <1>7 DEF SysLocal

\* The server's steps: those of connection k begin or finish the execution of call
\* k or leave it as it is.
LEMMA PromiseServer ==
    ASSUME SysInv, NEW k \in Call, UNCHANGED <<cpc, result>>, NEW from, NEW to,
           Moves(k, from, to),
           \/ begun' = begun /\ "exec" \notin to
           \/ begun' = begun /\ \E p : from = {p} /\ to = {p}
           \/ begun' = Append(begun, req[k]) /\ from = {"queued"} /\ to = {"exec"}
    PROVE  [Promise!Next]_(Promise!vars)
<1>t. conn \in [Call -> Server!ConnState] /\ begun \in Seq(Call) /\ Agree(k)
  BY DEF SysInv
<1>s. Status' = Status
  BY DEF Status
<1>1. PICK r \in Server!ConnState :
         conn' = [conn EXCEPT ![k] = r] /\ conn[k].phase \in from /\ r.phase \in to
  BY DEF Moves
<1>2. ASSUME begun' = begun, r.phase # "exec" PROVE [Promise!Next]_(Promise!vars)
  <2>1. CASE k \in Range(begun)
    <3>1. Over' = Over \cup {k}
      BY <1>t, <1>1, <1>2, <2>1 DEF Over
    <3> QED
      BY <1>2, <1>s, <2>1, <3>1, PromiseSteps
  <2>2. CASE k \notin Range(begun)
    <3>1. Over' = Over
      BY <1>t, <1>1, <1>2, <2>2 DEF Over
    <3> QED
      BY <1>2, <1>s, <3>1, PromiseSteps
  <2> QED
    BY <2>1, <2>2
<1>3. ASSUME begun' = begun, r.phase = conn[k].phase PROVE [Promise!Next]_(Promise!vars)
  <2>1. Over' = Over
    BY <1>t, <1>1, <1>3 DEF Over
  <2> QED
    BY <1>3, <1>s, <2>1, PromiseSteps
<1>4. ASSUME begun' = Append(begun, req[k]), conn[k].phase = "queued", r.phase = "exec"
      PROVE  [Promise!Next]_(Promise!vars)
  <2>1. req[k] = k /\ k \notin Range(begun) /\ cpc[k] # "idle"
    BY <1>t, <1>4 DEF Agree
  <2>2. Range(begun') = Range(begun) \cup {k}
    BY <1>t, <1>4, <2>1, RangeAppend
  <2>3. Over' = Over
    BY <1>t, <1>1, <1>4, <2>1, <2>2 DEF Over
  <2>4. Status[k] # "idle"
    BY <2>1 DEF Status, StatusOf
  <2> QED
    BY <1>4, <1>s, <2>1, <2>3, <2>4, PromiseSteps
<1> QED
  BY <1>1, <1>2, <1>3, <1>4

\* Each step of the composition is one of RemoteCall or changes nothing it speaks of.
LEMMA RefinementStep == SysInv /\ [SysNext]_sysvars => [Promise!Next]_(Promise!vars)
<1> SUFFICES ASSUME SysInv, [SysNext]_sysvars PROVE [Promise!Next]_(Promise!vars)
  OBVIOUS
<1>s. ASSUME UNCHANGED <<cpc, result, conn, begun>> PROVE [Promise!Next]_(Promise!vars)
  <2>1. Status' = Status /\ Over' = Over
    BY <1>s DEF Status, Over
  <2>2. CASE Call = {}
    BY <1>s, <2>2 DEF Promise!vars
  <2>3. CASE Call # {}
    BY <1>s, <2>1, <2>3, PromiseSteps
  <2> QED
    BY <2>2, <2>3
<1>1. ASSUME NEW c \in Call, SysConnect(c) PROVE [Promise!Next]_(Promise!vars)
  <2>1. Connect(c) /\ begun' = begun /\ conn[c].phase = "unborn"
        /\ conn' = [conn EXCEPT ![c] = conn'[c]]
    BY <1>1 DEF SysConnect, Server!Start, SysInv, Server!Unborn
  <2>2. c \notin Range(begun)
    BY <2>1 DEF SysInv, Agree
  <2>3. \A j \in Range(begun) : conn'[j] = conn[j]
    BY <2>1, <2>2 DEF SysInv, Range
  <2>4. Over' = Over
    BY <2>1, <2>3 DEF Over
  <2> QED
    BY <2>1, <2>4, PromiseClient
<1>2. ASSUME NEW c \in Call, SysLocal(c) PROVE [Promise!Next]_(Promise!vars)
  <2>1. begun' = begun /\ Over' = Over
    BY <1>2 DEF SysLocal, server_side, Over
  <2> QED
    BY <1>2, <2>1, PromiseClient
<1>3. ASSUME NEW c \in Call, SysDisconnect(c) PROVE [Promise!Next]_(Promise!vars)
  <2>1. Disconnect(c) /\ begun' = begun /\ Over' = Over
    BY <1>3, HangupKeeps DEF SysDisconnect, Over
  <2> QED
    BY <2>1, PromiseClient
<1>4. CASE SysTimer
  BY <1>4, <1>s DEF SysTimer, Expire, RunHandler, TestOpen, HandlerReturns, Stop, client,
                    server_side
<1>5. CASE SysTimerClose
  BY <1>5, <1>s, HangupKeeps DEF SysTimerClose, TimerClose, client
<1>c. ASSUME NEW k, NEW from, NEW to, Seen(k, from, to) \/ SeenClosed(k)
      PROVE  UNCHANGED <<cpc, result>>
  BY <1>c DEF SeenClosed, Seen, Serve, session, vars, client
<1>6. ASSUME NEW k \in Call, SysArrive(k) PROVE [Promise!Next]_(Promise!vars)
  <2>1. UNCHANGED <<cpc, result, begun>>
    BY <1>6 DEF SysArrive, session, vars, client
  <2>2. conn' = [conn EXCEPT ![k].rd = "ok"]
    BY <1>6 DEF SysArrive, Server!Arrive
  <2>3. \A j \in Call : conn'[j].phase = conn[j].phase
    BY <2>2 DEF SysInv, Server!ConnState
  <2>4. Range(begun) \subseteq Call
    BY DEF SysInv, Range
  <2>5. Status' = Status /\ Over' = Over
    BY <2>1, <2>3, <2>4 DEF Status, Over
  <2> QED
    BY <2>1, <2>5, PromiseSteps
<1>7. ASSUME NEW k \in Call, SysRead(k) PROVE [Promise!Next]_(Promise!vars)
  <2>1. UNCHANGED <<cpc, result, begun>>
    BY <1>7 DEF SysRead, session, vars, client
  <2>2. \/ \E p \in Server!Phase : Moves(k, {p}, {p})
        \/ Moves(k, {"head"}, {"body"}) \/ Moves(k, {"body"}, {"queued"})
    BY <1>7, ReadMoves
  <2> QED
    BY <2>1, <2>2, PromiseServer
<1>8. ASSUME NEW k \in Call, SysReject(k) PROVE [Promise!Next]_(Promise!vars)
  <2>1. UNCHANGED <<cpc, result, begun>>
    BY <1>8, <1>c DEF SysReject
  <2>2. \/ \E p \in Server!Phase : Moves(k, {p}, {p})
        \/ Moves(k, {"head", "body"}, {"done"})
    BY <1>8, RejectMoves
  <2> QED
    BY <2>1, <2>2, PromiseServer
<1>9. ASSUME NEW k \in Call, SysExecute(k) PROVE [Promise!Next]_(Promise!vars)
  <2>1. UNCHANGED <<cpc, result>> /\ begun' = Append(begun, req[k])
    BY <1>9 DEF SysExecute, session, vars, client
  <2>2. Moves(k, {"queued"}, {"exec"})
    BY <1>9, WorkerMoves
  <2> QED
    BY <2>1, <2>2, PromiseServer
<1>10. ASSUME NEW k \in Call, SysWriteFirst(k) \/ SysWriteRest(k) \/ SysThrow(k)
       PROVE  [Promise!Next]_(Promise!vars)
  <2>1. UNCHANGED <<cpc, result, begun>>
    BY <1>10, <1>c DEF SysWriteFirst, SysWriteRest, SysThrow
  <2>2. \/ Moves(k, {"exec"}, {"write"}) \/ Moves(k, {"write"}, {"done"})
        \/ Moves(k, {"exec", "write"}, {"done"})
    BY <1>10, WorkerMoves
  <2> QED
    BY <2>1, <2>2, PromiseServer
<1>11. CASE UNCHANGED sysvars
  BY <1>11, <1>s DEF sysvars, server_side, session, vars, client
<1> QED
  BY <1>1, <1>2, <1>3, <1>4, <1>5, <1>6, <1>7, <1>8, <1>9, <1>10, <1>11 DEF SysNext

-----------------------------------------------------------------------------
\* What RpcSession's theorems say of a client holds of one with this server at the
\* other end: the server does nothing that RpcSession's far end could not do.
THEOREM ClientKeepsSpec == SysSpec => Spec
<1>1. SysInit => Init
  BY DEF SysInit
<1> QED
  BY <1>1, ClientStep, SysInvariance, PTL DEF SysSpec, Spec

\* Whatever touches a connection in the composition is a step of Connection: what
\* ConnectionProofs says holds with this client at the other end.
LEMMA ServerKeepsSpec == SysSpec => Server!Spec
<1>1. SysInit => Server!Init
  BY DEF SysInit
<1>2. Server!Spec <=> Server!Init /\ [][Server!Next]_(Server!vars)
  BY DEF Server!Spec
<1> QED
  BY <1>1, <1>2, ServerStep, PTL DEF SysSpec

\* However many calls compete for a client and whatever the timers of the two ends
\* close, a client never has a response to a request whose execution is not over,
\* and holds no connection for usable that the server has closed.
THEOREM EndsAlwaysAgree == SysSpec => []EndsAgree
<1>1. SysInv => EndsAgree
  <2> SUFFICES ASSUME SysInv, NEW k \in Call
               PROVE  /\ srv[k] \in {"head", "sent"} =>
                             req[k] \in Range(begun) /\ conn[k].phase # "exec"
                      /\ sock = k /\ srv[k] \in {"open", "head"} => conn[k].sock = "open"
    BY DEF EndsAgree
  <2>1. Agree(k)
    BY DEF SysInv
  <2> QED
    BY <2>1 DEF Agree
<1> QED
  BY <1>1, SysInvariance, PTL

\* easyrpc executes a call at most once and only if it was made, and a call returns
\* only after its execution is over, for any number of calls, with a timeout at
\* either end, both or none.
THEOREM PromiseKept == SysSpec => ImplementsRemoteCall
<1>1. SysInit => Promise!Init
  BY DEF SysInit, Init, Promise!Init, Range
<1>2. Promise!Spec <=> Promise!Init /\ [][Promise!Next]_(Promise!vars)
  BY DEF Promise!Spec
<1> QED
  BY <1>1, <1>2, RefinementStep, SysInvariance, PTL DEF SysSpec, ImplementsRemoteCall

-----------------------------------------------------------------------------
(* The theorems of the two ends, in the composition. *)

\* What ConnectionProofs proves of Server.
ServerSide == INSTANCE ConnectionProofs WITH Conn <- Call

\* ConnectionProofs speaks of the same member functions as Server ...
LEMMA SameMaps ==
    ASSUME NEW r
    PROVE  /\ \A c : Server!StartTimer(c, r) = ServerSide!StartTimer(c, r)
           /\ Server!StopTimer(r) = ServerSide!StopTimer(r)
           /\ Server!Disconnect(r) = ServerSide!Disconnect(r)
           /\ Server!Finish(r) = ServerSide!Finish(r)
BY DEF Server!StopTimer, ServerSide!StopTimer, Server!StartTimer, ServerSide!StartTimer,
       Server!Disconnect, ServerSide!Disconnect, Server!Finish, ServerSide!Finish,
       Server!Release, ServerSide!Release, Server!Unheld, ServerSide!Unheld

\* ... and the same steps of a connection.
LEMMA SameNext == Server!Next <=> ServerSide!Next
<1>1. \A c \in Call : /\ (Server!Start(c) <=> ServerSide!Start(c))
  BY SameMaps DEF Server!Start, ServerSide!Start
<1>2. \A c \in Call : /\ (Server!Arrive(c) <=> ServerSide!Arrive(c))
                      /\ (Server!ReadFails(c) <=> ServerSide!ReadFails(c))
                      /\ (Server!PeerGone(c) <=> ServerSide!PeerGone(c))
                      /\ (Server!HeadRead(c) <=> ServerSide!HeadRead(c))
                      /\ (Server!TimerExpires(c) <=> ServerSide!TimerExpires(c))
  BY SameMaps DEF Server!Arrive, ServerSide!Arrive, Server!ReadFails, ServerSide!ReadFails, Server!PeerGone, ServerSide!PeerGone, Server!HeadRead, ServerSide!HeadRead, Server!TimerExpires, ServerSide!TimerExpires
<1>3. \A c \in Call : /\ (Server!Execute(c) <=> ServerSide!Execute(c))
                      /\ (Server!WriteFirst(c) <=> ServerSide!WriteFirst(c))
  BY SameMaps DEF Server!Execute, ServerSide!Execute, Server!WriteFirst, ServerSide!WriteFirst
<1>4. \A c \in Call : /\ (Server!HeadRejected(c) <=> ServerSide!HeadRejected(c))
                      /\ (Server!BodyRejected(c) <=> ServerSide!BodyRejected(c))
  BY SameMaps DEF Server!HeadRejected, ServerSide!HeadRejected, Server!BodyRejected, ServerSide!BodyRejected
<1>5. \A c \in Call : /\ (Server!Route(c) <=> ServerSide!Route(c))
  BY SameMaps DEF Server!Route, ServerSide!Route
<1>6. \A c \in Call : /\ (Server!TimerHandler(c) <=> ServerSide!TimerHandler(c))
  BY SameMaps DEF Server!TimerHandler, ServerSide!TimerHandler
<1>7. \A c \in Call : /\ (Server!WriteRest(c) <=> ServerSide!WriteRest(c))
                      /\ (Server!Throw(c) <=> ServerSide!Throw(c))
  BY SameMaps DEF Server!WriteRest, ServerSide!WriteRest, Server!Throw, ServerSide!Throw
<1> QED
  BY <1>1, <1>2, <1>3, <1>4, <1>5, <1>6, <1>7 DEF Server!Next, ServerSide!Next

\* So its theorems apply to the server of the composition.
LEMMA ServerSideSpec == SysSpec => ServerSide!Spec
<1>1. Server!Init <=> ServerSide!Init
  BY DEF Server!Init, ServerSide!Init, Server!Unborn, ServerSide!Unborn
<1>2. [Server!Next]_(Server!vars) <=> [ServerSide!Next]_(ServerSide!vars)
  BY SameNext DEF Server!vars, ServerSide!vars
<1>3. /\ Server!Spec <=> Server!Init /\ [][Server!Next]_(Server!vars)
      /\ ServerSide!Spec <=> ServerSide!Init /\ [][ServerSide!Next]_(ServerSide!vars)
  BY DEF Server!Spec, ServerSide!Spec
<1> QED
  BY <1>1, <1>2, <1>3, ServerKeepsSpec, PTL

\* Each read of the server is timed, no timer outlives its connection, and none
\* runs on after routing, against rpc_session's calls, timeouts and disconnects as
\* against any client.
ServerSafe == /\ Server!ReadGuarded
              /\ Server!NoDanglingTimer
              /\ Server!TimerStopsWithRead
              /\ ServerSide!RoutedStaysOpen

\* connection.hpp keeps its promises when rpc_session.hpp is what connects to it, and
\* what is left of a timeout after routing is what was queued before.
THEOREM ServerSideHolds == SysSpec => []ServerSafe /\ ServerSide!OnlyLateTimerCloses
<1>1. ServerSide!IInv => ServerSafe
  BY TimedCalls DEF ServerSide!IInv, ServerSide!Coherent, ServerSafe, Server!ReadGuarded,
     Server!Reading, Server!NoDanglingTimer, Server!TimerStopsWithRead,
     ServerSide!RoutedStaysOpen, ServerSide!Routed
<1>2. ServerSide!Spec => []ServerSide!IInv
  BY ServerSide!Invariance, TimedCalls
<1>3. ServerSide!Spec => ServerSide!OnlyLateTimerCloses
  BY ServerSide!RoutedClosedByLateTimer, TimedCalls
<1> QED
  BY <1>1, <1>2, <1>3, ServerSideSpec, PTL

\* A call returns its own whole response and leaves no open socket to the next, and
\* a timed read has a timer or a handler that will close it, whatever this server
\* and its timers do meanwhile.
ClientSafe == /\ OwnResponse
              /\ OnlyWholeResponses
              /\ ClosedBetweenCalls
              /\ TimedReadIsGuarded

\* rpc_session.hpp keeps its promises against connection.hpp.
THEOREM ClientSideHolds == SysSpec => []ClientSafe
BY ClientKeepsSpec, ResponsesNotMixed, NoPartialResponse, SocketClosedBetweenCalls,
   ReadsAreGuarded, PTL DEF ClientSafe

-----------------------------------------------------------------------------
(* Who waits for whom. *)

\* How far the server has come with call k, as its client can rely on it.
Progress(k) ==
    /\ cpc[k] \notin {"idle", "lock", "connect", "ended"} => conn[k].phase # "unborn"
    /\ sock = k /\ srv[k] = "open" => conn[k].phase \in {"head", "body", "queued", "exec"}
    /\ sock = k /\ srv[k] = "head" => conn[k].phase = "write"
    /\ srv[k] = "sent" => conn[k].phase = "done"
    /\ cpc[k] \in {"stop", "close", "ended"} /\ result[k] # Threw => conn[k].phase = "done"

Progressing == \A k \in Call : Progress(k)

\* The client's steps but for connect.
LEMMA ProgressClient ==
    ASSUME SysInv, Progressing, conn' = conn,
           \/ \E c \in Call : SysLocal(c) \/ Disconnect(c)
           \/ SysTimer \/ TimerClose
    PROVE  Progressing'
<1> USE CallAssumption DEF SysInv, IInv, Types, CallPC, Goto, Throws, client, server
<1> SUFFICES ASSUME NEW k \in Call PROVE Progress(k)'
  BY DEF Progressing
<1>a. Progress(k)
  BY DEF Progressing
<1>1. ASSUME NEW c \in Call, BeginCall(c) \/ Lock(c) \/ StartTimer(c) \/ ReadHead(c)
      PROVE  Progress(k)'
  BY <1>a, <1>1 DEF BeginCall, Lock, StartTimer, ReadHead, Progress
<1>2. ASSUME NEW c \in Call, ConnectFails(c) PROVE Progress(k)'
  BY <1>a, <1>2 DEF ConnectFails, Progress
<1>3. ASSUME NEW c \in Call, Write(c) PROVE Progress(k)'
  BY <1>a, <1>3 DEF Write, Progress
<1>4. ASSUME NEW c \in Call, WriteFails(c) \/ ReadFails(c) \/ StopTimer(c) PROVE Progress(k)'
  BY <1>a, <1>4 DEF WriteFails, ReadFails, StopTimer, Progress
<1>5. ASSUME NEW c \in Call, ReadBody(c) PROVE Progress(k)'
  <2>1. sock = c /\ srv[c] = "sent"
    BY <1>5 DEF ReadBody, OwnConnection
  <2> QED
    BY <1>a, <1>5, <2>1 DEF ReadBody, Progress
<1>6. ASSUME NEW c \in Call, Disconnect(c) PROVE Progress(k)'
  BY <1>a, <1>6 DEF Disconnect, Progress
<1>7. CASE Expire \/ RunHandler \/ TestOpen \/ TimerClose \/ HandlerReturns \/ Stop
  BY <1>a, <1>7 DEF Expire, RunHandler, TestOpen, TimerClose, HandlerReturns, Stop, Progress
<1> QED
  BY <1>1, <1>2, <1>3, <1>4, <1>5, <1>6, <1>7 DEF SysLocal, SysTimer

\* Whatever ends a connection's work early closes its socket.
LEMMA EndsClosed ==
    ASSUME SysInv, NEW k \in Call, SysReject(k) \/ SysThrow(k)
    PROVE  conn'[k].sock = "closed"
<1>1. conn[k] \in Server!ConnState /\ conn \in [Call -> Server!ConnState]
  BY DEF SysInv
<1>2. CASE Server!HeadRejected(k) \/ Server!BodyRejected(k)
  <2> DEFINE q == Server!Disconnect(Server!StopTimer(conn[k]))
  <2>1. q \in Server!ConnState /\ q.sock = "closed"
    BY <1>1, CloseMoves
  <2>2. conn'[k] = Server!Finish(q)
    BY <1>1, <1>2 DEF Server!HeadRejected, Server!BodyRejected
  <2>3. Server!Finish(q) \in Server!ConnState /\ Server!Finish(q).sock # "open"
    BY <2>1, FinishIsDone
  <2> HIDE DEF q
  <2> QED
    BY <2>2, <2>3 DEF Server!ConnState
<1>3. CASE Server!TimerHandler(k)
  <2> DEFINE q == [conn[k] EXCEPT !.timer = "off"]
  <2>1. q \in Server!ConnState
    BY <1>1 DEF Server!ConnState
  <2>2. conn'[k] = Server!Disconnect(q)
    BY <1>1, <1>3 DEF Server!TimerHandler
  <2> HIDE DEF q
  <2> QED
    BY <2>1, <2>2, CloseMoves
<1>4. CASE SysThrow(k)
  <2> DEFINE q == Server!Disconnect(conn[k])
  <2>1. q \in Server!ConnState /\ q.sock = "closed"
    BY <1>1, CloseMoves
  <2>2. conn'[k] = Server!Finish(q)
    BY <1>1, <1>4 DEF SysThrow, Server!Throw
  <2>3. Server!Finish(q) \in Server!ConnState /\ Server!Finish(q).sock # "open"
    BY <2>1, FinishIsDone
  <2> HIDE DEF q
  <2> QED
    BY <2>2, <2>3 DEF Server!ConnState
<1> QED
  BY <1>2, <1>3, <1>4 DEF SysReject

\* The steps of connection k, with what the client sees of them.
LEMMA ProgressServer ==
    ASSUME SysInv, Progressing, NEW k \in Call,
           \/ SysArrive(k) \/ SysRead(k) \/ SysReject(k)
           \/ SysExecute(k) \/ SysWriteFirst(k) \/ SysWriteRest(k) \/ SysThrow(k)
    PROVE  Progressing'
<1>a. Progress(k) /\ Agree(k)
  BY DEF SysInv, Progressing
<1>t. /\ conn \in [Call -> Server!ConnState] /\ sock \in Call \cup {NoCall}
      /\ srv \in [Call -> {"none", "open", "refused", "head", "sent", "closed"}]
  BY DEF SysInv, IInv, Types
<1>o. ASSUME NEW r, conn' = [conn EXCEPT ![k] = r], UNCHANGED <<cpc, result, sock>>,
             \A j \in Call \ {k} : srv'[j] = srv[j], Progress(k)'
      PROVE  Progressing'
  <2>1. ASSUME NEW j \in Call, j # k PROVE Progress(j)'
    <3>1. /\ conn'[j] = conn[j] /\ srv'[j] = srv[j]
          /\ UNCHANGED <<cpc, result, sock>> /\ Progress(j)
      BY <1>o, <1>t, <2>1 DEF Progressing
    <3> QED
      BY <3>1 DEF Progress
  <2> QED
    BY <1>o, <2>1 DEF Progressing
<1>s. ASSUME NEW from, NEW to, Seen(k, from, to)
      PROVE  /\ UNCHANGED <<cpc, result, sock>>
             /\ \A j \in Call \ {k} : srv'[j] = srv[j]
             /\ srv'[k] = IF sock = k /\ srv[k] \in from THEN to ELSE srv[k]
  BY <1>s, <1>t DEF Seen, Serve, session, vars, client, server
<1>1. CASE SysArrive(k)
  <2> DEFINE r == [conn[k] EXCEPT !.rd = "ok"]
  <2>1. conn' = [conn EXCEPT ![k] = r] /\ UNCHANGED <<cpc, result, sock, srv>>
    BY <1>1, <1>t DEF SysArrive, Server!Arrive, session, vars, client, server
  <2>2. conn'[k].phase = conn[k].phase
    BY <1>t, <2>1 DEF Server!ConnState
  <2>3. Progress(k)'
    BY <1>a, <2>1, <2>2 DEF Progress
  <2> QED
    BY <1>o, <2>1, <2>3
<1>2. CASE SysRead(k)
  <2>1. UNCHANGED <<cpc, result, sock, srv>>
    BY <1>2 DEF SysRead, session, vars, client, server
  <2>2. PICK r \in Server!ConnState :
           /\ conn' = [conn EXCEPT ![k] = r]
           /\ \/ r.phase = conn[k].phase
              \/ conn[k].phase = "head" /\ r.phase = "body"
              \/ conn[k].phase = "body" /\ r.phase = "queued"
    BY <1>2, ReadMoves DEF Moves
  <2>3. Progress(k)'
    BY <1>a, <1>t, <2>1, <2>2 DEF Progress, Agree
  <2> QED
    BY <1>o, <2>1, <2>2, <2>3
<1>3. CASE SysReject(k) \/ SysThrow(k)
  <2>1. Seen(k, {"open", "head"}, "closed")
    BY <1>3, EndsClosed DEF SysReject, SysThrow, SeenClosed
  <2>2. PICK r \in Server!ConnState :
           /\ conn' = [conn EXCEPT ![k] = r]
           /\ \/ r.phase = conn[k].phase
              \/ conn[k].phase # "unborn" /\ r.phase = "done"
    BY <1>3, RejectMoves, WorkerMoves DEF Moves
  <2>3. Progress(k)'
    BY <1>a, <1>s, <1>t, <2>1, <2>2 DEF Progress
  <2> QED
    BY <1>o, <1>s, <2>1, <2>2, <2>3
<1>4. CASE SysExecute(k)
  <2>1. UNCHANGED <<cpc, result, sock, srv>>
    BY <1>4 DEF SysExecute, session, vars, client, server
  <2>2. PICK r \in Server!ConnState :
           conn' = [conn EXCEPT ![k] = r] /\ conn[k].phase = "queued" /\ r.phase = "exec"
    BY <1>4, WorkerMoves DEF Moves
  <2>3. Progress(k)'
    BY <1>a, <1>t, <2>1, <2>2 DEF Progress, Agree
  <2> QED
    BY <1>o, <2>1, <2>2, <2>3
<1>5. CASE SysWriteFirst(k)
  <2>1. Seen(k, {"open"}, "head")
    BY <1>5 DEF SysWriteFirst
  <2>2. PICK r \in Server!ConnState :
           conn' = [conn EXCEPT ![k] = r] /\ conn[k].phase = "exec" /\ r.phase = "write"
    BY <1>5, WorkerMoves DEF Moves
  <2>3. Progress(k)'
    BY <1>a, <1>s, <1>t, <2>1, <2>2 DEF Progress
  <2> QED
    BY <1>o, <1>s, <2>1, <2>2, <2>3
<1>6. CASE SysWriteRest(k)
  <2>1. Seen(k, {"head"}, "sent")
    BY <1>6 DEF SysWriteRest
  <2>2. PICK r \in Server!ConnState :
           conn' = [conn EXCEPT ![k] = r] /\ conn[k].phase = "write" /\ r.phase = "done"
    BY <1>6, WorkerMoves DEF Moves
  <2>3. Progress(k)'
    BY <1>a, <1>s, <1>t, <2>1, <2>2 DEF Progress
  <2> QED
    BY <1>o, <1>s, <2>1, <2>2, <2>3
<1> QED
  BY <1>1, <1>2, <1>3, <1>4, <1>5, <1>6

\* The two ends of a connection begin it together.
LEMMA ProgressConnect ==
    ASSUME SysInv, Progressing, NEW c \in Call, SysConnect(c) PROVE Progressing'
<1> DEFINE r == Server!StartTimer(c, [conn[c] EXCEPT !.phase = "head", !.sock = "open",
                                                     !.rd = "pending", !.alive = TRUE])
<1>1. /\ cpc[c] = "connect" /\ sock' = c /\ srv' = [srv EXCEPT ![c] = "open"]
      /\ cpc' = [cpc EXCEPT ![c] = "write"]
      /\ result' = result
  BY DEF SysConnect, Connect, Goto
<1>2. conn' = [conn EXCEPT ![c] = r]
  BY DEF SysConnect, Server!Start
<1>3. r.phase = "head"
  BY DEF SysInv, Server!StartTimer, Server!ConnState, Server!Phase
<1> HIDE DEF r
<1> SUFFICES ASSUME NEW k \in Call PROVE Progress(k)'
  BY DEF Progressing
<1> QED
  BY <1>1, <1>2, <1>3 DEF SysInv, Progressing, Progress, IInv, Types, CallPC

\* What Progressing needs to be inductive.
WaitInv == SysInv /\ Progressing

\* Its induction step.
LEMMA WaitInductive == WaitInv /\ [SysNext]_sysvars => WaitInv'
<1> SUFFICES ASSUME WaitInv, [SysNext]_sysvars PROVE Progressing'
  BY SysInductive DEF WaitInv
<1> USE DEF WaitInv
<1>1. ASSUME NEW c \in Call, SysConnect(c) PROVE Progressing'
  BY <1>1, ProgressConnect
<1>2. ASSUME NEW c \in Call, SysLocal(c) PROVE Progressing'
  <2>1. conn' = conn
    BY <1>2 DEF SysLocal, server_side
  <2> QED
    BY <1>2, <2>1, ProgressClient
<1>3. ASSUME NEW c \in Call, SysDisconnect(c) PROVE Progressing'
  <2>1. Disconnect(c) /\ conn' = conn
    BY <1>3, HangupKeeps DEF SysDisconnect
  <2> QED
    BY <2>1, ProgressClient
<1>4. ASSUME SysTimer PROVE Progressing'
  <2>1. conn' = conn
    BY <1>4 DEF SysTimer, server_side
  <2> QED
    BY <1>4, <2>1, ProgressClient
<1>5. ASSUME SysTimerClose PROVE Progressing'
  <2>1. TimerClose /\ conn' = conn
    BY <1>5, HangupKeeps DEF SysTimerClose
  <2> QED
    BY <2>1, ProgressClient
<1>6. ASSUME NEW k \in Call,
             \/ SysArrive(k) \/ SysRead(k) \/ SysReject(k)
             \/ SysExecute(k) \/ SysWriteFirst(k) \/ SysWriteRest(k) \/ SysThrow(k)
      PROVE  Progressing'
  BY <1>6, ProgressServer
<1>7. ASSUME UNCHANGED sysvars PROVE Progressing'
  BY <1>7 DEF Progressing, Progress, sysvars, server_side, session, vars, client, server
<1> QED
  BY <1>1, <1>2, <1>3, <1>4, <1>5, <1>6, <1>7 DEF SysNext

\* It holds at first and is kept.
LEMMA WaitInvariance == SysSpec => []WaitInv
<1>1. SysInit => WaitInv
  <2> SUFFICES ASSUME SysInit, NEW k \in Call PROVE Progress(k)
    BY SysInvInit DEF WaitInv, Progressing
  <2>1. cpc[k] = "idle" /\ srv[k] = "none"
    BY DEF SysInit, Init
  <2> QED
    BY <2>1 DEF Progress
<1> QED
  BY <1>1, WaitInductive, PTL DEF SysSpec

-----------------------------------------------------------------------------
(* What follows for the two ends together. *)

\* What a client's blocked read waits for is there: the response, or the end of the
\* socket.
CanRead(c) == \/ sock \notin Usable
              \/ cpc[c] = "head" /\ sock \in Responded
              \/ cpc[c] = "body" /\ srv[sock] = "sent"

\* The server has a step to make for call k that needs nothing more from its client:
\* the rest of a request that was sent whole, a handler, the task, the response.
Owes(k) == \/ /\ conn[k].phase \in {"head", "body"}
              /\ conn[k].rd # "none"
              /\ conn[k].rd = "pending" => req[k] = k
           \/ conn[k].phase \in {"queued", "exec"}
           \/ conn[k].phase = "write" /\ conn[k].sock = "open"

\* The two ends never wait for each other: while a thread blocks in read_head or
\* read_body with the client's mutex held, and no byte has come for it, the server has
\* work to do for its call.
NoMutualWait ==
    \A c \in Call : cpc[c] \in {"head", "body"} => CanRead(c) \/ Owes(c)

\* Without a timeout at either end a call still waits only for what the server can do:
\* the safety under CallEnds, for any number of calls.
THEOREM EndsNeverWaitMutually == SysSpec => []NoMutualWait
<1>1. WaitInv /\ ServerSide!IInv => NoMutualWait
  <2> SUFFICES ASSUME WaitInv, ServerSide!IInv, NEW c \in Call, cpc[c] \in {"head", "body"},
                      ~CanRead(c)
               PROVE  Owes(c)
    BY DEF NoMutualWait
  <2>1. Agree(c) /\ Progress(c) /\ ServerSide!Coherent(c, conn[c])
    BY DEF WaitInv, SysInv, Progressing, ServerSide!IInv
  <2>2. sock = c /\ req[c] = c
    BY CallAssumption DEF WaitInv, SysInv, IInv, OwnConnection, CanRead, Usable
  <2>3. srv[c] \in {"open", "head"}
    <3>1. srv[c] \in {"open", "head", "sent"}
      BY <2>1, <2>2 DEF Agree, Progress, CanRead, Usable
    <3>2. srv[c] # "sent"
      BY <2>2 DEF CanRead, Responded
    <3> QED
      BY <3>1, <3>2
  <2>4. conn[c].sock = "open"
    BY <2>1, <2>2, <2>3 DEF Agree
  <2>5. conn[c].phase \in {"head", "body", "queued", "exec", "write"}
    BY <2>1, <2>2, <2>3 DEF Progress
  <2> QED
    BY <2>1, <2>2, <2>4, <2>5 DEF Owes, ServerSide!Coherent
<1>2. ServerSide!Spec => []ServerSide!IInv
  BY ServerSide!Invariance, TimedCalls
<1> QED
  BY <1>1, <1>2, WaitInvariance, ServerSideSpec, PTL

\* The call returned a response.
Returned(c) == cpc[c] = "ended" /\ result[c] # Threw

\* When call returns, the server is done with it: no worker is still at its task, its
\* connection's work is over, and the connection is destroyed, its socket closed,
\* exactly if the server has no timeout for it.
ReturnedIsOver ==
    \A c \in Call : Returned(c) =>
        /\ c \in Range(begun) /\ conn[c].phase = "done"
        /\ conn[c].alive <=> c \in Timed
        /\ c \notin Timed => conn[c].sock = "closed"

\* A client that calls in a loop leaves nothing behind at a server without a timeout;
\* at one with a timeout each call leaves the connection that PeerGoneClosed misses.
THEOREM NothingAfterReturn == SysSpec => []ReturnedIsOver
<1>1. WaitInv /\ ServerSide!Lifetime => ReturnedIsOver
  <2> SUFFICES ASSUME WaitInv, ServerSide!Lifetime, NEW c \in Call, Returned(c)
               PROVE  /\ c \in Range(begun) /\ conn[c].phase = "done"
                      /\ conn[c].alive <=> c \in Timed
                      /\ c \notin Timed => conn[c].sock = "closed"
    BY DEF ReturnedIsOver
  <2>1. Agree(c) /\ Progress(c)
    BY DEF WaitInv, SysInv, Progressing
  <2>2. c \in Range(begun) /\ conn[c].phase = "done"
    BY <2>1 DEF Agree, Progress, Returned
  <2> QED
    BY <2>2 DEF ServerSide!Lifetime
<1>2. ServerSide!Spec => []ServerSide!Lifetime
  BY ServerSide!DestroyedUnlessTimed, TimedCalls
<1> QED
  BY <1>1, <1>2, WaitInvariance, ServerSideSpec, PTL

\* No request is executed twice, whatever times out, hangs up or throws at either end
\* after it was sent: neither end sends or queues it again.
AtMostOnce == \A i, j \in DOMAIN begun : begun[i] = begun[j] => i = j

\* Only a queued request begins, and it was not begun before.
LEMMA BegunOnceStep ==
    ASSUME SysInv, AtMostOnce, [SysNext]_sysvars PROVE AtMostOnce'
<1>1. ASSUME NEW k \in Call, SysExecute(k) PROVE AtMostOnce'
  <2>1. begun' = Append(begun, req[k]) /\ conn[k].phase = "queued"
    BY <1>1 DEF SysExecute, Server!Execute
  <2>2. begun \in Seq(Call) /\ req[k] = k /\ k \notin Range(begun)
    BY <2>1 DEF SysInv, Agree
  <2> QED
    BY <2>1, <2>2, InjectiveAppend DEF AtMostOnce
<1>2. ASSUME begun' = begun PROVE AtMostOnce'
  BY <1>2 DEF AtMostOnce
<1>3. ASSUME ~\E k \in Call : SysExecute(k) PROVE begun' = begun
  BY <1>3 DEF SysNext, SysConnect, SysLocal, SysDisconnect, SysTimer, SysTimerClose, SysArrive,
              SysRead, SysReject, SysWriteFirst, SysWriteRest, SysThrow, sysvars
<1> QED
  BY <1>1, <1>2, <1>3

\* What RemoteCall's Begin says step by step, as an invariant of the composition.
THEOREM ExecutedAtMostOnce == SysSpec => []AtMostOnce
<1>1. SysInit => AtMostOnce
  BY DEF SysInit, AtMostOnce
<1> QED
  BY <1>1, BegunOnceStep, SysInvariance, PTL DEF SysSpec

=============================================================================
