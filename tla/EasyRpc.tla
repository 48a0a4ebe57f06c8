------------------------------- MODULE EasyRpc -------------------------------
(***************************************************************************)
(* One client and one server: RpcSession's callers and timer thread joined *)
(* to Connection's io and worker threads, call c's connection being        *)
(* connection c of the server.  What RpcSession leaves to the far end is   *)
(* here what a connection does, and what Connection leaves to its client   *)
(* is what the session does: each step below is a step of one of them, and *)
(* of the other as well where the socket tells it.                         *)
(*                                                                         *)
(* Bytes arrive once they are written; a closed end is seen by the other   *)
(* some time later.  The server runs throughout (Server has its shutdown). *)
(***************************************************************************)
EXTENDS RpcSession, Sequences, Functions

CONSTANT Timed  \* the calls that meet a server with a timeout

ASSUME TimedCalls == Timed \subseteq Call

VARIABLES conn, peer,  \* Connection's
          begun        \* history: the requests executed, in order

Server == INSTANCE Connection WITH Conn <- Call

session == vars
server_side == <<conn, peer>>
sysvars == <<session, server_side, begun>>

SysInit == Init /\ Server!Init /\ begun = <<>>

-----------------------------------------------------------------------------
\* What the client sees of a step of connection k: `to`, if it still holds it.
Seen(k, from, to) == IF sock = k /\ srv[k] \in from THEN Serve(k, from, to)
                                                    ELSE UNCHANGED session

\* What it sees of one that may close the socket.
SeenClosed(k) == IF conn'[k].sock = "closed" THEN Seen(k, {"open", "head"}, "closed")
                                             ELSE UNCHANGED session

\* What the server sees of a client that closes its socket.
Hangup == IF sock \in Call /\ conn[sock].phase # "unborn" /\ peer[sock] = "up"
          THEN Server!PeerGone(sock)
          ELSE UNCHANGED server_side

\* The steps of a calling thread.
SysConnect(c) == Connect(c) /\ Server!Start(c) /\ UNCHANGED begun

SysLocal(c) ==
    /\ \/ BeginCall(c) \/ Lock(c) \/ ConnectFails(c) \/ Write(c) \/ WriteFails(c)
       \/ StartTimer(c) \/ ReadHead(c) \/ ReadBody(c) \/ ReadFails(c) \/ StopTimer(c)
    /\ UNCHANGED <<server_side, begun>>

SysDisconnect(c) == Disconnect(c) /\ Hangup /\ UNCHANGED begun

\* The steps of the timer thread, and client::stop.
SysTimer == /\ Expire \/ RunHandler \/ TestOpen \/ HandlerReturns \/ Stop
            /\ UNCHANGED <<server_side, begun>>

SysTimerClose == TimerClose /\ Hangup /\ UNCHANGED begun

-----------------------------------------------------------------------------
\* The request's bytes reach the server's read.
SysArrive(k) == /\ req[k] # NoCall
                /\ Server!Arrive(k)
                /\ UNCHANGED <<session, begun>>

\* The steps of an io thread that leave the socket as it is ...
SysRead(k) ==
    /\ \/ Server!ReadFails(k) \/ Server!HeadRead(k) \/ Server!Route(k)
       \/ Server!TimerExpires(k)
    /\ UNCHANGED <<session, begun>>

\* ... and those that may close it.
SysReject(k) ==
    /\ Server!HeadRejected(k) \/ Server!BodyRejected(k) \/ Server!TimerHandler(k)
    /\ SeenClosed(k)
    /\ UNCHANGED begun

\* The steps of a worker.
SysExecute(k) == /\ Server!Execute(k)
                 /\ begun' = Append(begun, req[k])
                 /\ UNCHANGED session

SysWriteFirst(k) == Server!WriteFirst(k) /\ Seen(k, {"open"}, "head") /\ UNCHANGED begun

SysWriteRest(k) == Server!WriteRest(k) /\ Seen(k, {"head"}, "sent") /\ UNCHANGED begun

SysThrow(k) == Server!Throw(k) /\ SeenClosed(k) /\ UNCHANGED begun

-----------------------------------------------------------------------------
SysNext == \/ \E c \in Call : SysConnect(c) \/ SysLocal(c) \/ SysDisconnect(c)
           \/ SysTimer \/ SysTimerClose
           \/ \E k \in Call : \/ SysArrive(k) \/ SysRead(k) \/ SysReject(k)
                              \/ SysExecute(k) \/ SysWriteFirst(k)
                              \/ SysWriteRest(k) \/ SysThrow(k)

SysSpec == SysInit /\ [][SysNext]_sysvars

\* Every thread at either end goes on when it can, a free mutex is given to all
\* who wait for it, what was written arrives, and the client reads what comes.
SysFairness ==
    /\ \A c \in Call :
          /\ SF_sysvars(Lock(c) /\ SysLocal(c))
          /\ WF_sysvars(Caller(c) /\ (SysConnect(c) \/ SysLocal(c) \/ SysDisconnect(c)))
          /\ WF_sysvars(SysArrive(c))
          /\ WF_sysvars(Server!IoThread(c) /\ (SysRead(c) \/ SysReject(c)))
          /\ WF_sysvars(SysExecute(c))
          /\ WF_sysvars(SysWriteFirst(c) \/ SysWriteRest(c) \/ SysThrow(c))

SysFairSpec == SysSpec /\ SysFairness

-----------------------------------------------------------------------------
(* Properties *)

\* The two ends together keep the promise of RemoteCall: no request is executed
\* twice or uncalled for, whatever times out or hangs up at either end, and a
\* call returns only when its execution is over: operator() is past func_, which
\* returned, or threw, or called nothing because the arguments did not unpack.
Promise == INSTANCE RemoteCall WITH
    status <- [c \in Call |->
                 CASE cpc[c] = "idle"                         -> "idle"
                   [] cpc[c] = "ended" /\ result[c] = Threw   -> "threw"
                   [] cpc[c] = "ended" /\ result[c] # Threw   -> "returned"
                   [] OTHER                                   -> "called"],
    over <- {c \in Range(begun) : conn[c].phase # "exec"}

ImplementsRemoteCall == Promise!Spec

\* A response has begun only after the execution of the request on that connection
\* was over, in the sense above, and a connection that the client finds usable is
\* open at the server or has its whole response.
EndsAgree ==
    \A k \in Call :
        /\ srv[k] \in {"head", "sent"} => req[k] \in Range(begun) /\ conn[k].phase # "exec"
        /\ sock = k /\ srv[k] \in {"open", "head"} => conn[k].sock = "open"

\* Every call ends, with or without a timeout: the server answers it or closes
\* its connection.
CallEnds == \A c \in Call : cpc[c] = "lock" ~> cpc[c] = "ended"
=============================================================================
