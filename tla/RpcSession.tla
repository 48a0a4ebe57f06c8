------------------------------ MODULE RpcSession ------------------------------
(***************************************************************************)
(* easyrpc/client/client.hpp and rpc_session.hpp with base/atimer.hpp: the *)
(* threads that share one client.  A call holds the client's mutex while   *)
(* it connects, writes the request, reads the response under a timer and   *)
(* disconnects.  The timer's handler runs on a thread of its own and takes *)
(* no lock: it closes whatever socket the session holds by then.           *)
(*                                                                         *)
(* A connection is named by the call that made it.  A thread that calls    *)
(* again is one more member of Call.  The server and the network are       *)
(* external: they may answer, fail or stay silent.                         *)
(***************************************************************************)
EXTENDS Naturals, FiniteSets

CONSTANTS Call,    \* the calls made through the client
          NoCall,
          Threw    \* the outcome of a call that throws

ASSUME CallAssumption == /\ IsFiniteSet(Call)
                         /\ NoCall \notin Call /\ Threw \notin Call \cup {NoCall}

VARIABLES cpc,           \* where each call is
          result,        \* its outcome: whose response it returned, or Threw
          mutex,         \* mutex_: the call that holds it
          sock,          \* socket_: the connection it is open for
          srv, req,      \* external: each connection's far end, whose request it has
          timed,         \* timeout_milli_ # 0
          timer_thread,  \* timer_thread_, which runs timer_ios_
          armed,         \* the call timer_ waits for, if it does
          bound,         \* the number of functions in func_vec_
          tpc, left,     \* where the timer thread is, functions left to call
          due            \* the call whose wait expired, while its handler is

client  == <<cpc, result, mutex>>
server  == <<srv, req>>
config  == <<timed, timer_thread>>
timer   == <<tpc, left, due>>
vars == <<client, server, config, timer, sock, armed, bound>>

\* lock: wants the mutex; head, body: blocked in read_head, read_body; stop: read
\* is left, its guard runs; close: call is left, the caller's guard runs.
CallPC == {"idle", "lock", "connect", "write", "start", "head", "body", "stop",
           "close", "ended"}

Init == /\ cpc = [c \in Call |-> "idle"]
        /\ result = [c \in Call |-> NoCall]
        /\ mutex = NoCall
        /\ sock = NoCall
        /\ srv = [c \in Call |-> "none"]
        /\ req = [c \in Call |-> NoCall]
        \* run() makes the timer thread if timeout() came before it.
        /\ timed \in BOOLEAN
        /\ timer_thread \in (IF timed THEN {"running", "none"} ELSE {"none"})
        /\ armed = NoCall
        /\ bound = 0
        /\ tpc = "idle" /\ left = 0
        /\ due = NoCall

Goto(c, pc) == cpc' = [cpc EXCEPT ![c] = pc]
Throws(c)   == result' = [result EXCEPT ![c] = Threw]

\* The connections that are open at both ends, and those whose response has begun.
Usable    == {k \in Call : srv[k] # "closed"}
Responded == {k \in Call : srv[k] \in {"head", "sent"}}

-----------------------------------------------------------------------------
(* The calling thread: client::call and call_raw, all four of them. *)

BeginCall(c) ==
    /\ cpc[c] = "idle"
    /\ Goto(c, "lock")
    /\ UNCHANGED <<result, mutex, server, config, timer, sock, armed, bound>>

\* Faulty: no lock_guard.
Lock_None(c) ==
    /\ cpc[c] = "lock"
    /\ mutex' = c
    /\ Goto(c, "connect")
    /\ UNCHANGED <<result, server, config, timer, sock, armed, bound>>

Lock(c) ==
    /\ cpc[c] = "lock"
    /\ mutex = NoCall
    /\ mutex' = c
    /\ Goto(c, "connect")
    /\ UNCHANGED <<result, server, config, timer, sock, armed, bound>>

\* boost::asio::connect closes what the socket holds and opens it anew.
Connect(c) ==
    /\ cpc[c] = "connect"
    /\ sock' = c
    /\ srv' = [srv EXCEPT ![c] = "open"]
    /\ Goto(c, "write")
    /\ UNCHANGED <<result, mutex, req, config, timer, armed, bound>>

\* It throws before the guard exists: the socket stays open, unconnected.
ConnectFails(c) ==
    /\ cpc[c] = "connect"
    /\ sock' = c
    /\ srv' = [srv EXCEPT ![c] = "refused"]
    /\ Throws(c)
    /\ mutex' = NoCall
    /\ Goto(c, "ended")
    /\ UNCHANGED <<req, config, timer, armed, bound>>

Write(c) ==
    /\ cpc[c] = "write"
    /\ sock # NoCall
    /\ req' = [req EXCEPT ![sock] = c]
    /\ Goto(c, "start")
    /\ UNCHANGED <<result, mutex, srv, config, timer, sock, armed, bound>>

\* The request is too big, or the socket is closed at either end.
WriteFails(c) ==
    /\ cpc[c] = "write"
    /\ Throws(c)
    /\ Goto(c, "close")
    /\ UNCHANGED <<mutex, server, config, timer, sock, armed, bound>>

\* Faulty: binds the function and forgets to start the wait.
StartTimer_NotStarted(c) ==
    /\ cpc[c] = "start"
    /\ bound' = IF timed THEN bound + 1 ELSE bound
    /\ Goto(c, "head")
    /\ UNCHANGED <<result, mutex, server, config, timer, sock, armed>>

\* start_timer: every call binds one more function; starting the timer again
\* cancels a wait that still runs.
StartTimer(c) ==
    /\ cpc[c] = "start"
    /\ IF timed THEN /\ bound' = bound + 1
                     /\ armed' = c
                ELSE UNCHANGED <<bound, armed>>
    /\ Goto(c, "head")
    /\ UNCHANGED <<result, mutex, server, config, timer, sock>>

\* Faulty: starts the timer for each of the two reads.
ReadHead_RestartsTimer(c) ==
    /\ cpc[c] = "head"
    /\ sock \in Responded
    /\ IF timed THEN /\ bound' = bound + 1
                     /\ armed' = c
                ELSE UNCHANGED <<bound, armed>>
    /\ Goto(c, "body")
    /\ UNCHANGED <<result, mutex, server, config, timer, sock>>

ReadHead(c) ==
    /\ cpc[c] = "head"
    /\ sock \in Responded
    /\ Goto(c, "body")
    /\ UNCHANGED <<result, mutex, server, config, timer, sock, armed, bound>>

ReadBody(c) ==
    /\ cpc[c] = "body"
    /\ sock # NoCall
    /\ srv[sock] = "sent"
    /\ result' = [result EXCEPT ![c] = req[sock]]
    /\ Goto(c, "stop")
    /\ UNCHANGED <<mutex, server, config, timer, sock, armed, bound>>

\* Faulty: read has no guard.
ReadFails_NoGuard(c) ==
    /\ \/ cpc[c] \in {"head", "body"} /\ sock \notin Usable
       \/ cpc[c] = "head" /\ sock \in Responded
    /\ Throws(c)
    /\ Goto(c, "close")
    /\ UNCHANGED <<mutex, server, config, timer, sock, armed, bound>>

\* The socket is closed at either end, or check_head throws.
ReadFails(c) ==
    /\ \/ cpc[c] \in {"head", "body"} /\ sock \notin Usable
       \/ cpc[c] = "head" /\ sock \in Responded
    /\ Throws(c)
    /\ Goto(c, "stop")
    /\ UNCHANGED <<mutex, server, config, timer, sock, armed, bound>>

\* read's guard.  A wait that expired is out of reach.
StopTimer(c) ==
    /\ cpc[c] = "stop"
    /\ armed' = NoCall
    /\ Goto(c, "close")
    /\ UNCHANGED <<result, mutex, server, config, timer, sock, bound>>

\* Faulty: disconnects after a response only.
Disconnect_OnReturn(c) ==
    /\ cpc[c] = "close"
    /\ IF result[c] = Threw
       THEN UNCHANGED sock
       ELSE sock' = NoCall
    /\ UNCHANGED result
    /\ mutex' = NoCall
    /\ Goto(c, "ended")
    /\ UNCHANGED <<server, config, timer, armed, bound>>

\* The caller's guards: disconnect, then unlock.  unpack may throw before them.
Disconnect(c) ==
    /\ cpc[c] = "close"
    /\ sock' = NoCall
    /\ UNCHANGED result \/ Throws(c)
    /\ mutex' = NoCall
    /\ Goto(c, "ended")
    /\ UNCHANGED <<server, config, timer, armed, bound>>

-----------------------------------------------------------------------------
(* External: the far end of the connection the socket is open for. *)

Serve(k, from, to) ==
    /\ sock = k
    /\ srv[k] \in from
    /\ srv' = [srv EXCEPT ![k] = to]
    /\ UNCHANGED <<client, req, config, timer, sock, armed, bound>>

RespondHead(k) == req[k] # NoCall /\ Serve(k, {"open"}, "head")
RespondBody(k) == Serve(k, {"head"}, "sent")
ServerCloses(k) == Serve(k, {"open", "head"}, "closed")

-----------------------------------------------------------------------------
(* The timer thread. *)

\* The wait is over: the thread takes the handler from the timer's queue.
Expire ==
    /\ timer_thread = "running"
    /\ tpc = "idle"
    /\ armed # NoCall
    /\ armed' = NoCall
    /\ due' = armed
    /\ tpc' = "fired"
    /\ UNCHANGED <<client, server, config, left, sock, bound>>

\* The handler: a loop over func_vec_.
RunHandler ==
    /\ timer_thread = "running"
    /\ tpc = "fired"
    /\ tpc' = "loop"
    /\ left' = bound
    /\ UNCHANGED <<client, server, config, due, sock, armed, bound>>

\* Each function is disconnect(): is_open ...
TestOpen ==
    /\ tpc = "loop"
    /\ left > 0
    /\ IF sock # NoCall THEN tpc' = "close" /\ UNCHANGED left
                        ELSE left' = left - 1 /\ UNCHANGED tpc
    /\ UNCHANGED <<client, server, config, due, sock, armed, bound>>

\* ... then shutdown and close, whatever the socket holds by now.
TimerClose ==
    /\ tpc = "close"
    /\ sock' = NoCall
    /\ left' = left - 1
    /\ tpc' = "loop"
    /\ UNCHANGED <<client, server, config, due, armed, bound>>

HandlerReturns ==
    /\ tpc = "loop"
    /\ left = 0
    /\ tpc' = "idle"
    /\ due' = NoCall
    /\ UNCHANGED <<client, server, config, left, sock, armed, bound>>

\* client::stop joins the timer thread, which finishes the handler it is in.
Stop ==
    /\ timer_thread = "running"
    /\ tpc \in {"idle", "fired"}
    /\ timer_thread' = "stopped"
    /\ UNCHANGED <<client, server, timed, timer, sock, armed, bound>>

-----------------------------------------------------------------------------
Caller(c) == \/ Connect(c) \/ ConnectFails(c) \/ Write(c) \/ WriteFails(c)
             \/ StartTimer(c) \/ ReadHead(c) \/ ReadBody(c) \/ ReadFails(c)
             \/ StopTimer(c) \/ Disconnect(c)

TimerThread == Expire \/ RunHandler \/ TestOpen \/ TimerClose \/ HandlerReturns

Next == \/ \E c \in Call : \/ BeginCall(c) \/ Lock(c)
                           \/ Connect(c) \/ ConnectFails(c) \/ Write(c)
                           \/ WriteFails(c) \/ StartTimer(c) \/ ReadHead(c)
                           \/ ReadBody(c) \/ ReadFails(c) \/ StopTimer(c)
                           \/ Disconnect(c)
        \/ \E k \in Call : RespondHead(k) \/ RespondBody(k) \/ ServerCloses(k)
        \/ Expire \/ RunHandler \/ TestOpen \/ TimerClose \/ HandlerReturns
        \/ Stop

Spec == Init /\ [][Next]_vars

\* A caller that can go on does; one that wants the mutex gets it if it is free
\* again and again; time passes and the timer thread runs.  The system's
\* connect and write return.  The server need not do anything.
Fairness == /\ \A c \in Call : SF_vars(Lock(c)) /\ WF_vars(Caller(c))
            /\ WF_vars(TimerThread)

FairSpec == Spec /\ Fairness

-----------------------------------------------------------------------------
(* Properties *)

\* Every variable of the client keeps its type; at most one function per call is
\* bound to the timer.
TypeOK == /\ cpc \in [Call -> CallPC]
          /\ result \in [Call -> Call \cup {NoCall, Threw}]
          /\ mutex \in Call \cup {NoCall}
          /\ sock \in Call \cup {NoCall}
          /\ srv \in [Call -> {"none", "open", "refused", "head", "sent", "closed"}]
          /\ req \in [Call -> Call \cup {NoCall}]
          /\ timed \in BOOLEAN
          /\ timer_thread \in {"none", "running", "stopped"}
          /\ armed \in Call \cup {NoCall}
          /\ bound \in 0..Cardinality(Call)
          /\ tpc \in {"idle", "fired", "loop", "close"}
          /\ left \in 0..Cardinality(Call)
          /\ due \in Call \cup {NoCall}

\* A call that returns has the response to its own request, although all calls
\* share one socket and the timer thread closes it under them.
OwnResponse == \A c \in Call : cpc[c] = "ended" => result[c] \in {c, Threw}

\* However a call ends, the next one finds no connection: while the mutex is
\* free the socket is closed, unless connect itself failed.
ClosedBetweenCalls ==
    mutex = NoCall /\ sock # NoCall => srv[sock] = "refused"

\* The timer waits only for the call that reads under it; no call leaves its
\* wait running for the next one.
TimerBelongsToReader ==
    armed # NoCall => mutex = armed /\ cpc[armed] \in {"head", "body", "stop"}

\* With a timeout and the timer thread running, every call ends, the calls that
\* wait for the mutex behind a silent server's included.
TimedCallEnds ==
    \A c \in Call : (timed /\ cpc[c] = "lock")
                        ~> (cpc[c] = "ended" \/ timer_thread # "running")

\* A call's connection is closed by the timer only if that call's own time was
\* up: timeout(5000) in README.md:74 covers three calls that follow each other.
TimeoutHitsOwnCall == [][TimerClose => sock \in {NoCall, due}]_vars
=============================================================================
