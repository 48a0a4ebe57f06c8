------------------------------ MODULE Connection ------------------------------
(***************************************************************************)
(* easyrpc/server/connection.hpp with base/atimer.hpp: the life of the     *)
(* server's connections, from the accept handler's start() to their        *)
(* destruction.  A connection is shared: its read handler, the task it was *)
(* routed to and the function bound to its own timer each hold a           *)
(* shared_ptr to it, and its destructor runs when the last one goes.       *)
(*                                                                         *)
(* Its handlers run one at a time on the io thread of its io_service; a    *)
(* routed request runs on a worker thread at the same time as they do.  An *)
(* asynchronous operation completes first (its handler is queued in the    *)
(* io_service, its outcome is fixed) and its handler runs later: between   *)
(* the two other handlers run, and the operation can no longer be          *)
(* cancelled.  asio and the sockets are modelled from that use.            *)
(*                                                                         *)
(* The pool is seen as what it promises: a routed request waits, then one  *)
(* worker runs it (TaskQueue).  Stopping it is left to ThreadPool.         *)
(***************************************************************************)
EXTENDS Naturals

CONSTANTS Conn,   \* the connections the server accepts
          Timed   \* those with timeout_milli_ # 0

ASSUME TimedAssumption == Timed \subseteq Conn

VARIABLES conn,   \* the state of each connection
          peer    \* external: what each client's end of the socket does

vars == <<conn, peer>>

\* head, body: in read_head, read_protocol_and_body; queued: routed, waiting for
\* a worker; exec: a worker is in invoker_function's operator(), before the
\* write; write: part of the response is sent; done: nothing is under way.
Phase == {"unborn", "head", "body", "queued", "exec", "write", "done"}

ConnState == [phase : Phase,
              sock  : {"open", "closed"},
              rd    : {"none", "pending", "ok", "err"},  \* the async_read
              timer : {"off", "armed", "fired"},         \* timer_'s async_wait
              bound : BOOLEAN,                           \* func_vec_ holds self
              alive : BOOLEAN]                           \* constructed, not destroyed

Unborn == [phase |-> "unborn", sock |-> "closed", rd |-> "none",
           timer |-> "off", bound |-> FALSE, alive |-> FALSE]

Init == /\ conn = [c \in Conn |-> Unborn]
        /\ peer = [c \in Conn |-> "up"]

-----------------------------------------------------------------------------
(* The member functions, as maps from a connection's state to the next. *)

\* close() makes a pending read complete with operation_aborted.
Disconnect(r) == [r EXCEPT !.sock = "closed",
                           !.rd = IF @ = "pending" THEN "err" ELSE @]

\* Faulty: the bound function captures `this` alone.
StartTimer_RawThis(c, r) ==
    IF c \in Timed THEN [r EXCEPT !.timer = "armed"] ELSE r

\* Faulty: starts the timer whatever timeout_milli_ is.
StartTimer_Always(c, r) == [r EXCEPT !.timer = "armed", !.bound = TRUE]

\* The bound function captures self and is never unbound.
StartTimer(c, r) ==
    IF c \in Timed THEN [r EXCEPT !.timer = "armed", !.bound = TRUE] ELSE r

\* cancel() does nothing to a wait whose handler is already queued.
StopTimer(r) == [r EXCEPT !.timer = IF @ = "armed" THEN "off" ELSE @]

\* No handler, no task and no bound function refers to the connection.
Unheld(r) == /\ r.rd = "none"
             /\ r.phase \notin {"queued", "exec", "write"}
             /\ ~r.bound

\* A shared_ptr goes; the last one takes the connection with it.
Release(r) == IF Unheld(r)
              THEN [Disconnect(StopTimer(r)) EXCEPT !.alive = FALSE]
              ELSE r

\* The end of a handler, and of what the connection was doing.
Finish(r) == Release([r EXCEPT !.phase = "done", !.rd = "none"])

-----------------------------------------------------------------------------
\* start(), from the accept handler.
Start(c) ==
    /\ conn[c].phase = "unborn"
    /\ conn' = [conn EXCEPT ![c] =
                   StartTimer(c, [@ EXCEPT !.phase = "head", !.sock = "open",
                                           !.rd = "pending", !.alive = TRUE])]
    /\ UNCHANGED peer

\* External: all the bytes the pending async_read asked for are there.
Arrive(c) ==
    /\ conn[c].rd = "pending"
    /\ conn' = [conn EXCEPT ![c].rd = "ok"]
    /\ UNCHANGED peer

\* External: end of file or reset instead.
ReadFails(c) ==
    /\ conn[c].rd = "pending"
    /\ peer[c] = "gone"
    /\ conn' = [conn EXCEPT ![c].rd = "err"]
    /\ UNCHANGED peer

\* External: the client closes its socket, or its process ends.  There is no keepalive: of
\* a host that vanishes the server learns nothing.
PeerGone(c) ==
    /\ conn[c].phase # "unborn"
    /\ peer[c] = "up"
    /\ peer' = [peer EXCEPT ![c] = "gone"]
    /\ UNCHANGED conn

\* Faulty: the scope guard of the head's handler is not dismissed as a whole.
HeadRead_StopsTimer(c) ==
    /\ conn[c].phase = "head"
    /\ conn[c].rd = "ok"
    /\ conn[c].sock = "open"
    /\ conn' = [conn EXCEPT ![c] =
                   StopTimer([@ EXCEPT !.phase = "body", !.rd = "pending"])]
    /\ UNCHANGED peer

\* The head's handler, check_head true: the timer keeps running.
HeadRead(c) ==
    /\ conn[c].phase = "head"
    /\ conn[c].rd = "ok"
    /\ conn[c].sock = "open"
    /\ conn' = [conn EXCEPT ![c].phase = "body", ![c].rd = "pending"]
    /\ UNCHANGED peer

\* Faulty: leaves the socket to the destructor.
HeadRejected_NoDisconnect(c) ==
    /\ conn[c].phase = "head"
    /\ conn[c].rd \in {"ok", "err"}
    /\ conn' = [conn EXCEPT ![c] = Finish(StopTimer(@))]
    /\ UNCHANGED peer

\* The head's handler otherwise: the socket was closed meanwhile, the read
\* failed, or check_head is false.
HeadRejected(c) ==
    /\ conn[c].phase = "head"
    /\ conn[c].rd \in {"ok", "err"}
    /\ conn' = [conn EXCEPT ![c] = Finish(Disconnect(StopTimer(@)))]
    /\ UNCHANGED peer

\* Faulty: the scope guard is not dismissed.
Route_NotDismissed(c) ==
    /\ conn[c].phase = "body"
    /\ conn[c].rd = "ok"
    /\ conn[c].sock = "open"
    /\ conn' = [conn EXCEPT ![c] =
                   Disconnect(StopTimer([@ EXCEPT !.phase = "queued", !.rd = "none"]))]
    /\ UNCHANGED peer

\* Faulty: stop_timer is left to the failing branches.
Route_KeepsTimer(c) ==
    /\ conn[c].phase = "body"
    /\ conn[c].rd = "ok"
    /\ conn[c].sock = "open"
    /\ conn' = [conn EXCEPT ![c].phase = "queued", ![c].rd = "none"]
    /\ UNCHANGED peer

\* The body's handler, route() true: the task shares the connection.
Route(c) ==
    /\ conn[c].phase = "body"
    /\ conn[c].rd = "ok"
    /\ conn[c].sock = "open"
    /\ conn' = [conn EXCEPT ![c] =
                   StopTimer([@ EXCEPT !.phase = "queued", !.rd = "none"])]
    /\ UNCHANGED peer

\* The body's handler otherwise: the socket was closed meanwhile, the read
\* failed, or route() is false (no such protocol, no such mode).
BodyRejected(c) ==
    /\ conn[c].phase = "body"
    /\ conn[c].rd \in {"ok", "err"}
    /\ conn' = [conn EXCEPT ![c] = Finish(Disconnect(StopTimer(@)))]
    /\ UNCHANGED peer

\* External: timeout_milli_ has passed.
TimerExpires(c) ==
    /\ conn[c].timer = "armed"
    /\ conn' = [conn EXCEPT ![c].timer = "fired"]
    /\ UNCHANGED peer

\* The handler of async_wait calls the bound function: disconnect().
TimerHandler(c) ==
    /\ conn[c].timer = "fired"
    /\ conn' = [conn EXCEPT ![c] = Disconnect([@ EXCEPT !.timer = "off"])]
    /\ UNCHANGED peer

-----------------------------------------------------------------------------
\* A worker runs the task: invoker_function::operator().
Execute(c) ==
    /\ conn[c].phase = "queued"
    /\ conn' = [conn EXCEPT ![c].phase = "exec"]
    /\ UNCHANGED peer

\* Faulty: answers before the handler has run.
WriteFirst_Early(c) ==
    /\ conn[c].phase \in {"queued", "exec"}
    /\ conn[c].sock = "open"
    /\ conn' = [conn EXCEPT ![c].phase = "write"]
    /\ UNCHANGED peer

\* write(): the socket takes the first part of the response ...
WriteFirst(c) ==
    /\ conn[c].phase = "exec"
    /\ conn[c].sock = "open"
    /\ conn' = [conn EXCEPT ![c].phase = "write"]
    /\ UNCHANGED peer

\* ... and the rest, for which a client that does not read can make it wait for
\* ever.  The socket stays open unless the task was the last holder.
WriteRest(c) ==
    /\ conn[c].phase = "write"
    /\ conn[c].sock = "open"
    /\ conn' = [conn EXCEPT ![c] = Finish(@)]
    /\ UNCHANGED peer

\* Faulty: a task that failed is put back into the queue.
Throw_Requeues(c) ==
    /\ \/ conn[c].phase = "exec"
       \/ conn[c].phase = "write" /\ (conn[c].sock = "closed" \/ peer[c] = "gone")
    /\ conn' = [conn EXCEPT ![c] = [Disconnect(@) EXCEPT !.phase = "queued"]]
    /\ UNCHANGED peer

\* The parser or the handler throws, the result is too big, or the socket was
\* closed at either end: operator() catches and disconnects.
Throw(c) ==
    /\ \/ conn[c].phase = "exec"
       \/ conn[c].phase = "write" /\ (conn[c].sock = "closed" \/ peer[c] = "gone")
    /\ conn' = [conn EXCEPT ![c] = Finish(Disconnect(@))]
    /\ UNCHANGED peer

-----------------------------------------------------------------------------
IoThread(c) == HeadRead(c) \/ HeadRejected(c) \/ Route(c) \/ BodyRejected(c)

Next == \E c \in Conn :
           \/ Start(c) \/ Arrive(c) \/ ReadFails(c) \/ PeerGone(c)
           \/ HeadRead(c) \/ HeadRejected(c) \/ Route(c) \/ BodyRejected(c)
           \/ TimerExpires(c) \/ TimerHandler(c)
           \/ Execute(c) \/ WriteFirst(c) \/ WriteRest(c) \/ Throw(c)

Spec == Init /\ [][Next]_vars

\* The io thread runs queued handlers, time passes, workers run what is routed.
\* Nothing makes a client send, read or leave; once it left, its socket gives
\* an answer to a read or a write.
Fairness ==
    \A c \in Conn : /\ WF_vars(IoThread(c))
                    /\ WF_vars(ReadFails(c))
                    /\ WF_vars(TimerExpires(c)) /\ WF_vars(TimerHandler(c))
                    /\ WF_vars(Execute(c))
                    /\ WF_vars(conn[c].phase = "exec" /\ (WriteFirst(c) \/ Throw(c)))
                    /\ WF_vars(Throw(c) /\ conn[c].phase = "write")

FairSpec == Spec /\ Fairness

-----------------------------------------------------------------------------
(* Properties *)

Reading(c) == conn[c].phase \in {"head", "body"}
Routed(c)  == conn[c].phase \in {"queued", "exec", "write"}

\* Every connection keeps its type, and one without a timeout has no timer.
TypeOK == /\ conn \in [Conn -> ConnState]
          /\ peer \in [Conn -> {"up", "gone"}]
          /\ \A c \in Conn \ Timed : conn[c].timer = "off" /\ ~conn[c].bound

\* A read that waits for the client is never left without its timeout: from
\* read_head to the end of read_protocol_and_body the timer runs or its handler
\* is queued, as long as the socket is open.
ReadGuarded ==
    \A c \in Timed : Reading(c) /\ conn[c].sock = "open" => conn[c].timer # "off"

\* atimer's wait handler captures a raw `this`: whenever a wait is pending or
\* its handler is queued, the connection that holds the timer still exists.
NoDanglingTimer ==
    \A c \in Conn : conn[c].timer # "off" => conn[c].alive

\* The timeout is a timeout of reads (README.md:61): from routing on it no longer
\* runs, so that only a handler that was queued before can still come.
TimerStopsWithRead ==
    \A c \in Conn : conn[c].timer = "armed" => Reading(c)

\* Nothing on the server closes the socket under a worker that has yet to answer,
\* but the handler of a timeout that had expired by the time the request was routed:
\* stop_timer cannot call it back.  A request whose socket was closed before the
\* read's handler ran is not routed at all: nobody could receive the response.
OnlyLateTimerCloses ==
    [][\A c \in Conn : Routed(c)' =>
           /\ conn'[c].sock = "closed" =>
                  Routed(c) /\ (conn[c].sock = "closed" \/ conn[c].timer = "fired")
           /\ Routed(c) /\ conn'[c].timer = "fired" => conn[c].timer = "fired"]_vars

\* With a timeout a silent client cannot occupy the server: every read ends
\* with the request routed or the socket closed.
ReadEnds ==
    \A c \in Timed : Reading(c) ~> (Routed(c) \/ conn[c].sock = "closed")

\* Without a timeout, a connection whose client left is destroyed, wherever the
\* client left it; the server keeps no descriptor of it.
PeerGoneReleased ==
    \A c \in Conn \ Timed : peer[c] = "gone" ~> ~conn[c].alive

\* With a timeout too, the server closes the socket of a client that left: a
\* connection lasts for one call (README.md:83).
PeerGoneClosed ==
    \A c \in Conn : peer[c] = "gone" ~> conn[c].sock = "closed"
=============================================================================
