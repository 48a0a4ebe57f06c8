-------------------------------- MODULE Server --------------------------------
(***************************************************************************)
(* easyrpc/server/server.hpp and io_service_pool.hpp with what they hold   *)
(* together: the accept loop on the first io_service, the connections      *)
(* dealt out to the io_services in turn, one io thread per io_service, the *)
(* pool of the router, and the end of the process: ~server, then ~router.  *)
(*                                                                         *)
(* A handler completes when its thread gets to it: completion and handler  *)
(* are one step (Connection tells them apart), and so are the two reads of *)
(* a request.  timeout_milli_ is 0, as in test/server/main.cpp.            *)
(*                                                                         *)
(* What add_task does on an io thread is what matters here: it blocks, and *)
(* the room a worker makes by popping wakes nobody.  task_put_ is notified *)
(* when a task has returned, which a write to a client that does not read  *)
(* may never do.  The test of the queue and the sleep are one step: the    *)
(* mutex keeps the queue as it was tested, and a notification that falls   *)
(* between the two is lost like one that came before the test.             *)
(***************************************************************************)
EXTENDS Naturals, Sequences, FiniteSets, Functions

CONSTANTS Client,    \* the clients; each connects at most once
          Mute,      \* those that never read their response
          NoClient,
          ios_size,  \* hardware_concurrency(): the size of ios_vec_
          thread_num,
          max_task_quque_size  \* [sic]

ASSUME ServerAssumption == /\ Mute \subseteq Client
                           /\ NoClient \notin Client
                           /\ ios_size \in Nat \ {0}
                           /\ thread_num \in Nat \ {0}
                           /\ max_task_quque_size \in Nat \ {0}
                           /\ IsFiniteSet(Mute)

VARIABLES life,      \* how far main has come
          next_io_service,
          accepting, \* async_accept is pending
          slot,      \* the io_service of the connection it is pending for
          phase,     \* the state of each client's connection
          home,      \* the io_service that runs its handlers, 0 if it has none
          adding,    \* for each io thread, the client whose request add_task
                     \* keeps it with, if any
          asleep,    \* the io threads that wait on task_put_
          waiting, running, closed, \* the pool: its queue, what the workers
                     \* run, the stop flag
          missed     \* a worker sleeps through the stop

main  == <<life, next_io_service, accepting, slot>>
block == <<adding, asleep>>
pool  == <<waiting, running, closed, missed>>
conns == <<phase, home>>
vars  == <<main, conns, block, pool>>

Ios == 0..ios_size - 1

\* backlog: connected, not accepted; reading: in read_head or
\* read_protocol_and_body; ready: the request is there; adding: an io thread is
\* in add_task with it; task: the pool has it; gone: the connection is destroyed.
Phase == {"new", "backlog", "reading", "ready", "adding", "task", "gone"}

\* Faulty: does not start again from the first.
Rotate_NoWrap(i) == i + 1

\* get_io_service.
Rotate(i) == IF i + 1 = ios_size THEN 0 ELSE i + 1

\* The constructor gives the acceptor the first io_service.
Init == /\ life = "new"
        /\ next_io_service = Rotate(0)
        /\ accepting = FALSE
        /\ slot = 0
        /\ phase = [c \in Client |-> "new"]
        /\ home = [c \in Client |-> 0]
        /\ adding = [i \in Ios |-> NoClient]
        /\ asleep = {}
        /\ waiting = <<>>
        /\ running = {}
        /\ closed = FALSE
        /\ missed = FALSE

-----------------------------------------------------------------------------
\* accept(): a connection on the next io_service, and async_accept.
ArmAccept == /\ accepting' = TRUE
             /\ slot' = next_io_service
             /\ next_io_service' = Rotate(next_io_service)

\* run(): the workers, the acceptor, the io threads.
Run == /\ life = "new"
       /\ life' = "running"
       /\ ArmAccept
       /\ UNCHANGED <<conns, block, pool>>

\* listen() throws: there are workers, but no io thread; main goes on to its end.
RunFails == /\ life = "new"
            /\ life' = "failed"
            /\ UNCHANGED <<next_io_service, accepting, slot, conns, block, pool>>

-----------------------------------------------------------------------------
(* External: the clients.  Those that connect after the stop fare like the backlog. *)

Connect(c) == /\ phase[c] = "new"
              /\ life = "running"
              /\ phase' = [phase EXCEPT ![c] = "backlog"]
              /\ UNCHANGED <<main, home, block, pool>>

Request(c) == /\ phase[c] = "reading"
              /\ phase' = [phase EXCEPT ![c] = "ready"]
              /\ UNCHANGED <<main, home, block, pool>>

-----------------------------------------------------------------------------
(* The io threads.  Thread i runs the handlers of io_service i, one at a time, *)
(* until the io_service is stopped.                                            *)

Free(i) == life = "running" /\ adding[i] = NoClient

\* The accept handler, and accept() again.
Accept(c) == /\ Free(0)
             /\ accepting
             /\ phase[c] = "backlog"
             /\ phase' = [phase EXCEPT ![c] = "reading"]
             /\ home' = [home EXCEPT ![c] = slot]
             /\ ArmAccept
             /\ UNCHANGED <<life, block, pool>>

\* Faulty: gives up after an error.
AcceptFails_Once == /\ Free(0)
                    /\ accepting
                    /\ accepting' = FALSE
                    /\ UNCHANGED <<life, next_io_service, slot, conns, block, pool>>

\* It got an error, no descriptor left for instance: accept() again all the same.
AcceptFails == /\ Free(0)
               /\ accepting
               /\ ArmAccept
               /\ UNCHANGED <<life, conns, block, pool>>

\* A read's handler: end of file, another error, or a request that check_head or
\* route refuses.
Reject(c) == /\ Free(home[c])
             /\ phase[c] \in {"reading", "ready"}
             /\ phase' = [phase EXCEPT ![c] = "gone"]
             /\ home' = [home EXCEPT ![c] = 0]
             /\ UNCHANGED <<main, block, pool>>

Full == Len(waiting) >= max_task_quque_size

\* The task is queued; task_get_.notify_one is in Execute's fairness.
Enqueue(c) == /\ waiting' = Append(waiting, c)
              /\ phase' = [phase EXCEPT ![c] = "task"]
              /\ home' = [home EXCEPT ![c] = 0]
              /\ UNCHANGED <<main, asleep, running, closed, missed>>

\* The handler routes the request and add_task has room ...
Route(c) == /\ Free(home[c])
            /\ phase[c] = "ready"
            /\ ~Full
            /\ Enqueue(c)
            /\ UNCHANGED adding

\* ... or has not, and the io thread sleeps in it.
RouteBlocked(c) == /\ Free(home[c])
                   /\ phase[c] = "ready"
                   /\ Full
                   /\ phase' = [phase EXCEPT ![c] = "adding"]
                   /\ adding' = [adding EXCEPT ![home[c]] = c]
                   /\ asleep' = asleep \cup {home[c]}
                   /\ UNCHANGED <<main, home, pool>>

Woken(i) == adding[i] # NoClient /\ i \notin asleep

\* A woken io thread tests the queue again.  It goes on if there is room, or the
\* flag is set ...
Added(i) == /\ Woken(i)
            /\ ~Full \/ closed
            /\ Enqueue(adding[i])
            /\ adding' = [adding EXCEPT ![i] = NoClient]

\* ... or sleeps again, if another one has taken the room.
BlockedAgain(i) == /\ Woken(i)
                   /\ Full /\ ~closed
                   /\ asleep' = asleep \cup {i}
                   /\ UNCHANGED <<main, conns, adding, pool>>

-----------------------------------------------------------------------------
(* The workers. *)

\* A worker that runs nothing takes the next task.  The room it makes is
\* announced to nobody.
Execute == /\ Cardinality(running) < thread_num
           /\ ~closed
           /\ waiting # <<>>
           /\ running' = running \cup {Head(waiting)}
           /\ waiting' = Tail(waiting)
           /\ UNCHANGED <<main, conns, block, closed, missed>>

\* task_put_.notify_one: any one of the sleepers, none if none.
NotifyPut == asleep' \in IF asleep = {} THEN {{}} ELSE {asleep \ {i} : i \in asleep}

\* Faulty: forgets to notify.
Answer_Silent(c) == /\ c \in running
                    /\ running' = running \ {c}
                    /\ phase' = [phase EXCEPT ![c] = "gone"]
                    /\ UNCHANGED <<main, home, block, waiting, closed, missed>>

\* The handler returned or threw, write is done or failed; the worker notifies and
\* is done with the task.  For a client that does not read, write fails when that
\* client leaves, if it ever does.
Answer(c) == /\ c \in running
             /\ running' = running \ {c}
             /\ phase' = [phase EXCEPT ![c] = "gone"]
             /\ NotifyPut
             /\ UNCHANGED <<main, home, adding, waiting, closed, missed>>

\* A wait may also return without a notification.
SpuriousPut(i) == /\ i \in asleep
                  /\ asleep' = asleep \ {i}
                  /\ UNCHANGED <<main, conns, adding, pool>>

SpuriousGet == /\ missed
               /\ missed' = FALSE
               /\ UNCHANGED <<main, conns, block, waiting, running, closed>>

-----------------------------------------------------------------------------
(* The end of main and of the process. *)

\* Faulty: stops the router's pool first.
StopIoServices_PoolFirst == /\ life \in {"running", "failed"}
                            /\ life' = "stopping"
                            /\ closed' = TRUE
                            /\ UNCHANGED <<next_io_service, accepting, slot, conns, block,
                                           waiting, running, missed>>

\* ~server calls io_service_pool::stop: no further handler runs ...
StopIoServices == /\ life \in {"running", "failed"}
                  /\ life' = "stopping"
                  /\ UNCHANGED <<next_io_service, accepting, slot, conns, block, pool>>

\* Faulty: does not join.
StopThreads_Detached == /\ life = "stopping"
                        /\ life' = "joined"
                        /\ UNCHANGED <<next_io_service, accepting, slot, conns, block, pool>>

\* ... and the threads are joined, each after the handler it is in.
StopThreads == /\ life = "stopping"
               /\ \A i \in Ios : adding[i] = NoClient
               /\ life' = "joined"
               /\ UNCHANGED <<next_io_service, accepting, slot, conns, block, pool>>

\* The acceptor and the io_services go, and with them the handlers they hold and
\* the connections of those.
DestroyServices ==
    /\ life = "joined"
    /\ life' = "destroyed"
    /\ accepting' = FALSE
    /\ phase' = [c \in Client |-> IF phase[c] \in {"backlog", "reading", "ready"}
                                  THEN "gone" ELSE phase[c]]
    /\ home' = [c \in Client |-> 0]
    /\ UNCHANGED <<next_io_service, slot, block, pool>>

\* ~router stops the pool: no worker takes another task.  One that was between its
\* test of the empty queue, with the mutex, and its wait misses flag and notify_all.
StopPool == /\ life = "destroyed"
            /\ life' = "exiting"
            /\ closed' = TRUE
            /\ missed' \in {FALSE, waiting = <<>> /\ Cardinality(running) < thread_num}
            /\ UNCHANGED <<next_io_service, accepting, slot, conns, block, waiting, running>>

\* Faulty: waits for the queue as well.
CleanTaskQueue_Drained ==
    /\ life = "exiting"
    /\ running = {} /\ ~missed
    /\ waiting = <<>>
    /\ life' = "ended"
    /\ UNCHANGED <<next_io_service, accepting, slot, conns, block, pool>>

\* The workers are joined, and the tasks that were left go with their connections.
CleanTaskQueue ==
    /\ life = "exiting"
    /\ running = {} /\ ~missed
    /\ life' = "ended"
    /\ waiting' = <<>>
    /\ phase' = [c \in Client |-> IF phase[c] = "task" THEN "gone" ELSE phase[c]]
    /\ UNCHANGED <<next_io_service, accepting, slot, home, block, running, closed, missed>>

-----------------------------------------------------------------------------
Next == \/ Run \/ RunFails
        \/ \E c \in Client : Connect(c) \/ Request(c)
        \/ \E c \in Client : Accept(c) \/ Reject(c) \/ Route(c) \/ RouteBlocked(c)
        \/ AcceptFails
        \/ \E i \in Ios : Added(i) \/ BlockedAgain(i) \/ SpuriousPut(i)
        \/ Execute
        \/ \E c \in Client : Answer(c)
        \/ SpuriousGet
        \/ StopIoServices \/ StopThreads \/ DestroyServices \/ StopPool
        \/ CleanTaskQueue

Spec == Init /\ [][Next]_vars

\* accept does not fail for ever, and no io thread that is free again and again
\* neglects the requests that are there; one that was woken in add_task tests the
\* queue again, and a worker that runs nothing takes what is queued (NoTaskStranded:
\* it does not sleep on it, whatever becomes of the tasks that run); handlers
\* return; main, once it has begun to stop, goes on.  No client has to send
\* anything, no mute one to leave, and no wait returns without a notification.
Fairness ==
    /\ SF_vars(\E c \in Client : Accept(c))
    /\ \A i \in Ios : /\ SF_vars(\E c \in Client :
                                  /\ phase[c] = "ready" /\ home[c] = i
                                  /\ Reject(c) \/ Route(c) \/ RouteBlocked(c))
                      /\ WF_vars(Added(i) \/ BlockedAgain(i))
    /\ WF_vars(Execute)
    /\ \A c \in Client \ Mute : WF_vars(Answer(c))
    /\ WF_vars(StopThreads \/ DestroyServices \/ StopPool \/ CleanTaskQueue)

FairSpec == Spec /\ Fairness

-----------------------------------------------------------------------------
(* Properties *)

\* Every variable of the server keeps its type: the index of get_io_service never
\* leaves ios_vec_, and the queue its bound.
TypeOK == /\ life \in {"new", "running", "failed", "stopping", "joined",
                       "destroyed", "exiting", "ended"}
          /\ next_io_service \in Ios /\ slot \in Ios
          /\ accepting \in BOOLEAN
          /\ phase \in [Client -> Phase]
          /\ home \in [Client -> Ios]
          /\ adding \in [Ios -> Client \cup {NoClient}]
          /\ asleep \subseteq {i \in Ios : adding[i] # NoClient}
          /\ waiting \in Seq(Client) /\ Len(waiting) <= max_task_quque_size
          /\ running \subseteq Client /\ closed \in BOOLEAN /\ missed \in BOOLEAN

\* A connection lives, with a socket of its io_service.
Alive(c) == phase[c] \in {"reading", "ready", "adding", "task"}

\* Joining the io threads before the io_services go leaves only those connections
\* behind that belong to a task: none is left with an io thread or a handler.
OrphansAreTasks ==
    life \in {"destroyed", "exiting"} =>
        \A c \in Client : Alive(c) => c \in Range(waiting) \cup running

\* Fewer clients that do not read than workers, and than places in the queue.
FewMute == /\ Cardinality(Mute) < thread_num
           /\ Cardinality(Mute) < max_task_quque_size

\* A step is due that leads to a notification on task_put_ or answers one.  Room in
\* the queue is none.
CanMove == \/ \E i \in Ios : Woken(i)
           \/ waiting # <<>> /\ Cardinality(running) < thread_num
           \/ running \ Mute # {}

\* No io thread sleeps in add_task for ever.  run_task frees a place when it pops
\* and notifies only when the task returned, so a task that never returns costs one
\* wake-up; while there are fewer of those than places, some are still filled, and
\* what fills them will run and return.  And the pool, whose stop notifies no
\* producer, is never stopped under one.
NoServiceDeadlock == asleep # {} => ~closed /\ (FewMute => CanMove)

\* A client that does not read its response costs the server one worker and one
\* wake-up, and none of the others its service: whoever connects is accepted,
\* although accept may fail and the io thread that accepts may be kept in add_task ...
ClientAccepted ==
    FewMute => \A c \in Client : phase[c] = "backlog" ~> (phase[c] # "backlog" \/ life # "running")

\* ... and whoever sent a request and reads is answered or turned away.
RequestServed ==
    FewMute => \A c \in Client \ Mute :
                  phase[c] = "ready" ~> (phase[c] = "gone" \/ life # "running")

\* Under the same condition server::stop returns: the workers that still run make
\* room for every io thread that is kept in add_task, and tell it.
StopReturns == FewMute => life = "stopping" ~> life = "joined"

\* The process ends, unless a worker slept through the stop of the pool, or is kept
\* by a client that neither reads nor leaves: what is queued is not waited for.
ProcessEnds ==
    life = "exiting" ~> (life = "ended" \/ missed \/ Mute \cap running # {})

\* No connection outlives the io_service its socket belongs to: README.md:54-57
\* has main return while calls may be under way.
NoOrphan ==
    life \in {"destroyed", "exiting"} => \A c \in Client : ~Alive(c)
=============================================================================
