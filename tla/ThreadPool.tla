------------------------------ MODULE ThreadPool ------------------------------
(***************************************************************************)
(* easyrpc/base/thread_pool.hpp: the worker pool that router::route hands  *)
(* every request to.  One mutex guards the queue; task_get_ is the         *)
(* condition variable of the workers, task_put_ that of the producers (the *)
(* io threads inside add_task).  The stop flag is atomic and is written    *)
(* WITHOUT the mutex, so it may change between a thread's test of its wait *)
(* condition and its sleep.                                                *)
(*                                                                         *)
(* Granularity: what a thread does between locking and unlocking the mutex *)
(* is one step, except that a thread that found its wait condition true    *)
(* keeps the mutex until the separate step in which it goes to sleep.  The *)
(* flag is read once per critical section: a later read of it inside the   *)
(* section commutes with the lock operation.                               *)
(***************************************************************************)
EXTENDS Integers, Sequences, FiniteSets, Functions

CONSTANTS Task,                 \* the closures add_task is called with
          NoTask,               \* a worker or producer that holds none
          Producer,             \* threads that call add_task
          Worker,               \* threads init_thread_num may create
          Stopper,              \* threads that call stop
          max_task_quque_size,  \* [sic]
          max_thread_size

ASSUME PoolAssumption == /\ NoTask \notin Task
                         /\ IsFiniteSet(Producer) /\ IsFiniteSet(Worker)
                         /\ max_task_quque_size \in Nat \ {0}
                         /\ max_thread_size \in Nat \ {0}

VARIABLES task_queue,   \* task_queue_
          is_stop,      \* is_stop_threadpool_
          call_flag,    \* call_flag_: the state of std::call_once
          thread_vec,   \* thread_vec_: the threads stop has to join
          wpc, wtask,   \* where each worker is in run_task, and its `task`
          ppc, ptask,   \* where each producer is in add_task, and its task
          spc,          \* where each caller of stop is
          fresh,        \* tasks add_task was not called with yet
          executed      \* tasks that ran to their end

vars == <<task_queue, is_stop, call_flag, thread_vec, wpc, wtask, ppc, ptask,
          spc, fresh, executed>>

\* unborn: no such thread yet; fetch: wants the mutex, to test the queue;
\* towait: holds the mutex, about to sleep; putsig: task() returned, about to
\* signal task_put_.
WorkerPC   == {"unborn", "fetch", "towait", "asleep", "run", "putsig", "exited"}
\* put: wants the mutex, to add; getsig: added, about to signal task_get_.
ProducerPC == {"idle", "put", "towait", "asleep", "getsig"}
\* again: stop returned to it when all was done, as to ~thread_pool after ~router.
StopperPC  == {"idle", "notify", "join", "clean", "done", "again"}

\* Only a thread that is about to sleep keeps the mutex across steps.
MutexFree == /\ \A w \in Worker : wpc[w] # "towait"
             /\ \A p \in Producer : ppc[p] # "towait"

Full == Len(task_queue) = max_task_quque_size

Sleeping(pc) == {x \in DOMAIN pc : pc[x] = "asleep"}

\* condition_variable::notify_one: any one of the sleepers, none if none.
NotifyOne(pc, awake) == IF Sleeping(pc) = {} THEN {pc}
                        ELSE {[pc EXCEPT ![x] = awake] : x \in Sleeping(pc)}

Init == /\ task_queue = <<>>
        /\ is_stop = FALSE
        /\ call_flag = "new"
        /\ thread_vec = {}
        /\ wpc = [w \in Worker |-> "unborn"]
        /\ wtask = [w \in Worker |-> NoTask]
        /\ ppc = [p \in Producer |-> "idle"]
        /\ ptask = [p \in Producer |-> NoTask]
        /\ spc = [s \in Stopper |-> "idle"]
        /\ fresh = Task
        /\ executed = {}

-----------------------------------------------------------------------------
\* init_thread_num(num).  A num outside 1..max_thread_size throws before any
\* thread exists.  server::run calls it once per server on the one pool of the
\* process, and never after the pool's destructor began.
InitThreadNum(num) ==
    /\ call_flag = "new"
    /\ num \in 1..max_thread_size
    /\ \E S \in SUBSET {w \in Worker : wpc[w] = "unborn"} :
          /\ Cardinality(S) = num
          /\ thread_vec' = thread_vec \cup S
          /\ wpc' = [w \in Worker |-> IF w \in S THEN "fetch" ELSE wpc[w]]
    /\ UNCHANGED <<task_queue, is_stop, call_flag, wtask, ppc, ptask, spc,
                   fresh, executed>>

-----------------------------------------------------------------------------
\* add_task: a stopped pool drops the task without telling the caller.  The
\* flag is read before the mutex is taken.  server::run creates the workers
\* before the io threads that call add_task.
AddTask(p, t) ==
    /\ ppc[p] = "idle"
    /\ t \in fresh
    /\ \E w \in Worker : wpc[w] # "unborn"
    /\ fresh' = fresh \ {t}
    /\ IF is_stop
       THEN UNCHANGED <<ppc, ptask>>
       ELSE /\ ppc' = [ppc EXCEPT ![p] = "put"]
            /\ ptask' = [ptask EXCEPT ![p] = t]
    /\ UNCHANGED <<task_queue, is_stop, call_flag, thread_vec, wpc, wtask, spc,
                   executed>>

\* Faulty: queues the task object after it was moved from.
Put_MovedFrom(p) ==
    /\ ppc[p] = "put"
    /\ MutexFree
    /\ ~Full \/ is_stop
    /\ ptask' = [ptask EXCEPT ![p] = NoTask]
    /\ task_queue' = Append(task_queue, ptask'[p])
    /\ ppc' = [ppc EXCEPT ![p] = "getsig"]
    /\ UNCHANGED <<is_stop, call_flag, thread_vec, wpc, wtask, spc, fresh,
                   executed>>

\* Faulty: does not wait for room.
Put_Unbounded(p) ==
    /\ ppc[p] = "put"
    /\ MutexFree
    /\ task_queue' = Append(task_queue, ptask[p])
    /\ ptask' = [ptask EXCEPT ![p] = NoTask]
    /\ ppc' = [ppc EXCEPT ![p] = "getsig"]
    /\ UNCHANGED <<is_stop, call_flag, thread_vec, wpc, wtask, spc, fresh,
                   executed>>

\* add_task_impl: the bound is tested with == and gives way to the stop flag.
Put(p) ==
    /\ ppc[p] = "put"
    /\ MutexFree
    /\ ~Full \/ is_stop
    /\ task_queue' = Append(task_queue, ptask[p])
    /\ ptask' = [ptask EXCEPT ![p] = NoTask]
    /\ ppc' = [ppc EXCEPT ![p] = "getsig"]
    /\ UNCHANGED <<is_stop, call_flag, thread_vec, wpc, wtask, spc, fresh,
                   executed>>

PutBlocked(p) ==
    /\ ppc[p] = "put"
    /\ MutexFree
    /\ Full /\ ~is_stop
    /\ ppc' = [ppc EXCEPT ![p] = "towait"]
    /\ UNCHANGED <<task_queue, is_stop, call_flag, thread_vec, wpc, wtask,
                   ptask, spc, fresh, executed>>

\* task_put_.wait releases the mutex and sleeps.
PutSleep(p) ==
    /\ ppc[p] = "towait"
    /\ ppc' = [ppc EXCEPT ![p] = "asleep"]
    /\ UNCHANGED <<task_queue, is_stop, call_flag, thread_vec, wpc, wtask,
                   ptask, spc, fresh, executed>>

\* Faulty: forgets to notify.
NotifyGet_Silent(p) ==
    /\ ppc[p] = "getsig"
    /\ ppc' = [ppc EXCEPT ![p] = "idle"]
    /\ UNCHANGED <<task_queue, is_stop, call_flag, thread_vec, wpc, wtask,
                   ptask, spc, fresh, executed>>

\* task_get_.notify_one, after the mutex was released.
NotifyGet(p) ==
    /\ ppc[p] = "getsig"
    /\ ppc' = [ppc EXCEPT ![p] = "idle"]
    /\ wpc' \in NotifyOne(wpc, "fetch")
    /\ UNCHANGED <<task_queue, is_stop, call_flag, thread_vec, wtask, ptask,
                   spc, fresh, executed>>

-----------------------------------------------------------------------------
\* Faulty: leaves only when the queue is drained, which TakeTask does not do.
Quit_Drained(w) ==
    /\ wpc[w] = "fetch"
    /\ MutexFree
    /\ is_stop
    /\ task_queue = <<>>
    /\ wpc' = [wpc EXCEPT ![w] = "exited"]
    /\ UNCHANGED <<task_queue, is_stop, call_flag, thread_vec, wtask, ppc,
                   ptask, spc, fresh, executed>>

\* run_task: the flag wins over a queue that still holds tasks.
Quit(w) ==
    /\ wpc[w] = "fetch"
    /\ MutexFree
    /\ is_stop
    /\ wpc' = [wpc EXCEPT ![w] = "exited"]
    /\ UNCHANGED <<task_queue, is_stop, call_flag, thread_vec, wtask, ppc,
                   ptask, spc, fresh, executed>>

\* Faulty: forgets to pop.
TakeTask_NoPop(w) ==
    /\ wpc[w] = "fetch"
    /\ MutexFree
    /\ ~is_stop
    /\ task_queue # <<>>
    /\ wtask' = [wtask EXCEPT ![w] = Head(task_queue)]
    /\ wpc' = [wpc EXCEPT ![w] = "run"]
    /\ UNCHANGED <<task_queue, is_stop, call_flag, thread_vec, ppc, ptask, spc,
                   fresh, executed>>

\* Faulty: ignores the flag while the queue holds a task.
TakeTask_AfterStop(w) ==
    /\ wpc[w] = "fetch"
    /\ MutexFree
    /\ task_queue # <<>>
    /\ wtask' = [wtask EXCEPT ![w] = Head(task_queue)]
    /\ task_queue' = Tail(task_queue)
    /\ wpc' = [wpc EXCEPT ![w] = "run"]
    /\ UNCHANGED <<is_stop, call_flag, thread_vec, ppc, ptask, spc, fresh,
                   executed>>

TakeTask(w) ==
    /\ wpc[w] = "fetch"
    /\ MutexFree
    /\ ~is_stop
    /\ task_queue # <<>>
    /\ wtask' = [wtask EXCEPT ![w] = Head(task_queue)]
    /\ task_queue' = Tail(task_queue)
    /\ wpc' = [wpc EXCEPT ![w] = "run"]
    /\ UNCHANGED <<is_stop, call_flag, thread_vec, ppc, ptask, spc, fresh,
                   executed>>

FetchBlocked(w) ==
    /\ wpc[w] = "fetch"
    /\ MutexFree
    /\ ~is_stop
    /\ task_queue = <<>>
    /\ wpc' = [wpc EXCEPT ![w] = "towait"]
    /\ UNCHANGED <<task_queue, is_stop, call_flag, thread_vec, wtask, ppc,
                   ptask, spc, fresh, executed>>

\* task_get_.wait: the flag may have been set, and notify_all sent, since the
\* test in FetchBlocked.
FetchSleep(w) ==
    /\ wpc[w] = "towait"
    /\ wpc' = [wpc EXCEPT ![w] = "asleep"]
    /\ UNCHANGED <<task_queue, is_stop, call_flag, thread_vec, wtask, ppc,
                   ptask, spc, fresh, executed>>

\* task() returns.
RunTask(w) ==
    /\ wpc[w] = "run"
    /\ executed' = executed \cup {wtask[w]}
    /\ wtask' = [wtask EXCEPT ![w] = NoTask]
    /\ wpc' = [wpc EXCEPT ![w] = "putsig"]
    /\ UNCHANGED <<task_queue, is_stop, call_flag, thread_vec, ppc, ptask, spc,
                   fresh>>

\* Faulty: forgets to notify.
NotifyPut_Silent(w) ==
    /\ wpc[w] = "putsig"
    /\ wpc' = [wpc EXCEPT ![w] = "fetch"]
    /\ UNCHANGED <<task_queue, is_stop, call_flag, thread_vec, wtask, ppc,
                   ptask, spc, fresh, executed>>

\* task_put_.notify_one, without the mutex.
NotifyPut(w) ==
    /\ wpc[w] = "putsig"
    /\ wpc' = [wpc EXCEPT ![w] = "fetch"]
    /\ ppc' \in NotifyOne(ppc, "put")
    /\ UNCHANGED <<task_queue, is_stop, call_flag, thread_vec, wtask, ptask,
                   spc, fresh, executed>>

-----------------------------------------------------------------------------
\* A wait may also return without a notification.
SpuriousGet(w) ==
    /\ wpc[w] = "asleep"
    /\ wpc' = [wpc EXCEPT ![w] = "fetch"]
    /\ UNCHANGED <<task_queue, is_stop, call_flag, thread_vec, wtask, ppc,
                   ptask, spc, fresh, executed>>

SpuriousPut(p) ==
    /\ ppc[p] = "asleep"
    /\ ppc' = [ppc EXCEPT ![p] = "put"]
    /\ UNCHANGED <<task_queue, is_stop, call_flag, thread_vec, wpc, wtask,
                   ptask, spc, fresh, executed>>

-----------------------------------------------------------------------------
\* stop: the first caller runs terminate_all, whose first statement sets the
\* flag, without the mutex.
Stop(s) ==
    /\ spc[s] = "idle"
    /\ call_flag = "new"
    /\ call_flag' = "running"
    /\ is_stop' = TRUE
    /\ spc' = [spc EXCEPT ![s] = "notify"]
    /\ UNCHANGED <<task_queue, thread_vec, wpc, wtask, ppc, ptask, fresh,
                   executed>>

\* task_get_.notify_all.  Nobody is notified on task_put_.
NotifyAll(s) ==
    /\ spc[s] = "notify"
    /\ wpc' = [w \in Worker |-> IF wpc[w] = "asleep" THEN "fetch" ELSE wpc[w]]
    /\ spc' = [spc EXCEPT ![s] = "join"]
    /\ UNCHANGED <<task_queue, is_stop, call_flag, thread_vec, wtask, ppc,
                   ptask, fresh, executed>>

Join(s) ==
    /\ spc[s] = "join"
    /\ \A w \in thread_vec : wpc[w] = "exited"
    /\ thread_vec' = {}
    /\ spc' = [spc EXCEPT ![s] = "clean"]
    /\ UNCHANGED <<task_queue, is_stop, call_flag, wpc, wtask, ppc, ptask,
                   fresh, executed>>

CleanTaskQueue(s) ==
    /\ spc[s] = "clean"
    /\ MutexFree
    /\ task_queue' = <<>>
    /\ call_flag' = "done"
    /\ spc' = [spc EXCEPT ![s] = "done"]
    /\ UNCHANGED <<is_stop, thread_vec, wpc, wtask, ppc, ptask, fresh, executed>>

\* call_once makes every other caller wait until terminate_all returned.
StopAgain(s) ==
    /\ spc[s] \in {"idle", "done"}
    /\ call_flag = "done"
    /\ spc' = [spc EXCEPT ![s] = "again"]
    /\ UNCHANGED <<task_queue, is_stop, call_flag, thread_vec, wpc, wtask, ppc,
                   ptask, fresh, executed>>

-----------------------------------------------------------------------------
Next == \/ \E num \in 1..max_thread_size : InitThreadNum(num)
        \/ \E p \in Producer, t \in Task : AddTask(p, t)
        \/ \E p \in Producer : \/ Put(p) \/ PutBlocked(p) \/ PutSleep(p)
                               \/ NotifyGet(p) \/ SpuriousPut(p)
        \/ \E w \in Worker : \/ Quit(w) \/ TakeTask(w) \/ FetchBlocked(w)
                             \/ FetchSleep(w) \/ RunTask(w) \/ NotifyPut(w)
                             \/ SpuriousGet(w)
        \/ \E s \in Stopper : \/ Stop(s) \/ NotifyAll(s) \/ Join(s)
                              \/ CleanTaskQueue(s) \/ StopAgain(s)

Spec == Init /\ [][Next]_vars

\* Every runnable thread is scheduled; a thread that wants the mutex gets it if
\* the mutex is free again and again; a task returns.  Nothing forces a call of
\* add_task or stop, nor a spurious wake-up.
Fairness ==
    /\ \A p \in Producer : /\ SF_vars(Put(p) \/ PutBlocked(p))
                           /\ WF_vars(PutSleep(p) \/ NotifyGet(p))
    /\ \A w \in Worker : /\ SF_vars(Quit(w) \/ TakeTask(w) \/ FetchBlocked(w))
                         /\ WF_vars(FetchSleep(w) \/ RunTask(w) \/ NotifyPut(w))
    /\ \A s \in Stopper : /\ WF_vars(NotifyAll(s) \/ Join(s) \/ StopAgain(s))
                          /\ SF_vars(CleanTaskQueue(s))

FairSpec == Spec /\ Fairness

-----------------------------------------------------------------------------
(* Properties *)

Running == {wtask[w] : w \in Worker} \ {NoTask}
Held    == {ptask[p] : p \in Producer} \ {NoTask}

\* Every variable of the pool keeps its type.
TypeOK ==
    /\ task_queue \in Seq(Task)
    /\ is_stop \in BOOLEAN
    /\ call_flag \in {"new", "running", "done"}
    /\ thread_vec \in SUBSET Worker
    /\ wpc \in [Worker -> WorkerPC]
    /\ wtask \in [Worker -> Task \cup {NoTask}]
    /\ ppc \in [Producer -> ProducerPC]
    /\ ptask \in [Producer -> Task \cup {NoTask}]
    /\ spc \in [Stopper -> StopperPC]
    /\ fresh \in SUBSET Task
    /\ executed \in SUBSET Task

\* Threads at a given place of their code.
At(pc, places) == {x \in DOMAIN pc : pc[x] \in places}

\* No lost wake-up on task_get_: while the pool is not stopped and a worker sleeps,
\* every queued request has a worker of its own that is awake and will come to the
\* queue, or a producer that is about to wake one -- although notify_one is sent
\* outside the mutex and may find nobody asleep.  A worker that runs a task does not
\* count: its task may take any time.
NoTaskStranded ==
    ~is_stop /\ Sleeping(wpc) # {} =>
        Len(task_queue) <= Cardinality(At(wpc, {"fetch"})) + Cardinality(At(ppc, {"getsig"}))

\* No lost wake-up on task_put_: while the pool is not stopped and an io thread
\* sleeps in add_task because the queue was full, every place that was freed since
\* has a worker of its own that has yet to signal it, or another producer that was
\* woken and will use it.  So only a task that never returns keeps a place free
\* beside a sleeping producer, and one such task keeps one place.
NoProducerStranded ==
    ~is_stop /\ Sleeping(ppc) # {} =>
        max_task_quque_size <= Len(task_queue) + Cardinality(At(wpc, {"run", "putsig"}))
                                               + Cardinality(At(ppc, {"put"}))

\* A task is in one place only -- not yet added, in a producer's hands, in one
\* slot of the queue, with one worker, or done -- so no request runs twice.
OnePlace ==
    /\ \A i, j \in DOMAIN task_queue : task_queue[i] = task_queue[j] => i = j
    /\ \A v, w \in Worker : wtask[v] = wtask[w] /\ wtask[v] # NoTask => v = w
    /\ \A p, q \in Producer : ptask[p] = ptask[q] /\ ptask[p] # NoTask => p = q
    /\ Range(task_queue) \cap (Running \cup Held \cup fresh \cup executed) = {}
    /\ Running \cap (Held \cup fresh \cup executed) = {}
    /\ Held \cap (fresh \cup executed) = {}
    /\ fresh \cap executed = {}

\* The queue keeps to its bound until the pool is stopped; after that add_task
\* ignores the bound, but each io thread can exceed it by at most one task.
QueueBound ==
    /\ ~is_stop => Len(task_queue) <= max_task_quque_size
    /\ Len(task_queue) + Cardinality({p \in Producer :
                                        ppc[p] \in {"put", "towait", "asleep"}})
          <= max_task_quque_size + Cardinality(Producer)

\* The pool implements the sequential promise of TaskQueue: tasks start in the
\* order in which add_task_impl queued them, once, none after stop set its
\* flag, and none is dropped before that.
Lost == Task \ (fresh \cup Held \cup Range(task_queue) \cup Running \cup executed)

Queue == INSTANCE TaskQueue WITH waiting <- task_queue, running <- Running,
                                 finished <- executed, discarded <- Lost,
                                 closed <- is_stop
ImplementsTaskQueue == Queue!Spec

\* A queued request is executed, unless the pool is stopped first.
TaskExecuted ==
    \A t \in Task : t \in Range(task_queue) ~> (t \in executed \/ is_stop)

\* An io thread that waits in add_task for room gets its task queued, unless the
\* pool is stopped first.  This needs every task to return; Server says what is left
\* of it when some do not.
ProducerReleased ==
    \A p \in Producer : ppc[p] = "asleep" ~> (ppc[p] = "getsig" \/ is_stop)

\* stop returns if tasks do and if, once notify_all was sent, no worker is asleep or
\* between the test of its wait condition and its sleep.
StopReturnsUnlessRaced ==
    (call_flag = "running" /\ \A w \in Worker : wpc[w] \notin {"towait", "asleep"})
        ~> call_flag = "done"

\* stop returns: the sample servers of README.md end with `std::cin.get();
\* return 0;`, after which ~router joins the workers.
StopReturns == call_flag = "running" ~> call_flag = "done"
=============================================================================
