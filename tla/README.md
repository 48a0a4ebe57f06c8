# easyrpc in TLA+

easyrpc is a header-only C++11 RPC library over boost::asio. A *server* binds
functions to protocol names and serves one request per TCP connection; a
*client* connects, writes one request, reads one response and disconnects.
This directory holds TLA+ modules of the library, the TLC configurations that
check them, and proofs for TLAPS. Paths below are relative to `src/easyrpc/`.

Check a model with `tlc -config X.cfg M` (the run table names M and X), the
proofs of a module with `tlapm XProofs.tla`.

## 1. Inventory

| component | state it keeps | operations | hard behaviour | what makes it correct |
|---|---|---|---|---|
| `base/thread_pool.hpp`: one pool per process, inside the router singleton | `task_queue_`, its mutex, two condition variables, atomic stop flag, `call_once` flag, threads | `init_thread_num`, `add_task`, `run_task`, `stop` | wake-ups outside the mutex; a stop flag written without it; a bounded queue whose producers are the io threads, and which makes room without waking them | no wake-up lost; a task runs at most once, in order; queued tasks run; `stop` returns |
| `server/connection.hpp` | socket, read buffers, `timer_`, the `shared_ptr`s to itself | `start`, two async reads, `write`, `disconnect`, destructor | handlers queued but not run; timeout against a completed read; a worker that writes while the io thread closes; ownership cycles | reads are timed, end, and no longer; nothing outlives the connection; the connection goes away |
| `base/atimer.hpp` | an asio timer, `func_vec_` | `bind`, `start`, `stop`, expiry | `cancel` is no use once the handler is queued; functions accumulate | a handler hits only what it was started for |
| `server/router.hpp` | `invoker_map_`, `invoker_raw_map_`, the pool | `bind`, `unbind`, `route`, the invoker's `operator()` and `apply` | tasks hold references into a table that changes; exceptions become responses | a request runs its own handler, and is answered truthfully |
| `client/rpc_session.hpp`, `client/client.hpp` | socket, timer with its own thread, the mutex of the calls | `connect`, `call`, `call_raw` (two each), `stop` | threads share a client; the timer thread closes the socket without a lock; a handler late for its own call | no call gets another's response; nothing of a call is left to the next; calls end |
| `base/header.hpp` | 32-bit length fields, the 8 MB limit | write and check at both ends | casts before tests, sums that wrap, `<` at one end and `<=` at the other | lengths arrive as sent; both ends agree on the limit |
| `server/server.hpp`, `server/io_service_pool.hpp` | acceptor, io_services, their threads, the index that deals them out | `run`, accept loop, `get_io_service`, `stop`, the destructors at the end of `main` | io threads kept in `add_task`; accept that fails; clients that never read; the order of shutdown | everybody is accepted and served while workers, and places in the queue, outnumber the clients that do not read; `stop` returns, the process ends; nothing outlives its io_service |
| `base/string_util.hpp` | none | `split`, used on addresses | `strtok_r` writes into a const argument | not modelled |
| `protocol/`, `parser_util`, `function_traits`, `logger`, `file_util`, `scope_guard` | none that others read | | | not modelled, see section 7 |

How they interact. `server::run` fixes the number of workers, then starts one
io thread per io_service. The accept handler makes a `connection` and calls
`start`. The connection's handlers run on its io thread; the second one calls
`router::route`, which looks the protocol up and calls `thread_pool::add_task`
*on the io thread*, so that a full queue blocks that io thread. A worker runs
the task: it unpacks the arguments, calls the bound function and calls
`connection::write`, all on the worker thread. The task holds a `shared_ptr`
to the connection and a reference to the table's entry. On the client, `call`
holds a mutex from connect to disconnect, and a timer thread of the session's
own closes the socket if the read takes too long. At the end of `main`,
`~server` stops and joins the io threads and destroys the io_services; the
static router, and the pool inside it, are destroyed after that.

The hazards that follow, each with its line, are listed in `PROJECT.json`; the
properties below were chosen for them.

## 2. Modules and code

| abstract | detailed | composed of |
|---|---|---|
| `TaskQueue` | `ThreadPool` | |
| `RemoteCall` | `EasyRpc` | `RpcSession`, `Connection` |
| | `Router` | `TaskQueue` |
| | `Server` | (queue and connections in coarse steps) |
| | `Framing` | |

`TaskQueue` - what the pool promises, without threads: accepted tasks start
once and in order, none is lost before the queue is closed, none starts after.
`ThreadPool` implements it, and `Router` uses it in place of the pool.

`ThreadPool` - `thread_pool.hpp`. `wpc`, `ppc`, `spc` say where each worker,
each io thread inside `add_task` and each caller of `stop` is. A critical
section is one action, with one exception that carries the whole module: a
thread that found its wait condition true goes to sleep in a *separate* step
(`FetchSleep`, `PutSleep`), holding the mutex in between. `NotifyGet` and
`NotifyPut` are steps of their own because the code sends them after unlocking,
and `Stop`/`NotifyAll` take no mutex, as in `terminate_all`. Spurious wake-ups
are actions. The three `add_task` overloads differ in the closure only.

`Connection` - `connection.hpp` with `atimer.hpp`. Each connection is a record:
what it is doing (`phase`), its socket, its outstanding `async_read` (`rd`), its
timer, whether `func_vec_` holds a `shared_ptr` to it (`bound`), whether it
exists (`alive`). A client that leaves is seen by its end of file or reset; there
is no keepalive, so a host that vanishes is a client that stays silent. Completion of an operation (`Arrive`, `ReadFails`,
`TimerExpires`) and the run of its handler are different steps: between the two
the outcome is fixed and other handlers may run. `Release` is the end of a
`shared_ptr`; it runs the destructor if no read, task or bound function holds
another.

`RpcSession` - `client.hpp`, `rpc_session.hpp` with `atimer.hpp`. Each member of
`Call` is one call from one thread; a connection is named after the call that
opened it. The timer thread's loop over `func_vec_` is modelled function by
function, and each `disconnect` it calls in two steps (`TestOpen`,
`TimerClose`), since no lock protects the socket. `timed` and `timer_thread`
cover both orders of `timeout()` and `run()`: called late, `timeout` yields a
timer that nothing runs.

`Router` - `router.hpp` over `TaskQueue`. A reference to a table entry is
`<<key, erased>>`: it dangles when the entry was erased since. `operator[]` in
`bind` assigns to an existing entry, so a rebinding does not change `erased`.
The four endings of a task (`Return`, `HandlerThrows`, `BadArguments`,
`Disconnect`) follow `operator()` and `apply` with their `catch` clauses.
Binding a handler that a worker is calling at that moment is one step here; in
C++ it is a race on the `std::function`.

`Framing` - `header.hpp` and the write and check functions of both ends, over
lengths, with the width of `unsigned int` as the constant `WordMod`.

`Server` - `server.hpp` and `io_service_pool.hpp`: the accept loop on the first
io_service, the connections dealt out in turn, io threads that run one handler
at a time and can be kept in `add_task` (`adding`), asleep on `task_put_`
(`asleep`) or woken, workers that can be kept by a client that does not read
(`Mute`), and the end of the process step by step: `StopIoServices`, `StopThreads`
(join), `DestroyServices`, `StopPool`, `CleanTaskQueue`. `Execute` pops and wakes
nobody; `Answer`, the end of a task, notifies one sleeper, which then tests the
queue again (`Added`, `BlockedAgain`). `missed` is the worker that `StopPool` finds
between its test and its wait: the join in `CleanTaskQueue` waits for it.
Connections are coarser than in `Connection`: completion and handler are one step,
both reads are one step, and there is no timeout, as in `test/server/main.cpp`.
`home` is the io_service whose thread runs a
connection's handlers; a routed connection has no handler left.

`RemoteCall` - what easyrpc promises to those who call and to those who bind
handlers: a call is executed at most once and only if it was made, and when one
returns its execution is over. Over means that `operator()` is past `func_`: a
handler that threw, and arguments that call nothing, are answered too, with an
empty response (`router.hpp:284-351`; `Router` tells them apart). A call may throw
whatever became of it.

`EasyRpc` - `RpcSession` and `Connection` joined at the socket: call c's
connection is connection c of the server. What each leaves to "External" is here
what the other does. Every step is a step of one of them, and of the other as
well where the socket tells it: `Seen` is a step of the server the client sees
(a response begins, is complete, the socket closes), `Hangup` a step of the
client the server sees. `begun`, a history variable, records the executions.

`SequenceLemmas` holds facts about sequences without repetitions that the proofs
share. `MC...` modules hold what TLC needs (the sets of the instances), and
`...Proofs` modules the theorems. Definitions whose names have an underscore
suffix and whose comment begins with "Faulty" (`TakeTask_NoPop`, ...) are
deliberately wrong variants of the action that follows them. No specification
uses them; replacing the action by the variant has to break a property.

External code - sockets, asio, the far end of a connection - appears as the
nondeterministic actions marked "External".

## 3. Runs

| run | module, cfg | instance | what it shows |
|---|---|---|---|
| `pool` | `MCThreadPool`, `MCThreadPool.cfg` | 3 tasks, queue of 1, 2 io threads, 2 workers created in one or two calls, one thread that calls `stop` twice | while a worker sleeps, every queued task has another one on its way (`NoTaskStranded`), and while an io thread sleeps in `add_task`, every free place is one whose notification is still to come or was made (`NoProducerStranded`); a task is in one place (`OnePlace`); the queue keeps its bound, and by how much it may pass it after `stop` (`QueueBound`); the pool implements `TaskQueue`; if tasks return, queued ones run, blocked io threads get on, and `stop` returns unless its notification is lost |
| `pool_stop` | `MCThreadPool`, `MCThreadPoolStop.cfg` | 2 workers | **violated**: `StopReturns` |
| `connection` | `MCConnection`, `MCConnection.cfg` | one connection with and one without a timeout | the timer covers both reads (`ReadGuarded`) and does not run from routing on (`TimerStopsWithRead`), reads end (`ReadEnds`), a timer never outlives its connection (`NoDanglingTimer`), no request is routed on a closed socket, and what closes it later, before the worker is done, is a timeout that expired before the routing (`OnlyLateTimerCloses`), connections without a timeout are destroyed when the client leaves (`PeerGoneReleased`) |
| `connection_leak` | `MCConnection`, `MCConnectionLeak.cfg` | one with a timeout | **violated**: `PeerGoneClosed` |
| `session` | `MCRpcSession`, `MCRpcSession.cfg` | 3 calls, all orders of `timeout` and `run` | a call returns its own response or throws (`OwnResponse`), leaves neither an open socket (`ClosedBetweenCalls`) nor a running wait (`TimerBelongsToReader`), and ends if it is timed, even on a silent server (`TimedCallEnds`) |
| `session_stale_timer` | `MCRpcSession`, `MCRpcSessionStale.cfg` | 2 calls | **violated**: `TimeoutHitsOwnCall` |
| `framing` | `MCFraming`, `MCFraming.cfg` | words of 4 bits, limit 6, lengths 0 to 17 | lengths that a word can count arrive as sent and within the limit (`ExactRequest`, `ExactResponse`); what is too big stays at the client (`TooBigNotSent`) |
| `framing_limit` | `MCFraming`, `MCFramingLimit.cfg` | the same | **violated**: `RequestAgreed` |
| `router` | `MCRouter`, `MCRouter.cfg` | one protocol name in both modes, 3 handlers, 2 requests, each key unbound at most once | a request gets a handler of its own mode and name and a live reference unless an entry was erased under a request (`OwnHandler`, `NoDanglingReference`); a value means the handler ended (`ValueMeansDone`); a found request is answered unless the pool stops (`FoundIsAnswered`) |
| `server` | `MCServer`, `MCServer.cfg` | 4 clients, one of which does not read, 2 io threads, 2 workers, queue of 2 | whatever io thread sleeps in `add_task`, a task that will return and notify is ahead of it, or a woken thread (`NoServiceDeadlock`); although accept may fail and io threads wait, whoever connects is accepted (`ClientAccepted`) and whoever sends and reads is served (`RequestServed`); `stop` returns (`StopReturns`), the process ends unless a worker missed the stop of the pool or is kept by a client that neither reads nor leaves (`ProcessEnds`); what outlives the io_services is tasks only (`OrphansAreTasks`) |
| `server_exit` | `MCServer`, `MCServerExit.cfg` | 2 clients, 1 io thread, 1 worker | **violated**: `NoOrphan` |
| `easyrpc` | `MCEasyRpc`, `MCEasyRpc.cfg` | 2 calls, for one of which the server has a timeout, the client with or without one | the ends agree on a connection (`EndsAgree`), client and server implement `RemoteCall`, and every call ends, timeout or not (`CallEnds`) |

### What the violated runs say

1. `pool_stop`: `terminate_all` sets the flag and calls `notify_all` without the
   mutex. A worker between its test (line 126) and its `wait` (line 128) misses
   both and sleeps on; `join` (line 110) never returns, and a server that leaves
   `main` hangs. `StopReturnsUnlessRaced` of `pool` shows that this is the only
   way, provided that tasks return: a write to a client that does not read is the
   other one. `Server` has both (`missed`, `Mute`), and `ProcessEnds` names them.
2. `connection_leak`: with a timeout, the function bound to a connection's own
   timer holds the connection. After a call that was served nothing breaks the
   cycle; the descriptor is kept for the life of the process. Without a timeout
   `PeerGoneReleased` holds.
3. `session_stale_timer`: a timer that expired before `stop_timer` closes the
   socket afterwards, and the timer is shared by all calls: the expiry of one
   call closes the connection of the next.
4. `framing_limit`: the client sends up to and including 8 MB, the server
   accepts less than 8 MB.
5. `server_exit`: `server::stop` waits for the io threads and not for the
   requests they routed. At the end of `main` the io_services are destroyed while
   tasks that wait or run still hold connections whose sockets belong to them.

Weaknesses that the models contain and that contradict no text of the repository:

- On the server, too, a timer that expired before the last read's handler stops it
  closes the socket of a request that is with the workers. `OnlyLateTimerCloses`
  says that nothing else does.
- An exception of a handler, or arguments that do not unpack, give an empty
  response, which a client that expects no result takes for the confirmation
  (which is why `ValueMeansDone` speaks of values).
- A worker that pops a task wakes no io thread; only one that comes back from a
  task does. Each task that never returns costs a wake-up. If as many clients as
  the queue has places do not read, an io thread can sleep in `add_task` for ever
  beside an empty queue and an idle worker: with a queue of 1 in
  `MCServer.cfg`, where `FewMute` is false, that state is reachable. `FewMute` is
  therefore a premise of `NoServiceDeadlock` and of what rests on it: fewer such
  clients than workers, and than places. With the library's numbers (at most 30
  workers, 100000 places) the workers run out first.
- Sums of header fields that exceed 32 bits wrap, and `ServerRead` of `Framing` then
  splits at lengths the buffer does not have, where the code reads past its end.
  `ExactRequest` speaks of lengths that fit; `BufferSized` says how long the buffer
  is in any case.

## 4. Bounds and why they are enough

- *Pool.* A queue of 1 under 3 tasks and 2 io threads gives a full queue most of
  the time, blocked io threads and notifications that find nobody or wake the
  wrong one; workers may arrive in two calls of `init_thread_num`; the second
  call of `stop` is what `call_once` holds back. The proofs lift the bounds for
  every invariant and for the refinement.
- *Connection.* Connections do not touch one another's state, so one of each kind
  covers any number. What they share - the pool and the io thread - is in
  `Server`.
- *Session.* Two calls are needed for anything to pass from one to another; the
  third lets a handler of one call meet the call after next, and a waiting
  call be overtaken.
- *Framing.* Every boundary is a comparison or a wrap-around; 4-bit words with
  a limit of 6 leave numbers on both sides of each, and 17 exceeds a word by
  more than one.
- *Router.* `MaxUnbind = 1` allows unbind and bind again, hence a reference to
  an entry that exists once more; two requests may refer to one entry. Two
  handlers share a key so that a rebinding changes something.
- *Server.* The client that does not read and two more fill the queue of two, and
  the next request keeps an io thread in `add_task`, which may be the one that
  accepts. When the mute client's task is popped there is a place that nobody
  announces, and the io thread has to be woken by one of the others. Two places are
  the least that `FewMute` allows with one mute client. Two io_services make the
  index wrap. The clients are finitely many: an io thread that loses every
  place to the others for ever, under an endless stream of requests, is not seen. For the exit one of everything is enough; a second client
  leaves one task in the queue and one running.
- *EasyRpc.* Two calls compete for the mutex and for the client's timer; one of
  them meets a server with a timeout, so that either end, both or none may hang
  up first.

`CHECK_DEADLOCK FALSE` is set throughout: calls, connections, tasks, clients and
requests are finite sets, so each model may come to its end.

## 5. Fairness

- *Pool:* weak fairness for each thread's own step, strong fairness for taking
  the mutex (a thread that competes for a mutex that is free again and again
  gets it; the critical sections are short). A task returns: the liveness properties
  of this module need that, its invariants do not. Nobody is obliged
  to call `add_task` or `stop`, and no spurious wake-up is assumed.
- *Connection:* the io thread runs queued handlers (it is not kept in `add_task` for
  ever, see `Server`), time passes, workers run
  what is routed. A client need not send, read or leave. Once it has left, a
  pending read or write fails: that is what the kernel does with a reset or an
  end of file.
- *Session:* a caller that can go on does; the timer thread runs; the server
  owes nothing. `connect` and `write` are assumed to return, which the code
  leaves to the system's own timeouts.
- *Router:* the io thread goes on from look-up to `add_task`, workers run,
  handlers return or throw. A write that never returns is in `Server`.
- *Server:* accept does not fail for ever (strong, since an io thread that is
  kept in `add_task` interrupts it); an io thread that is free again and again
  runs the handlers that are ready; one that was notified in `add_task` tests the
  queue again, but one that sleeps there is owed nothing. A worker that runs nothing
  takes what is queued: `NoTaskStranded`, which does not count workers inside tasks
  and needs none to return, says that it is not asleep on it. `ProducerReleased` is
  not used: it assumes that every task returns. Handlers return, and writes to
  clients that read; `main` goes on once it stops. No client has to send, and a
  mute one need never leave.
- *EasyRpc:* the threads of both ends go on as above, what was written arrives,
  and the client's own reading replaces any assumption about its far end. The
  timers owe nothing: calls end without them.

## 6. Proofs

Theorems hold for every value of the constants that satisfies the module's
ASSUME. `PROJECT.json` lists them with the property each states.

- `ThreadPoolProofs` (`PoolAssumption`: `NoTask` is no task, producers and
  workers are finite, the two limits are positive). `NoTaskStranded` is not inductive:
  `notify_one` may find nobody asleep, and what saves the task then is that
  whoever is not asleep will test the queue again. It and `NoProducerStranded` count:
  every task in the queue is matched by a thread that will come for it, every free
  place by one that has yet to signal it, and each step moves one thread
  (`WorkerMoves`, `ProducerMoves`, and `NotifyGetMoves`, `NotifyPutMoves` for the
  sleeper that is woken). `IInv` adds `Holding` (who
  holds a task), `WaitConditionHolds` (a thread about to sleep still has the
  mutex, so what it saw of the queue is still true - the fact the code relies on
  and that only the stop flag breaks) and `Order` (exits only after stop,
  producers only after workers exist). `TasksInOnePlace` follows a task from
  hand to hand: each step moves one task from one place to the next, and the
  lemmas on sequences without repetitions say what `Append` and `Tail` do to the
  rest. `QueueIsBounded` counts the producers inside `add_task` together with the
  queue, hence the assumption that they are finite. `PoolIsTaskQueue` maps each step to one of
  `TaskQueue` or to a stutter, given those invariants.
  `NoTaskDropped` and `StopLeavesNothing` are what an owner of the pool relies on
  before and after `stop`; the second needs `Joined` (every worker
  that is still there is one that `stop` joins) and `Holding`. Two action properties
  say how far the failures of `stop` reach, which the violated runs only show one
  instance of: `OnlyTheRaceLosesStop` (after the flag nobody goes to wait any more,
  and nobody sleeps through `notify_all`, so a worker that tested the flag before
  it was set is the only one `join` can wait for in vain) and
  `StoppedProducersSleepOn` (after `stop` an io thread asleep in `add_task` is woken
  by chance or never).
- `ConnectionProofs` (`TimedAssumption`). `Coherent(c, r)` is an invariant of
  each connection's record: a read is pending exactly while reading, what is held
  is alive, a timer that runs is bound, and a bound one belongs to a timed
  connection. Each action changes one record (`OneConnection`), and all paths to
  the destructor go through `FinishCoherent`.
  `Mortal`, on top of it, settles the lifetime: `DestroyedUnlessTimed` says that a
  connection is destroyed when its work ends exactly if it has no timeout.
  `NothingClosesLeaked` is the safety inside `PeerGoneClosed`'s counterexample (from
  a call that is over with its timer stopped no step leads to a closed socket), and
  `RoutedClosedByLateTimer` proves `OnlyLateTimerCloses`: what is left of a timeout
  after routing is a handler that was queued before `stop_timer`.
- `RpcSessionProofs` (`CallAssumption`: finitely many calls, `NoCall` and `Threw`
  are none). `OwnResponse` needs `Exclusive` (the mutex is held exactly by the
  call between lock and end), `OwnConnection` (such a call finds its own
  connection in the socket or, if the timer thread was there, none) and
  `OutcomeKnown`. The timer thread only ever closes, so its interleavings preserve
  all of them. That at most one function per call is bound needs `TimerCounts`,
  which compares it with the number of calls that have come past the binding.
  `NoPartialResponse` is inductive with `NotYet` (no outcome before the read).
  `ReadsAreGuarded` is the safety `TimedCallEnds` rests on: a reading call is
  watched by its wait or by a handler that still has a close to make, which needs
  `TimerTells` (a read under a timeout has bound a function, so that the handler's
  loop is not empty). From the same invariant `StrayHandlerIsLate` says what remains
  of `TimeoutHitsOwnCall`: a handler closes another call's socket only when its own
  call has ended, and then that of the call that holds the mutex.
- `FramingProofs` (`FramingAssumption`: the limit is below the word). `HeadersCarry`
  relates the header on the wire to the lengths the caller passed through the cast
  `UInt`; where the lengths fit a word, the cast is the identity and the sums do
  not wrap.
  `LimitsDifferAtTheLimit` bounds the divergence the violated run shows: apart from
  lengths that do not fit a word, the server refuses what the client sent only at
  length 0 and at the limit itself. `BufferSized` holds even where lengths wrap.
- `RouterProofs` (`RouterAssumption`). `NoDanglingReference` and `OwnHandler` need
  `Pooled` (what the pool holds was routed) and `OwnKey` (a handler is bound to
  its own key, and what a request found is the entry of its mode and name).
  `PoolOnce` (a task is in one place; none is discarded while the queue is
  open) is proved of `TaskQueue`'s steps, which the router's are by construction. Together with `Told`, which ties
  the pool's places to what was called and answered, it gives `RoutedIsKept` (an
  accepted request is answered, waits or runs until the pool is closed) and
  `ServedOnce`.
- `ServerProofs` (`ServerAssumption`). `OrphansAreTasks` needs `Placed` (a
  routed connection is in the pool, and one that is being added keeps its own io
  thread) and `ShutDown` (after the join no io thread is in `add_task`, and once
  the io_services are gone no handler is left to run).
  `OneHolder` follows a request from its io thread through the queue to a worker.
  `BlockedServiceCanMove` counts. `Accounted`: while an io thread sleeps, the places
  of the queue are covered by what waits, what runs and the threads that were
  woken; popping moves a task from the first to the second and needs to wake nobody,
  `Answer` takes one from the second and wakes one. At most `thread_num` requests run
  (`Staffed`). So with fewer clients that do not read than places, either a thread
  was woken, or a task runs that will return and notify, or one waits; and with fewer
  of them than workers, one that waits finds a worker. `closed` implies that the io
  threads were joined, so `stop`'s missing notification of producers cannot hurt the
  server.
- `EasyRpcProofs` (`CallAssumption`, `TimedCalls`). First that the composition is
  sound: its client is a behaviour of `RpcSession` (`ClientKeepsSpec`), although it is the
  server that answers; its connections move by `Connection`'s steps by construction.
  So the theorems about either hold in it. Then `Agree(k)`, what the two ends know of one
  connection at any time, which with the invariant of `RpcSession` is inductive
  and gives `EndsAgree` and, step by step, `ImplementsRemoteCall`.
  With `ConnectionProofs` instantiated for the composition (`ServerSideSpec`) the
  theorems of both ends are restated for the two together (`ClientSideHolds`,
  `ServerSideHolds`) and combined. `Progress(k)`, how far the server has come
  as the client can rely on it, is inductive with `Agree`; with `Coherent` it gives
  `EndsNeverWaitMutually`, the safety under `CallEnds`: no caller blocks in a read
  unless the server has a step to make for it that needs nothing more from
  it. With `Lifetime` it gives `NothingAfterReturn`: once a call returned, its
  connection is destroyed exactly if the server set no timeout. `ExecutedAtMostOnce`
  is `RemoteCall`'s guard on `Begin` as an invariant of `begun`.

Only model-checked, on the instances above: all liveness properties
(`TaskExecuted`, `ProducerReleased`, `StopReturnsUnlessRaced`, `ReadEnds`,
`PeerGoneReleased`, `TimedCallEnds`, `FoundIsAnswered`, `ClientAccepted`,
`RequestServed`, `StopReturns`, `ProcessEnds`, `CallEnds`); the provers do not
handle fairness. For six of them the safety they rest on is proved:
`TimedCallEnds` (`ReadsAreGuarded`), `CallEnds` (`EndsNeverWaitMutually`),
`ClientAccepted`, `RequestServed` and `StopReturns` of the server
(`BlockedServiceCanMove`), and `StopReturnsUnlessRaced` (`OnlyTheRaceLosesStop`);
that fair threads then do take those steps is TLC's part. Every safety property of a
passing run is proved.

## 7. Not modelled

- Addresses: `split` (`base/string_util.hpp`) writes zeros into the string its
  caller passed as const, and a port is cut to 16 bits. Both are properties of one
  pure function that a unit test decides.
- Data races proper: two threads inside one `unordered_map`, one `std::function`
  or one `vector` (`func_vec_`) at the same time. The models make each such
  operation one step and say so.
- Exceptions that are not `std::exception`: one from a handler ends the process.
- In `Server`, timeouts of connections (they are in `Connection`) and a second
  `run` of one server; in `RpcSession`, name resolution, the idle `ios_` thread, a
  second `run()`, changes of configuration between calls, and a `connect` or
  `write` that never returns.
- Addresses of temporaries handed to `boost::asio::buffer`, and `&ret[0]` of an
  empty response: bytes are not modelled.
- Serialization (external easypack, `client/protocol.hpp`,
  `server/parser_util.hpp`): success or failure, and whether the packed string is
  empty.
- `function_traits` (compile time), `logger` and `file_util` (output nobody
  reads back), `scope_guard` (its effect is inside the actions).

## 8. Order of construction

The modules were written, and are best read, from the part that everything
blocks on outwards: `TaskQueue` and `ThreadPool`; `Connection` and `RpcSession`,
the ends of a call with their timers; `Router` and `Framing`, what a request goes
through; `Server`, how the threads and io_services live and die together;
`RemoteCall` and `EasyRpc`, what all of it amounts to for a caller. The proof
modules follow the same order; `EasyRpcProofs` builds on `RpcSessionProofs` and
`ConnectionProofs`.

What an extension would have to start from: a finer `Server` that takes its
connections from `Connection`, to see timeouts starve behind a blocked io thread;
and tables that are not atomic, for applications that bind while they serve.
