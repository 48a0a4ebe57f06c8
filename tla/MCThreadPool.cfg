\* Three tasks over a queue of one, so that io threads wait for room, two workers
\* that arrive in one or two calls of init_thread_num, one thread that calls stop
\* twice.  No symmetry: some properties are temporal.
SPECIFICATION FairSpec
CONSTANTS
    Task = {t1, t2, t3}
    NoTask = NoTask
    Producer = {p1, p2}
    Worker = {w1, w2}
    Stopper = {s1}
    max_task_quque_size = 1
    max_thread_size = 2
INVARIANTS TypeOK NoTaskStranded NoProducerStranded OnePlace QueueBound
PROPERTIES ImplementsTaskQueue TaskExecuted ProducerReleased StopReturnsUnlessRaced
CHECK_DEADLOCK FALSE
