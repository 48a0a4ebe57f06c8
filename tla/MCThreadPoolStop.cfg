\* The smallest pool that loses the wake-up of stop.
SPECIFICATION FairSpec
CONSTANTS
    Task = {t1, t2}
    NoTask = NoTask
    Producer = {p1}
    Worker = {w1, w2}
    Stopper = {s1}
    max_task_quque_size = 1
    max_thread_size = 2
PROPERTIES StopReturns
CHECK_DEADLOCK FALSE
