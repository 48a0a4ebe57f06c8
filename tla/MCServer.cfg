\* Two io threads, two workers, a queue of two, four clients, one of which does not
\* read.  It can fill a place in the queue and then leave it for a worker for good,
\* with one request still queued, one io thread asleep in add_task beside the free
\* place, and one client in the backlog.
SPECIFICATION FairSpec
CONSTANTS
    Client = {c1, c2, c3, m}
    Mute = {m}
    NoClient = NoClient
    ios_size = 2
    thread_num = 2
    max_task_quque_size = 2
INVARIANTS TypeOK OrphansAreTasks NoServiceDeadlock
PROPERTIES ClientAccepted RequestServed StopReturns ProcessEnds
CHECK_DEADLOCK FALSE
