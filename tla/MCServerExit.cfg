\* The destructors at the end of main, with calls under way.
SPECIFICATION Spec
CONSTANTS
    Client = {c1, c2}
    Mute = {}
    NoClient = NoClient
    ios_size = 1
    thread_num = 1
    max_task_quque_size = 1
INVARIANT NoOrphan
CHECK_DEADLOCK FALSE
