---------------------------- MODULE ServerProofs ----------------------------
(***************************************************************************)
(* Server's safety properties, for any number of clients, io_services and  *)
(* workers and any bound of the queue.                                     *)
(***************************************************************************)
EXTENDS Server, SequenceLemmas, FiniteSetTheorems

\* A connection that was routed is in the pool, and one that add_task keeps an io
\* thread with is the one that thread is kept with.
Placed ==
    /\ \A c \in Client : phase[c] = "task" => c \in Range(waiting) \cup running
    /\ \A c \in Client : phase[c] = "adding" => adding[home[c]] = c

\* Joined io threads are in no handler, no handler is left to run once the
\* io_services are gone, and the pool is stopped after that.
ShutDown ==
    /\ life \in {"joined", "destroyed", "exiting", "ended"} =>
           \A i \in Ios : adding[i] = NoClient
    /\ life \in {"destroyed", "exiting", "ended"} =>
           \A c \in Client : phase[c] \notin {"reading", "ready"}
    /\ closed => life \in {"exiting", "ended"}

IInv == TypeOK /\ Placed /\ ShutDown

-----------------------------------------------------------------------------
\* get_io_service stays within ios_vec_.
LEMMA RotateType == \A i \in Ios : Rotate(i) \in Ios
BY ServerAssumption DEF Rotate, Ios

\* There is a first io_service, which accepts.
LEMMA IosHasFirst == 0 \in Ios
BY ServerAssumption DEF Ios

\* A request comes into the queue.
LEMMA EnqueueStep ==
    ASSUME IInv, NEW c \in Client, ~Full, Enqueue(c)
    PROVE  /\ waiting' \in Seq(Client) /\ Len(waiting') <= max_task_quque_size
           /\ Range(waiting') = Range(waiting) \cup {c}
<1>1. waiting \in Seq(Client) /\ Len(waiting) < max_task_quque_size
  BY ServerAssumption, LenProperties DEF IInv, TypeOK, Full
<1> QED
  BY <1>1, ServerAssumption, RangeAppend DEF Enqueue

\* While an io thread is in add_task the pool is not stopped, so a woken one goes on
\* only if there is room.
LEMMA AddedStep ==
    ASSUME IInv, NEW i \in Ios, Added(i)
    PROVE  /\ adding[i] \in Client /\ ~Full /\ Enqueue(adding[i])
           /\ adding' = [adding EXCEPT ![i] = NoClient] /\ i \notin asleep
<1>1. adding[i] # NoClient /\ i \notin asleep
  BY DEF Added, Woken
<1>2. adding[i] \in Client /\ ~closed
  BY <1>1 DEF IInv, TypeOK, ShutDown
<1> QED
  BY <1>1, <1>2 DEF Added

\* The induction step of the type invariant.
LEMMA TypeStep == IInv /\ [Next]_vars => TypeOK'
<1> SUFFICES ASSUME IInv, [Next]_vars PROVE TypeOK'
  OBVIOUS
<1> USE ServerAssumption, RotateType, IosHasFirst
        DEF IInv, TypeOK, Phase, main, conns, block, pool, ArmAccept
<1>1. CASE Run \/ RunFails
  BY <1>1 DEF Run, RunFails
<1>2. ASSUME NEW c \in Client, Connect(c) \/ Request(c) \/ Reject(c) PROVE TypeOK'
  BY <1>2 DEF Connect, Request, Reject
<1>3. ASSUME NEW c \in Client, Accept(c) PROVE TypeOK'
  BY <1>3 DEF Accept
<1>4. ASSUME NEW c \in Client, Route(c) PROVE TypeOK'
  <2>1. ~Full /\ Enqueue(c) /\ adding' = adding
    BY <1>4 DEF Route
  <2>2. waiting' \in Seq(Client) /\ Len(waiting') <= max_task_quque_size
    BY <2>1, EnqueueStep
  <2> QED
    BY <2>1, <2>2 DEF Enqueue
<1>5. ASSUME NEW c \in Client, RouteBlocked(c) PROVE TypeOK'
  BY <1>5 DEF RouteBlocked
<1>6. CASE AcceptFails
  BY <1>6 DEF AcceptFails
<1>7. ASSUME NEW i \in Ios, Added(i) PROVE TypeOK'
  <2>1. /\ adding[i] \in Client /\ ~Full /\ Enqueue(adding[i])
        /\ adding' = [adding EXCEPT ![i] = NoClient] /\ i \notin asleep
    BY <1>7, AddedStep
  <2>2. waiting' \in Seq(Client) /\ Len(waiting') <= max_task_quque_size
    BY <2>1, EnqueueStep
  <2> QED
    BY <2>1, <2>2 DEF Enqueue
<1>8. CASE Execute
  <2>1. waiting \in Seq(Client) /\ waiting # <<>> /\ waiting' = Tail(waiting)
    BY <1>8 DEF Execute
  <2>2. Head(waiting) \in Client /\ waiting' \in Seq(Client)
        /\ Len(waiting') <= max_task_quque_size
    BY <2>1
  <2> QED
    BY <1>8, <2>2 DEF Execute
<1>9. ASSUME NEW c \in Client, Answer(c) PROVE TypeOK'
  BY <1>9 DEF Answer, NotifyPut
<1>10. CASE StopIoServices \/ StopThreads \/ DestroyServices \/ StopPool
  BY <1>10 DEF StopIoServices, StopThreads, DestroyServices, StopPool
<1>11. CASE CleanTaskQueue
  BY <1>11, EmptySeq DEF CleanTaskQueue
<1>12. ASSUME NEW i \in Ios, BlockedAgain(i) \/ SpuriousPut(i) PROVE TypeOK'
  BY <1>12 DEF BlockedAgain, SpuriousPut, Woken
<1>13. CASE SpuriousGet
  BY <1>13 DEF SpuriousGet
<1>14. CASE UNCHANGED vars
  BY <1>14 DEF vars
<1> QED
  BY <1>1, <1>2, <1>3, <1>4, <1>5, <1>6, <1>7, <1>8, <1>9, <1>10, <1>11, <1>12, <1>13, <1>14
  DEF Next

\* A connection changes hands from an io thread to the pool, directly or by way of
\* add_task's wait.
LEMMA PlacedStep == IInv /\ [Next]_vars => Placed'
<1> SUFFICES ASSUME IInv, [Next]_vars PROVE Placed'
  OBVIOUS
<1> USE ServerAssumption DEF IInv, TypeOK, Placed, Phase, main, conns, block, pool, ArmAccept
<1>1. CASE Run \/ RunFails \/ AcceptFails
  BY <1>1 DEF Run, RunFails, AcceptFails
<1>2. ASSUME NEW c \in Client, Connect(c) \/ Request(c) \/ Reject(c) PROVE Placed'
  BY <1>2 DEF Connect, Request, Reject
<1>3. ASSUME NEW c \in Client, Accept(c) PROVE Placed'
  BY <1>3 DEF Accept
<1>4. ASSUME NEW c \in Client, Route(c) PROVE Placed'
  <2>1. ~Full /\ Enqueue(c) /\ adding' = adding
    BY <1>4 DEF Route
  <2>2. Range(waiting') = Range(waiting) \cup {c} /\ running' = running
    BY <2>1, EnqueueStep DEF Enqueue
  <2>3. phase' = [phase EXCEPT ![c] = "task"] /\ home' = [home EXCEPT ![c] = 0]
    BY <2>1 DEF Enqueue
  <2> QED
    BY <2>1, <2>2, <2>3
<1>5. ASSUME NEW c \in Client, RouteBlocked(c) PROVE Placed'
  BY <1>5 DEF RouteBlocked, Free
<1>6. ASSUME NEW i \in Ios, Added(i) PROVE Placed'
  <2>1. /\ adding[i] \in Client /\ ~Full /\ Enqueue(adding[i])
        /\ adding' = [adding EXCEPT ![i] = NoClient]
    BY <1>6, AddedStep
  <2>2. Range(waiting') = Range(waiting) \cup {adding[i]} /\ running' = running
    BY <2>1, EnqueueStep DEF Enqueue
  <2>3. /\ phase' = [phase EXCEPT ![adding[i]] = "task"]
        /\ home' = [home EXCEPT ![adding[i]] = 0]
        /\ adding' = [adding EXCEPT ![i] = NoClient]
    BY <2>1 DEF Enqueue
  <2> QED
    BY <2>1, <2>2, <2>3
<1>7. CASE Execute
  <2>1. waiting \in Seq(Client) /\ waiting # <<>> /\ waiting' = Tail(waiting)
        /\ running' = running \cup {Head(waiting)}
    BY <1>7 DEF Execute
  <2>2. Range(waiting) \cup running = Range(waiting') \cup running'
    BY <2>1, RangeTail
  <2> QED
    BY <1>7, <2>2 DEF Execute
<1>8. ASSUME NEW c \in Client, Answer(c) PROVE Placed'
  BY <1>8 DEF Answer
<1>9. CASE StopIoServices \/ StopThreads \/ StopPool
  BY <1>9 DEF StopIoServices, StopThreads, StopPool
<1>10. CASE DestroyServices
  BY <1>10 DEF DestroyServices, ShutDown
<1>11. CASE CleanTaskQueue
  BY <1>11 DEF CleanTaskQueue
<1>12. CASE SpuriousGet \/ \E i \in Ios : BlockedAgain(i) \/ SpuriousPut(i)
  BY <1>12 DEF SpuriousGet, BlockedAgain, SpuriousPut
<1>13. CASE UNCHANGED vars
  BY <1>13 DEF vars
<1> QED
  BY <1>1, <1>2, <1>3, <1>4, <1>5, <1>6, <1>7, <1>8, <1>9, <1>10, <1>11, <1>12, <1>13 DEF Next

\* No handler runs after the stop.
LEMMA ShutDownStep == IInv /\ [Next]_vars => ShutDown'
<1> SUFFICES ASSUME IInv, [Next]_vars PROVE ShutDown'
  OBVIOUS
<1> USE ServerAssumption DEF IInv, TypeOK, ShutDown, Phase, Free, main, conns, block, pool, ArmAccept
<1>1. CASE Run \/ RunFails \/ AcceptFails
  BY <1>1 DEF Run, RunFails, AcceptFails
<1>2. ASSUME NEW c \in Client, Connect(c) \/ Request(c) \/ Reject(c) PROVE ShutDown'
  BY <1>2 DEF Connect, Request, Reject
<1>3. ASSUME NEW c \in Client, Accept(c) \/ RouteBlocked(c) PROVE ShutDown'
  BY <1>3 DEF Accept, RouteBlocked
<1>4. ASSUME NEW c \in Client, Route(c) PROVE ShutDown'
  BY <1>4 DEF Route, Enqueue
<1>5. ASSUME NEW i \in Ios, Added(i) PROVE ShutDown'
  BY <1>5 DEF Added, Enqueue
<1>6. CASE Execute
  BY <1>6 DEF Execute
<1>7. ASSUME NEW c \in Client, Answer(c) PROVE ShutDown'
  BY <1>7 DEF Answer
<1>8. CASE StopIoServices \/ StopThreads
  BY <1>8 DEF StopIoServices, StopThreads
<1>9. CASE StopPool \/ CleanTaskQueue
  BY <1>9 DEF StopPool, CleanTaskQueue
<1>12. CASE DestroyServices
  <2>1. life' = "destroyed" /\ adding' = adding /\ closed' = closed /\ life = "joined"
    BY <1>12 DEF DestroyServices
  <2>2. \A c \in Client : phase'[c] \notin {"reading", "ready"}
    BY <1>12 DEF DestroyServices
  <2> QED
    BY <2>1, <2>2
<1>10. CASE SpuriousGet \/ \E i \in Ios : BlockedAgain(i) \/ SpuriousPut(i)
  BY <1>10 DEF SpuriousGet, BlockedAgain, SpuriousPut
<1>11. CASE UNCHANGED vars
  BY <1>11 DEF vars
<1> QED
  BY <1>1, <1>2, <1>3, <1>4, <1>5, <1>6, <1>7, <1>8, <1>9, <1>10, <1>11, <1>12 DEF Next

\* The strengthening is an invariant of the server.
LEMMA Invariance == Spec => []IInv
<1>1. Init => IInv
  <2> SUFFICES ASSUME Init PROVE IInv
    OBVIOUS
  <2> USE DEF Init
  <2>1. Placed /\ ShutDown
    BY DEF Placed, ShutDown
  <2>2. waiting \in Seq(Client) /\ Len(waiting) <= max_task_quque_size
    BY ServerAssumption, EmptySeq
  <2>3. TypeOK
    BY ServerAssumption, RotateType, IosHasFirst, <2>2 DEF TypeOK, Phase
  <2> QED
    BY <2>1, <2>3 DEF IInv
<1>2. IInv /\ [Next]_vars => IInv'
  BY TypeStep, PlacedStep, ShutDownStep DEF IInv
<1> QED
  BY <1>1, <1>2, PTL DEF Spec

-----------------------------------------------------------------------------
\* For any number of cores, connections are dealt out to io_services that exist,
\* and what blocked io threads add keeps to the bound of the queue.
THEOREM TypeCorrect == Spec => []TypeOK
BY Invariance, PTL DEF IInv

\* Whatever is under way when main returns, ~server leaves no connection behind
\* that an io thread or a handler holds: those that outlive it belong to tasks.
THEOREM OnlyTasksOutlive == Spec => []OrphansAreTasks
<1>1. IInv => OrphansAreTasks
  <2> SUFFICES ASSUME IInv, life \in {"destroyed", "exiting"}, NEW c \in Client, Alive(c)
               PROVE  c \in Range(waiting) \cup running
    BY DEF OrphansAreTasks
  <2>1. phase[c] # "adding"
    BY ServerAssumption DEF IInv, TypeOK, Placed, ShutDown
  <2> QED
    BY <2>1 DEF IInv, Placed, ShutDown, Alive
<1> QED
  BY <1>1, Invariance, PTL

-----------------------------------------------------------------------------
\* A routed request is in one place of the pool, and once: no two workers answer on
\* one connection, and none answers on a connection that waits.
RequestInOnePlace ==
    /\ \A i, j \in DOMAIN waiting : waiting[i] = waiting[j] => i = j
    /\ Range(waiting) \cap running = {}
    /\ \A c \in Range(waiting) \cup running : phase[c] = "task"
    /\ \A i \in Ios : adding[i] # NoClient => phase[adding[i]] = "adding" /\ home[adding[i]] = i

\* No more requests run than there are workers.
Staffed == IsFiniteSet(running) /\ Cardinality(running) <= thread_num

SInv == IInv /\ RequestInOnePlace /\ Staffed

\* The steps that neither take a connection out of the pool nor put one in, nor
\* change what the io threads wait with.
LEMMA PlacesKept ==
    ASSUME SInv, UNCHANGED <<waiting, running, adding>>,
           \A c \in Client : phase[c] \in {"task", "adding"} => phase'[c] = phase[c] /\ home'[c] = home[c]
    PROVE  RequestInOnePlace'
<1>1. Range(waiting) \subseteq Client /\ running \subseteq Client
  BY DEF SInv, IInv, TypeOK, Range
<1>2. \A i \in Ios : adding[i] # NoClient => adding[i] \in Client
  BY DEF SInv, IInv, TypeOK
<1> QED
  BY <1>1, <1>2 DEF SInv, RequestInOnePlace

\* What Route and Added do: a connection that was nowhere in the pool waits.
LEMMA EnqueuedOnce ==
    ASSUME SInv, NEW c \in Client, ~Full, Enqueue(c), phase[c] \in {"ready", "adding"}
    PROVE  /\ \A i, j \in DOMAIN waiting' : waiting'[i] = waiting'[j] => i = j
           /\ Range(waiting') \cap running' = {}
           /\ \A d \in Range(waiting') \cup running' : phase'[d] = "task"
<1>1. waiting \in Seq(Client) /\ c \notin Range(waiting) /\ c \notin running
  BY DEF SInv, IInv, TypeOK, RequestInOnePlace
<1>2. waiting' = Append(waiting, c) /\ running' = running /\ phase' = [phase EXCEPT ![c] = "task"]
  BY DEF Enqueue
<1>3. Range(waiting') = Range(waiting) \cup {c}
  BY EnqueueStep DEF SInv
<1>4. \A i, j \in DOMAIN waiting' : waiting'[i] = waiting'[j] => i = j
  BY <1>1, <1>2, InjectiveAppend DEF SInv, RequestInOnePlace
<1>5. Range(waiting) \subseteq Client /\ running \subseteq Client /\ phase \in [Client -> Phase]
  BY DEF SInv, IInv, TypeOK, Range
<1> QED
  BY <1>1, <1>2, <1>3, <1>4, <1>5 DEF SInv, RequestInOnePlace

\* The induction step of RequestInOnePlace.
LEMMA OnePlaceStep == SInv /\ [Next]_vars => RequestInOnePlace'
<1> SUFFICES ASSUME SInv, [Next]_vars PROVE RequestInOnePlace'
  OBVIOUS
<1>t. /\ TypeOK /\ Placed /\ ShutDown /\ RequestInOnePlace
      /\ Range(waiting) \subseteq Client /\ running \subseteq Client
  BY DEF SInv, IInv, TypeOK, Range
<1> USE ServerAssumption DEF TypeOK, Phase, main, conns, block, pool, ArmAccept, Free
<1>1. CASE Run \/ RunFails \/ AcceptFails
  BY <1>1, PlacesKept DEF Run, RunFails, AcceptFails
<1>2. ASSUME NEW c \in Client, Connect(c) \/ Request(c) \/ Reject(c) PROVE RequestInOnePlace'
  BY <1>2, <1>t, PlacesKept DEF Connect, Request, Reject
<1>3. ASSUME NEW c \in Client, Accept(c) PROVE RequestInOnePlace'
  BY <1>3, <1>t, PlacesKept DEF Accept
<1>4. ASSUME NEW c \in Client, Route(c) PROVE RequestInOnePlace'
  <2>1. ~Full /\ Enqueue(c) /\ adding' = adding /\ phase[c] = "ready"
    BY <1>4 DEF Route
  <2>2. \A i \in Ios : adding'[i] # NoClient =>
           phase'[adding'[i]] = "adding" /\ home'[adding'[i]] = i
    BY <1>t, <2>1 DEF Enqueue, RequestInOnePlace
  <2> QED
    BY <2>1, <2>2, EnqueuedOnce DEF RequestInOnePlace
<1>5. ASSUME NEW c \in Client, RouteBlocked(c) PROVE RequestInOnePlace'
  BY <1>5, <1>t DEF RouteBlocked, RequestInOnePlace
<1>6. ASSUME NEW i \in Ios, Added(i) PROVE RequestInOnePlace'
  <2> DEFINE c == adding[i]
  <2>1. c \in Client /\ ~Full /\ Enqueue(c) /\ phase[c] = "adding"
        /\ adding' = [adding EXCEPT ![i] = NoClient]
    BY <1>6, <1>t, AddedStep DEF RequestInOnePlace, SInv
  <2>2. \A j \in Ios : adding'[j] # NoClient => adding'[j] = adding[j] /\ adding[j] # c
    BY <1>t, <2>1 DEF RequestInOnePlace
  <2>3. \A j \in Ios : adding'[j] # NoClient =>
           phase'[adding'[j]] = "adding" /\ home'[adding'[j]] = j
    BY <1>t, <2>1, <2>2 DEF Enqueue, RequestInOnePlace
  <2> QED
    BY <2>1, <2>3, EnqueuedOnce DEF RequestInOnePlace
<1>7. CASE Execute
  <2>1. /\ waiting \in Seq(Client) /\ waiting # <<>> /\ waiting' = Tail(waiting)
        /\ running' = running \cup {Head(waiting)} /\ UNCHANGED <<phase, home, adding>>
    BY <1>7, <1>t DEF Execute
  <2>2. /\ Range(waiting) = {Head(waiting)} \cup Range(waiting')
        /\ Head(waiting) \notin Range(waiting')
    BY <1>t, <2>1, RangeTail DEF RequestInOnePlace
  <2>3. \A i, j \in DOMAIN waiting' : waiting'[i] = waiting'[j] => i = j
    BY <1>t, <2>1, InjectiveTail DEF RequestInOnePlace
  <2> QED
    BY <1>t, <2>1, <2>2, <2>3 DEF RequestInOnePlace
<1>8. ASSUME NEW c \in Client, Answer(c) PROVE RequestInOnePlace'
  BY <1>8, <1>t DEF Answer, RequestInOnePlace
<1>9. CASE StopIoServices \/ StopThreads \/ StopPool
  BY <1>9, PlacesKept DEF StopIoServices, StopThreads, StopPool
<1>10. CASE DestroyServices
  <2>1. \A i \in Ios : adding'[i] = NoClient
    BY <1>10, <1>t DEF DestroyServices, ShutDown
  <2> QED
    BY <1>10, <1>t, <2>1 DEF DestroyServices, RequestInOnePlace
<1>11. CASE CleanTaskQueue
  <2>1. /\ waiting' = <<>> /\ running' = {} /\ adding' = adding
        /\ \A i \in Ios : adding[i] = NoClient
    BY <1>11, <1>t DEF CleanTaskQueue, ShutDown
  <2>2. Range(waiting') = {} /\ DOMAIN waiting' = {}
    BY <2>1 DEF Range
  <2> QED
    BY <2>1, <2>2 DEF RequestInOnePlace
<1>12. CASE SpuriousGet \/ \E i \in Ios : BlockedAgain(i) \/ SpuriousPut(i)
  BY <1>12, PlacesKept DEF SpuriousGet, BlockedAgain, SpuriousPut
<1>13. CASE UNCHANGED vars
  BY <1>13, PlacesKept DEF vars
<1> QED
  BY <1>1, <1>2, <1>3, <1>4, <1>5, <1>6, <1>7, <1>8, <1>9, <1>10, <1>11, <1>12, <1>13 DEF Next

\* A worker takes one task at a time.
LEMMA StaffedStep == SInv /\ [Next]_vars => Staffed'
<1> SUFFICES ASSUME SInv, [Next]_vars PROVE Staffed'
  OBVIOUS
<1>t. TypeOK /\ Staffed /\ RequestInOnePlace
  BY DEF SInv, IInv
<1> USE <1>t, ServerAssumption DEF Staffed, main, conns, block, pool, ArmAccept
<1>1. CASE Run \/ RunFails \/ AcceptFails
  BY <1>1 DEF Run, RunFails, AcceptFails
<1>2. ASSUME NEW c \in Client, \/ Connect(c) \/ Request(c) \/ Reject(c) \/ Accept(c)
                               \/ RouteBlocked(c)
      PROVE  Staffed'
  BY <1>2 DEF Connect, Request, Reject, Accept, RouteBlocked
<1>3. ASSUME NEW c \in Client, Route(c) PROVE Staffed'
  BY <1>3 DEF Route, Enqueue
<1>4. ASSUME NEW i \in Ios, Added(i) PROVE Staffed'
  BY <1>4 DEF Added, Enqueue
<1>5. CASE Execute
  <2>1. /\ Cardinality(running) < thread_num /\ waiting # <<>>
        /\ running' = running \cup {Head(waiting)} /\ UNCHANGED life
    BY <1>5 DEF Execute
  <2>2. Head(waiting) \notin running
    BY <2>1, RangeTail DEF TypeOK, RequestInOnePlace
  <2>3. IsFiniteSet(running') /\ Cardinality(running') = Cardinality(running) + 1
    BY <2>1, <2>2, FS_AddElement
  <2>4. Cardinality(running) \in Nat
    BY FS_CardinalityType
  <2> QED
    BY <2>1, <2>3, <2>4
<1>6. ASSUME NEW c \in Client, Answer(c) PROVE Staffed'
  <2>1. /\ c \in running /\ running' = running \ {c} /\ UNCHANGED life
    BY <1>6 DEF Answer
  <2>2. IsFiniteSet(running') /\ Cardinality(running') = Cardinality(running) - 1
    BY <2>1, FS_RemoveElement
  <2>3. Cardinality(running) \in Nat
    BY FS_CardinalityType
  <2> QED
    BY <2>1, <2>2, <2>3
<1>7. CASE StopIoServices \/ StopThreads \/ DestroyServices \/ StopPool \/ CleanTaskQueue
  BY <1>7 DEF StopIoServices, StopThreads, DestroyServices, StopPool, CleanTaskQueue
<1>8. CASE SpuriousGet \/ \E i \in Ios : BlockedAgain(i) \/ SpuriousPut(i)
  BY <1>8 DEF SpuriousGet, BlockedAgain, SpuriousPut
<1>9. CASE UNCHANGED vars
  BY <1>9 DEF vars
<1> QED
  BY <1>1, <1>2, <1>3, <1>4, <1>5, <1>6, <1>7, <1>8, <1>9 DEF Next

\* The server's connections, io threads and workers, as one invariant.
LEMMA StaffInvariance == Spec => []SInv
<1>1. Init => RequestInOnePlace /\ Staffed
  <2> SUFFICES ASSUME Init PROVE RequestInOnePlace /\ Staffed
    OBVIOUS
  <2>1. Range(waiting) = {} /\ DOMAIN waiting = {} /\ running = {} /\ ~closed
    BY DEF Init, Range
  <2>2. IsFiniteSet(running) /\ Cardinality(running) = 0
    BY <2>1, FS_EmptySet
  <2>3. 0 <= thread_num
    BY ServerAssumption
  <2> QED
    BY <2>1, <2>2, <2>3 DEF Init, RequestInOnePlace, Staffed
<1>2. IInv /\ RequestInOnePlace /\ Staffed /\ [Next]_vars => RequestInOnePlace' /\ Staffed'
  BY OnePlaceStep, StaffedStep DEF SInv
<1> QED
  BY <1>1, <1>2, Invariance, PTL DEF Spec, SInv

\* However the two reads, add_task's wait, the workers and the shutdown interleave, a
\* request is in the hands of one thread, or of the queue once.
THEOREM OneHolder == Spec => []RequestInOnePlace
BY StaffInvariance, PTL DEF SInv

-----------------------------------------------------------------------------

\* The io threads that were woken in add_task.
WokenUp == {i \in Ios : Woken(i)}

\* What the pool guarantees its sleeping producers (NoProducerStranded), in the
\* server's terms: a place of the queue that is free was made by a request that still
\* runs, or is left to a woken io thread.
Accounted == asleep # {} => max_task_quque_size <= Len(waiting) + Cardinality(running)
                                                     + Cardinality(WokenUp)

\* Io threads can be counted.
LEMMA WokenCount ==
    /\ IsFiniteSet(WokenUp) /\ Cardinality(WokenUp) \in Nat
    /\ IsFiniteSet(WokenUp') /\ Cardinality(WokenUp') \in Nat
<1>1. IsFiniteSet(Ios)
  BY ServerAssumption, FS_Interval DEF Ios
<1> QED
  BY <1>1, FS_Subset, FS_CardinalityType DEF WokenUp

\* The induction step of Accounted: Execute trades a queued request for a running one,
\* Answer a running one for a woken io thread, Added that one for a queued request.
LEMMA AccountedStep == SInv /\ Accounted /\ [Next]_vars => Accounted'
<1> DEFINE Goal == max_task_quque_size <= Len(waiting') + Cardinality(running')
                                                        + Cardinality(WokenUp')
<1> SUFFICES ASSUME SInv, Accounted, [Next]_vars, asleep' # {} PROVE Goal
  BY DEF Accounted
<1>t. TypeOK /\ Staffed /\ ShutDown /\ RequestInOnePlace /\ IInv
  BY DEF SInv, IInv
<1>w. waiting \in Seq(Client) /\ waiting' \in Seq(Client) /\ IsFiniteSet(running)
      /\ adding \in [Ios -> Client \cup {NoClient}]
  BY <1>t, TypeStep DEF TypeOK, Staffed
<1>c. /\ Len(waiting) \in Nat /\ Len(waiting') \in Nat /\ max_task_quque_size \in Nat
      /\ Cardinality(running) \in Nat /\ Cardinality(running') \in Nat
      /\ Cardinality(WokenUp) \in Nat /\ Cardinality(WokenUp') \in Nat
  <2>1. IsFiniteSet(running')
    BY <1>t, StaffedStep DEF Staffed
  <2> QED
    BY <1>w, <2>1, ServerAssumption, WokenCount, FS_CardinalityType, LenProperties
<1>i. asleep # {} => max_task_quque_size <= Len(waiting) + Cardinality(running)
                                                         + Cardinality(WokenUp)
  BY DEF Accounted
<1>k. ASSUME UNCHANGED <<waiting, running, adding, asleep>> PROVE Goal
  <2>1. WokenUp' = WokenUp
    BY <1>k DEF WokenUp, Woken
  <2> QED
    BY <1>c, <1>i, <1>k, <2>1
<1>f. ASSUME Full, waiting' = waiting PROVE Goal
  BY <1>c, <1>f DEF Full
<1> HIDE DEF Goal
<1> USE DEF main, conns, block, pool, ArmAccept
<1>1. CASE Run \/ RunFails \/ AcceptFails
  BY <1>1, <1>k DEF Run, RunFails, AcceptFails
<1>2. ASSUME NEW c \in Client, Connect(c) \/ Request(c) \/ Reject(c) \/ Accept(c) PROVE Goal
  BY <1>2, <1>k DEF Connect, Request, Reject, Accept
<1>3. ASSUME NEW c \in Client, Route(c) PROVE Goal
  <2>1. /\ waiting' = Append(waiting, c) /\ UNCHANGED <<running, adding, asleep>>
    BY <1>3 DEF Route, Enqueue
  <2>2. WokenUp' = WokenUp /\ Len(waiting') = Len(waiting) + 1
    BY <1>w, <2>1 DEF WokenUp, Woken
  <2> QED
    BY <1>c, <1>i, <2>1, <2>2 DEF Goal
<1>4. ASSUME NEW c \in Client, RouteBlocked(c) PROVE Goal
  BY <1>4, <1>f DEF RouteBlocked
<1>5. ASSUME NEW i \in Ios, Added(i) PROVE Goal
  <2>1. /\ adding[i] \in Client /\ Enqueue(adding[i]) /\ i \notin asleep
        /\ adding' = [adding EXCEPT ![i] = NoClient]
    BY <1>5, <1>t, AddedStep
  <2>2. UNCHANGED <<running, asleep>> /\ Len(waiting') = Len(waiting) + 1
    BY <1>w, <2>1 DEF Enqueue
  <2>3. i \in WokenUp /\ WokenUp' = WokenUp \ {i}
    BY <1>w, <2>1, <2>2, ServerAssumption DEF WokenUp, Woken
  <2>4. Cardinality(WokenUp') = Cardinality(WokenUp) - 1
    BY <2>3, WokenCount, FS_RemoveElement
  <2> QED
    BY <1>c, <1>i, <2>2, <2>4 DEF Goal
<1>6. ASSUME NEW i \in Ios, BlockedAgain(i) PROVE Goal
  BY <1>6, <1>f DEF BlockedAgain
<1>7. ASSUME NEW i \in Ios, SpuriousPut(i) PROVE Goal
  <2>1. /\ i \in asleep /\ asleep' = asleep \ {i} /\ UNCHANGED <<waiting, running, adding>>
    BY <1>7 DEF SpuriousPut
  <2>2. i \notin WokenUp /\ WokenUp' = WokenUp \cup {i}
    BY <1>t, <2>1 DEF WokenUp, Woken, TypeOK
  <2>3. Cardinality(WokenUp') = Cardinality(WokenUp) + 1
    BY <2>2, WokenCount, FS_AddElement
  <2> QED
    BY <1>c, <1>i, <2>1, <2>3 DEF Goal
<1>8. CASE Execute
  <2>1. /\ waiting # <<>> /\ waiting' = Tail(waiting)
        /\ running' = running \cup {Head(waiting)} /\ UNCHANGED <<adding, asleep>>
    BY <1>8 DEF Execute
  <2>2. Head(waiting) \notin running /\ Len(waiting') = Len(waiting) - 1
    BY <1>t, <1>w, <2>1, RangeTail DEF RequestInOnePlace
  <2>3. Cardinality(running') = Cardinality(running) + 1
    BY <1>w, <2>1, <2>2, FS_AddElement
  <2>4. WokenUp' = WokenUp
    BY <2>1 DEF WokenUp, Woken
  <2> QED
    BY <1>c, <1>i, <2>1, <2>2, <2>3, <2>4 DEF Goal
<1>9. ASSUME NEW c \in Client, Answer(c) PROVE Goal
  <2>1. c \in running /\ running' = running \ {c} /\ UNCHANGED <<waiting, adding>>
    BY <1>9 DEF Answer
  <2>2. Cardinality(running') = Cardinality(running) - 1
    BY <1>w, <2>1, FS_RemoveElement
  <2>3. PICK i \in asleep : asleep' = asleep \ {i}
    BY <1>9 DEF Answer, NotifyPut
  <2>4. i \notin WokenUp /\ WokenUp' = WokenUp \cup {i}
    BY <1>t, <2>1, <2>3 DEF WokenUp, Woken, TypeOK
  <2>5. Cardinality(WokenUp') = Cardinality(WokenUp) + 1
    BY <2>4, WokenCount, FS_AddElement
  <2> QED
    BY <1>c, <1>i, <2>1, <2>2, <2>3, <2>5 DEF Goal
<1>10. CASE SpuriousGet \/ StopIoServices \/ StopThreads \/ DestroyServices \/ StopPool
  BY <1>10, <1>k DEF SpuriousGet, StopIoServices, StopThreads, DestroyServices, StopPool
<1>11. CASE CleanTaskQueue
  <2>1. asleep' = {}
    BY <1>11, <1>t DEF CleanTaskQueue, ShutDown, TypeOK
  <2> QED
    BY <2>1
<1>12. CASE UNCHANGED vars
  BY <1>12, <1>k DEF vars
<1> QED
  BY <1>1, <1>2, <1>3, <1>4, <1>5, <1>6, <1>7, <1>8, <1>9, <1>10, <1>11, <1>12 DEF Next

\* add_task's places, tasks and sleepers are accounted for in every state.
LEMMA AccountedInvariance == Spec => []Accounted
<1>1. Init => Accounted
  BY DEF Init, Accounted
<1> QED
  BY <1>1, AccountedStep, StaffInvariance, PTL DEF Spec

\* For any number of cores, workers and clients and any bound of the queue: no io
\* thread, the accepting one among them, is left asleep in add_task while fewer
\* clients refuse to read than there are workers and places (thread_pool.hpp has 30
\* of the one at most and 100000 of the other), although popping makes room in silence
\* and a task that does not return takes its wake-up with it.  The order of the
\* destructors spares the io threads thread_pool::stop.
THEOREM BlockedServiceCanMove == Spec => []NoServiceDeadlock
<1>1. SInv /\ Accounted => NoServiceDeadlock
  <2> SUFFICES ASSUME SInv, Accounted, asleep # {} PROVE ~closed /\ (FewMute => CanMove)
    BY DEF NoServiceDeadlock
  <2>1. ~closed
    BY DEF SInv, IInv, ShutDown, TypeOK
  <2>2. ASSUME FewMute, ~CanMove PROVE FALSE
    <3>1. WokenUp = {} /\ running \subseteq Mute
      BY <2>2 DEF CanMove, WokenUp
    <3>2. Cardinality(running) <= Cardinality(Mute) /\ Cardinality(Mute) \in Nat
          /\ Cardinality(running) \in Nat
      BY <3>1, ServerAssumption, FS_Subset, FS_CardinalityType
    <3>3. max_task_quque_size <= Len(waiting) + Cardinality(running)
          /\ waiting \in Seq(Client) /\ Len(waiting) \in Nat
      <4>1. Cardinality(WokenUp) = 0
        BY <3>1, FS_EmptySet
      <4>2. waiting \in Seq(Client) /\ Len(waiting) \in Nat
        BY LenProperties DEF SInv, IInv, TypeOK
      <4> QED
        BY <3>2, <4>1, <4>2 DEF Accounted
    <3>4. Len(waiting) # 0
      BY <2>2, <3>2, <3>3, ServerAssumption DEF FewMute
    <3>5. waiting # <<>> /\ Cardinality(running) < thread_num
      BY <2>2, <3>2, <3>3, <3>4, ServerAssumption DEF FewMute
    <3> QED
      BY <2>2, <3>5 DEF CanMove
  <2> QED
    BY <2>1, <2>2
<1> QED
  BY <1>1, StaffInvariance, AccountedInvariance, PTL

=============================================================================
