--------------------------- MODULE ThreadPoolProofs ---------------------------
(***************************************************************************)
(* What ThreadPool's checked invariants need for a proof, and the proof,   *)
(* for any number of workers, producers, callers of stop and tasks and for *)
(* any queue size: first that no wake-up is lost, then where each task is  *)
(* and how many there are, then that the pool implements TaskQueue.        *)
(***************************************************************************)
EXTENDS ThreadPool, SequenceLemmas, FiniteSetTheorems

\* A thread holds a task exactly while its place in the code says so.
Holding ==
    /\ \A w \in Worker : wpc[w] = "run" <=> wtask[w] # NoTask
    /\ \A p \in Producer : ppc[p] \in {"put", "towait", "asleep"} <=> ptask[p] # NoTask

\* A thread between the test of its wait condition and its sleep holds the
\* mutex, so what it saw of the queue is still so.
WaitConditionHolds ==
    /\ \A w \in Worker : wpc[w] = "towait" => task_queue = <<>>
    /\ \A p \in Producer : ppc[p] = "towait" => Full

\* Who has passed where implies what has happened before.
Order ==
    /\ \A w \in Worker : wpc[w] = "exited" => is_stop
    /\ \A s \in Stopper : spc[s] \in {"notify", "join", "clean"} => is_stop
    /\ (\E p \in Producer : ppc[p] # "idle") => \E w \in Worker : wpc[w] # "unborn"

IInv == /\ TypeOK
        /\ Holding
        /\ WaitConditionHolds
        /\ Order
        /\ NoTaskStranded
        /\ NoProducerStranded

-----------------------------------------------------------------------------
\* The two signals of the pool: who may be woken, and that a sleeper is.
LEMMA NotifyGetWakes ==
    ASSUME TypeOK, NEW p \in Producer, NotifyGet(p)
    PROVE  /\ wpc' \in [Worker -> WorkerPC]
           /\ \A w \in Worker : wpc'[w] = wpc[w] \/ (wpc[w] = "asleep" /\ wpc'[w] = "fetch")
           /\ (\E w \in Worker : wpc[w] = "asleep") => \E w \in Worker : wpc'[w] = "fetch"
<1>1. wpc \in [Worker -> WorkerPC] /\ "fetch" \in WorkerPC
  BY DEF TypeOK, WorkerPC
<1>2. wpc' \in NotifyOne(wpc, "fetch")
  BY DEF NotifyGet
<1>3. CASE \A x \in Worker : wpc[x] # "asleep"
  BY <1>1, <1>2, <1>3 DEF NotifyOne, Sleeping
<1>4. CASE \E x \in Worker : wpc[x] = "asleep"
  <2>1. PICK x \in Worker : wpc[x] = "asleep" /\ wpc' = [wpc EXCEPT ![x] = "fetch"]
    BY <1>1, <1>2, <1>4 DEF NotifyOne, Sleeping
  <2> QED
    BY <1>1, <2>1
<1> QED
  BY <1>3, <1>4

\* notify_one on task_put_ wakes one producer that sleeps, or finds none.
LEMMA NotifyPutWakes ==
    ASSUME TypeOK, NEW v \in Worker, NotifyPut(v)
    PROVE  /\ ppc' \in [Producer -> ProducerPC]
           /\ \A p \in Producer : ppc'[p] = ppc[p] \/ (ppc[p] = "asleep" /\ ppc'[p] = "put")
           /\ (\E p \in Producer : ppc[p] = "asleep") => \E p \in Producer : ppc'[p] = "put"
<1>1. ppc \in [Producer -> ProducerPC] /\ "put" \in ProducerPC
  BY DEF TypeOK, ProducerPC
<1>2. ppc' \in NotifyOne(ppc, "put")
  BY DEF NotifyPut
<1>3. CASE \A x \in Producer : ppc[x] # "asleep"
  BY <1>1, <1>2, <1>3 DEF NotifyOne, Sleeping
<1>4. CASE \E x \in Producer : ppc[x] = "asleep"
  <2>1. PICK x \in Producer : ppc[x] = "asleep" /\ ppc' = [ppc EXCEPT ![x] = "put"]
    BY <1>1, <1>2, <1>4 DEF NotifyOne, Sleeping
  <2> QED
    BY <1>1, <2>1
<1> QED
  BY <1>3, <1>4

\* The induction step of the type invariant.
LEMMA TypeStep == TypeOK /\ Holding /\ [Next]_vars => TypeOK'
<1> SUFFICES ASSUME TypeOK /\ Holding, [Next]_vars PROVE TypeOK'
  OBVIOUS
<1> USE DEF TypeOK, Holding, WorkerPC, ProducerPC, StopperPC
<1>1. ASSUME NEW num \in 1..max_thread_size, InitThreadNum(num) PROVE TypeOK'
  BY <1>1 DEF InitThreadNum
<1>2. ASSUME NEW p \in Producer, NEW t \in Task, AddTask(p, t) PROVE TypeOK'
  BY <1>2 DEF AddTask
<1>3. ASSUME NEW p \in Producer, Put(p) PROVE TypeOK'
  BY <1>3 DEF Put
<1>4. ASSUME NEW p \in Producer, PutBlocked(p) PROVE TypeOK'
  BY <1>4 DEF PutBlocked
<1>5. ASSUME NEW p \in Producer, PutSleep(p) PROVE TypeOK'
  BY <1>5 DEF PutSleep
<1>6. ASSUME NEW p \in Producer, NotifyGet(p) PROVE TypeOK'
  BY <1>6, NotifyGetWakes DEF NotifyGet
<1>7. ASSUME NEW p \in Producer, SpuriousPut(p) PROVE TypeOK'
  BY <1>7 DEF SpuriousPut
<1>8. ASSUME NEW w \in Worker, Quit(w) PROVE TypeOK'
  BY <1>8 DEF Quit
<1>9. ASSUME NEW w \in Worker, TakeTask(w) PROVE TypeOK'
  BY <1>9 DEF TakeTask
<1>10. ASSUME NEW w \in Worker, FetchBlocked(w) PROVE TypeOK'
  BY <1>10 DEF FetchBlocked
<1>11. ASSUME NEW w \in Worker, FetchSleep(w) PROVE TypeOK'
  BY <1>11 DEF FetchSleep
<1>12. ASSUME NEW w \in Worker, RunTask(w) PROVE TypeOK'
  BY <1>12 DEF RunTask
<1>13. ASSUME NEW w \in Worker, NotifyPut(w) PROVE TypeOK'
  BY <1>13, NotifyPutWakes DEF NotifyPut
<1>14. ASSUME NEW w \in Worker, SpuriousGet(w) PROVE TypeOK'
  BY <1>14 DEF SpuriousGet
<1>15. ASSUME NEW s \in Stopper, Stop(s) PROVE TypeOK'
  BY <1>15 DEF Stop
<1>16. ASSUME NEW s \in Stopper, NotifyAll(s) PROVE TypeOK'
  BY <1>16 DEF NotifyAll
<1>17. ASSUME NEW s \in Stopper, Join(s) PROVE TypeOK'
  BY <1>17 DEF Join
<1>18. ASSUME NEW s \in Stopper, CleanTaskQueue(s) PROVE TypeOK'
  BY <1>18 DEF CleanTaskQueue
<1>19. ASSUME NEW s \in Stopper, StopAgain(s) PROVE TypeOK'
  BY <1>19 DEF StopAgain
<1>20. CASE UNCHANGED vars
  BY <1>20 DEF vars
<1> QED
  BY <1>1, <1>2, <1>3, <1>4, <1>5, <1>6, <1>7, <1>8, <1>9, <1>10, <1>11, <1>12, <1>13, <1>14, <1>15, <1>16, <1>17, <1>18, <1>19, <1>20 DEF Next

\* A thread takes and gives away its task as it moves.
LEMMA HoldingStep == TypeOK /\ Holding /\ [Next]_vars => Holding'
<1> SUFFICES ASSUME TypeOK /\ Holding, [Next]_vars PROVE Holding'
  OBVIOUS
<1> USE PoolAssumption DEF TypeOK, Holding, WorkerPC, ProducerPC
<1>1. ASSUME NEW num \in 1..max_thread_size, InitThreadNum(num) PROVE Holding'
  BY <1>1 DEF InitThreadNum
<1>2. ASSUME NEW p \in Producer, NEW t \in Task, AddTask(p, t) PROVE Holding'
  BY <1>2 DEF AddTask
<1>3. ASSUME NEW p \in Producer, Put(p) PROVE Holding'
  BY <1>3 DEF Put
<1>4. ASSUME NEW p \in Producer, PutBlocked(p) PROVE Holding'
  BY <1>4 DEF PutBlocked
<1>5. ASSUME NEW p \in Producer, PutSleep(p) PROVE Holding'
  BY <1>5 DEF PutSleep
<1>6. ASSUME NEW p \in Producer, NotifyGet(p) PROVE Holding'
  BY <1>6, NotifyGetWakes DEF NotifyGet
<1>7. ASSUME NEW p \in Producer, SpuriousPut(p) PROVE Holding'
  BY <1>7 DEF SpuriousPut
<1>8. ASSUME NEW w \in Worker, Quit(w) PROVE Holding'
  BY <1>8 DEF Quit
<1>9. ASSUME NEW w \in Worker, TakeTask(w) PROVE Holding'
  BY <1>9 DEF TakeTask
<1>10. ASSUME NEW w \in Worker, FetchBlocked(w) PROVE Holding'
  BY <1>10 DEF FetchBlocked
<1>11. ASSUME NEW w \in Worker, FetchSleep(w) PROVE Holding'
  BY <1>11 DEF FetchSleep
<1>12. ASSUME NEW w \in Worker, RunTask(w) PROVE Holding'
  BY <1>12 DEF RunTask
<1>13. ASSUME NEW w \in Worker, NotifyPut(w) PROVE Holding'
  BY <1>13, NotifyPutWakes DEF NotifyPut
<1>14. ASSUME NEW w \in Worker, SpuriousGet(w) PROVE Holding'
  BY <1>14 DEF SpuriousGet
<1>15. ASSUME NEW s \in Stopper, Stop(s) PROVE Holding'
  BY <1>15 DEF Stop
<1>16. ASSUME NEW s \in Stopper, NotifyAll(s) PROVE Holding'
  BY <1>16 DEF NotifyAll
<1>17. ASSUME NEW s \in Stopper, Join(s) PROVE Holding'
  BY <1>17 DEF Join
<1>18. ASSUME NEW s \in Stopper, CleanTaskQueue(s) PROVE Holding'
  BY <1>18 DEF CleanTaskQueue
<1>19. ASSUME NEW s \in Stopper, StopAgain(s) PROVE Holding'
  BY <1>19 DEF StopAgain
<1>20. CASE UNCHANGED vars
  BY <1>20 DEF vars
<1> QED
  BY <1>1, <1>2, <1>3, <1>4, <1>5, <1>6, <1>7, <1>8, <1>9, <1>10, <1>11, <1>12, <1>13, <1>14, <1>15, <1>16, <1>17, <1>18, <1>19, <1>20 DEF Next

\* While a thread keeps the mutex, nobody changes the queue.
LEMMA WaitConditionStep == TypeOK /\ WaitConditionHolds /\ [Next]_vars => WaitConditionHolds'
<1> SUFFICES ASSUME TypeOK /\ WaitConditionHolds, [Next]_vars PROVE WaitConditionHolds'
  OBVIOUS
<1> USE PoolAssumption DEF TypeOK, WaitConditionHolds, MutexFree, Full, WorkerPC, ProducerPC
<1>1. ASSUME NEW num \in 1..max_thread_size, InitThreadNum(num) PROVE WaitConditionHolds'
  BY <1>1 DEF InitThreadNum
<1>2. ASSUME NEW p \in Producer, NEW t \in Task, AddTask(p, t) PROVE WaitConditionHolds'
  BY <1>2 DEF AddTask
<1>3. ASSUME NEW p \in Producer, Put(p) PROVE WaitConditionHolds'
  BY <1>3 DEF Put
<1>4. ASSUME NEW p \in Producer, PutBlocked(p) PROVE WaitConditionHolds'
  BY <1>4 DEF PutBlocked
<1>5. ASSUME NEW p \in Producer, PutSleep(p) PROVE WaitConditionHolds'
  BY <1>5 DEF PutSleep
<1>6. ASSUME NEW p \in Producer, NotifyGet(p) PROVE WaitConditionHolds'
  BY <1>6, NotifyGetWakes DEF NotifyGet
<1>7. ASSUME NEW p \in Producer, SpuriousPut(p) PROVE WaitConditionHolds'
  BY <1>7 DEF SpuriousPut
<1>8. ASSUME NEW w \in Worker, Quit(w) PROVE WaitConditionHolds'
  BY <1>8 DEF Quit
<1>9. ASSUME NEW w \in Worker, TakeTask(w) PROVE WaitConditionHolds'
  BY <1>9 DEF TakeTask
<1>10. ASSUME NEW w \in Worker, FetchBlocked(w) PROVE WaitConditionHolds'
  BY <1>10 DEF FetchBlocked
<1>11. ASSUME NEW w \in Worker, FetchSleep(w) PROVE WaitConditionHolds'
  BY <1>11 DEF FetchSleep
<1>12. ASSUME NEW w \in Worker, RunTask(w) PROVE WaitConditionHolds'
  BY <1>12 DEF RunTask
<1>13. ASSUME NEW w \in Worker, NotifyPut(w) PROVE WaitConditionHolds'
  BY <1>13, NotifyPutWakes DEF NotifyPut
<1>14. ASSUME NEW w \in Worker, SpuriousGet(w) PROVE WaitConditionHolds'
  BY <1>14 DEF SpuriousGet
<1>15. ASSUME NEW s \in Stopper, Stop(s) PROVE WaitConditionHolds'
  BY <1>15 DEF Stop
<1>16. ASSUME NEW s \in Stopper, NotifyAll(s) PROVE WaitConditionHolds'
  BY <1>16 DEF NotifyAll
<1>17. ASSUME NEW s \in Stopper, Join(s) PROVE WaitConditionHolds'
  BY <1>17 DEF Join
<1>18. ASSUME NEW s \in Stopper, CleanTaskQueue(s) PROVE WaitConditionHolds'
  BY <1>18 DEF CleanTaskQueue
<1>19. ASSUME NEW s \in Stopper, StopAgain(s) PROVE WaitConditionHolds'
  BY <1>19 DEF StopAgain
<1>20. CASE UNCHANGED vars
  BY <1>20 DEF vars
<1> QED
  BY <1>1, <1>2, <1>3, <1>4, <1>5, <1>6, <1>7, <1>8, <1>9, <1>10, <1>11, <1>12, <1>13, <1>14, <1>15, <1>16, <1>17, <1>18, <1>19, <1>20 DEF Next

\* What has been passed stays passed.
LEMMA OrderStep == TypeOK /\ Order /\ [Next]_vars => Order'
<1> SUFFICES ASSUME TypeOK /\ Order, [Next]_vars PROVE Order'
  OBVIOUS
<1> USE PoolAssumption DEF TypeOK, Order, WorkerPC, ProducerPC, StopperPC
<1>1. ASSUME NEW num \in 1..max_thread_size, InitThreadNum(num) PROVE Order'
  BY <1>1 DEF InitThreadNum
<1>2. ASSUME NEW p \in Producer, NEW t \in Task, AddTask(p, t) PROVE Order'
  BY <1>2 DEF AddTask
<1>3. ASSUME NEW p \in Producer, Put(p) PROVE Order'
  BY <1>3 DEF Put
<1>4. ASSUME NEW p \in Producer, PutBlocked(p) PROVE Order'
  BY <1>4 DEF PutBlocked
<1>5. ASSUME NEW p \in Producer, PutSleep(p) PROVE Order'
  BY <1>5 DEF PutSleep
<1>6. ASSUME NEW p \in Producer, NotifyGet(p) PROVE Order'
  BY <1>6, NotifyGetWakes DEF NotifyGet
<1>7. ASSUME NEW p \in Producer, SpuriousPut(p) PROVE Order'
  BY <1>7 DEF SpuriousPut
<1>8. ASSUME NEW w \in Worker, Quit(w) PROVE Order'
  BY <1>8 DEF Quit
<1>9. ASSUME NEW w \in Worker, TakeTask(w) PROVE Order'
  BY <1>9 DEF TakeTask
<1>10. ASSUME NEW w \in Worker, FetchBlocked(w) PROVE Order'
  BY <1>10 DEF FetchBlocked
<1>11. ASSUME NEW w \in Worker, FetchSleep(w) PROVE Order'
  BY <1>11 DEF FetchSleep
<1>12. ASSUME NEW w \in Worker, RunTask(w) PROVE Order'
  BY <1>12 DEF RunTask
<1>13. ASSUME NEW w \in Worker, NotifyPut(w) PROVE Order'
  BY <1>13, NotifyPutWakes DEF NotifyPut
<1>14. ASSUME NEW w \in Worker, SpuriousGet(w) PROVE Order'
  BY <1>14 DEF SpuriousGet
<1>15. ASSUME NEW s \in Stopper, Stop(s) PROVE Order'
  BY <1>15 DEF Stop
<1>16. ASSUME NEW s \in Stopper, NotifyAll(s) PROVE Order'
  BY <1>16 DEF NotifyAll
<1>17. ASSUME NEW s \in Stopper, Join(s) PROVE Order'
  BY <1>17 DEF Join
<1>18. ASSUME NEW s \in Stopper, CleanTaskQueue(s) PROVE Order'
  BY <1>18 DEF CleanTaskQueue
<1>19. ASSUME NEW s \in Stopper, StopAgain(s) PROVE Order'
  BY <1>19 DEF StopAgain
<1>20. CASE UNCHANGED vars
  BY <1>20 DEF vars
<1> QED
  BY <1>1, <1>2, <1>3, <1>4, <1>5, <1>6, <1>7, <1>8, <1>9, <1>10, <1>11, <1>12, <1>13, <1>14, <1>15, <1>16, <1>17, <1>18, <1>19, <1>20 DEF Next

\* The threads NoTaskStranded counts, and those NoProducerStranded counts.
Fetching   == At(wpc, {"fetch"})
Signalling == At(ppc, {"getsig"})
Busy       == At(wpc, {"run", "putsig"})
Putting    == At(ppc, {"put"})

\* Workers and io threads can be counted.
LEMMA Counts ==
    ASSUME TypeOK
    PROVE  /\ Cardinality(Fetching) \in Nat /\ Cardinality(Signalling) \in Nat
           /\ Cardinality(Busy) \in Nat /\ Cardinality(Putting) \in Nat
           /\ Len(task_queue) \in Nat
<1>1. /\ IsFiniteSet(Fetching) /\ IsFiniteSet(Busy)
      /\ IsFiniteSet(Signalling) /\ IsFiniteSet(Putting)
  BY PoolAssumption, FS_Subset DEF Fetching, Busy, Signalling, Putting, At, TypeOK
<1> QED
  BY <1>1, FS_CardinalityType, LenProperties DEF TypeOK

\* What a step of one worker does to the counts.
LEMMA WorkerMoves ==
    ASSUME TypeOK, NEW w \in Worker, NEW v \in WorkerPC, wpc' = [wpc EXCEPT ![w] = v]
    PROVE  /\ wpc[w] = "fetch" /\ v # "fetch" => Cardinality(Fetching') = Cardinality(Fetching) - 1
           /\ wpc[w] # "fetch" /\ v = "fetch" => Cardinality(Fetching') = Cardinality(Fetching) + 1
           /\ wpc[w] # "fetch" /\ v # "fetch" => Fetching' = Fetching
           /\ wpc[w] \notin {"run", "putsig"} /\ v = "run"
                  => Cardinality(Busy') = Cardinality(Busy) + 1
           /\ wpc[w] = "putsig" /\ v = "fetch" => Cardinality(Busy') = Cardinality(Busy) - 1
           /\ (wpc[w] \in {"run", "putsig"} <=> v \in {"run", "putsig"}) => Busy' = Busy
           /\ Cardinality(Fetching) \in Nat /\ Cardinality(Fetching') \in Nat
           /\ Cardinality(Busy) \in Nat /\ Cardinality(Busy') \in Nat
<1>1. wpc \in [Worker -> WorkerPC] /\ wpc' \in [Worker -> WorkerPC] /\ wpc' = [wpc EXCEPT ![w] = v]
  BY DEF TypeOK
<1>2. IsFiniteSet(Fetching) /\ IsFiniteSet(Busy) /\ IsFiniteSet(Fetching') /\ IsFiniteSet(Busy')
  BY <1>1, PoolAssumption, FS_Subset DEF Fetching, Busy, At
<1>3. ASSUME wpc[w] = "fetch", v # "fetch" PROVE Cardinality(Fetching') = Cardinality(Fetching) - 1
  <2>1. w \in Fetching /\ Fetching' = Fetching \ {w}
    BY <1>1, <1>3 DEF Fetching, At
  <2> QED
    BY <1>2, <2>1, FS_RemoveElement
<1>4. ASSUME wpc[w] # "fetch", v = "fetch" PROVE Cardinality(Fetching') = Cardinality(Fetching) + 1
  <2>1. w \notin Fetching /\ Fetching' = Fetching \cup {w}
    BY <1>1, <1>4 DEF Fetching, At
  <2> QED
    BY <1>2, <2>1, FS_AddElement
<1>5. ASSUME wpc[w] # "fetch", v # "fetch" PROVE Fetching' = Fetching
  BY <1>1, <1>5 DEF Fetching, At
<1>6. ASSUME wpc[w] \notin {"run", "putsig"}, v = "run" PROVE Cardinality(Busy') = Cardinality(Busy) + 1
  <2>1. w \notin Busy /\ Busy' = Busy \cup {w}
    BY <1>1, <1>6 DEF Busy, At
  <2> QED
    BY <1>2, <2>1, FS_AddElement
<1>7. ASSUME wpc[w] = "putsig", v = "fetch" PROVE Cardinality(Busy') = Cardinality(Busy) - 1
  <2>1. w \in Busy /\ Busy' = Busy \ {w}
    BY <1>1, <1>7 DEF Busy, At
  <2> QED
    BY <1>2, <2>1, FS_RemoveElement
<1>8. ASSUME wpc[w] \in {"run", "putsig"} <=> v \in {"run", "putsig"} PROVE Busy' = Busy
  BY <1>1, <1>8 DEF Busy, At
<1> QED
  BY <1>2, FS_CardinalityType, <1>3, <1>4, <1>5, <1>6, <1>7, <1>8

\* What a step of one io thread does to the counts.
LEMMA ProducerMoves ==
    ASSUME TypeOK, NEW p \in Producer, NEW v \in ProducerPC, ppc' = [ppc EXCEPT ![p] = v]
    PROVE  /\ ppc[p] = "getsig" /\ v # "getsig"
                  => Cardinality(Signalling') = Cardinality(Signalling) - 1
           /\ ppc[p] # "getsig" /\ v = "getsig"
                  => Cardinality(Signalling') = Cardinality(Signalling) + 1
           /\ ppc[p] # "getsig" /\ v # "getsig" => Signalling' = Signalling
           /\ ppc[p] = "put" /\ v # "put" => Cardinality(Putting') = Cardinality(Putting) - 1
           /\ ppc[p] # "put" /\ v = "put" => Cardinality(Putting') = Cardinality(Putting) + 1
           /\ ppc[p] # "put" /\ v # "put" => Putting' = Putting
           /\ Cardinality(Signalling) \in Nat /\ Cardinality(Signalling') \in Nat
           /\ Cardinality(Putting) \in Nat /\ Cardinality(Putting') \in Nat
<1>1. ppc \in [Producer -> ProducerPC] /\ ppc' \in [Producer -> ProducerPC] /\ ppc' = [ppc EXCEPT ![p] = v]
  BY DEF TypeOK
<1>2. IsFiniteSet(Signalling) /\ IsFiniteSet(Putting) /\ IsFiniteSet(Signalling') /\ IsFiniteSet(Putting')
  BY <1>1, PoolAssumption, FS_Subset DEF Signalling, Putting, At
<1>3. ASSUME ppc[p] = "getsig", v # "getsig" PROVE Cardinality(Signalling') = Cardinality(Signalling) - 1
  <2>1. p \in Signalling /\ Signalling' = Signalling \ {p}
    BY <1>1, <1>3 DEF Signalling, At
  <2> QED
    BY <1>2, <2>1, FS_RemoveElement
<1>4. ASSUME ppc[p] # "getsig", v = "getsig" PROVE Cardinality(Signalling') = Cardinality(Signalling) + 1
  <2>1. p \notin Signalling /\ Signalling' = Signalling \cup {p}
    BY <1>1, <1>4 DEF Signalling, At
  <2> QED
    BY <1>2, <2>1, FS_AddElement
<1>5. ASSUME ppc[p] # "getsig", v # "getsig" PROVE Signalling' = Signalling
  BY <1>1, <1>5 DEF Signalling, At
<1>6. ASSUME ppc[p] = "put", v # "put" PROVE Cardinality(Putting') = Cardinality(Putting) - 1
  <2>1. p \in Putting /\ Putting' = Putting \ {p}
    BY <1>1, <1>6 DEF Putting, At
  <2> QED
    BY <1>2, <2>1, FS_RemoveElement
<1>7. ASSUME ppc[p] # "put", v = "put" PROVE Cardinality(Putting') = Cardinality(Putting) + 1
  <2>1. p \notin Putting /\ Putting' = Putting \cup {p}
    BY <1>1, <1>7 DEF Putting, At
  <2> QED
    BY <1>2, <2>1, FS_AddElement
<1>8. ASSUME ppc[p] # "put", v # "put" PROVE Putting' = Putting
  BY <1>1, <1>8 DEF Putting, At
<1> QED
  BY <1>2, FS_CardinalityType, <1>3, <1>4, <1>5, <1>6, <1>7, <1>8

\* notify_one finds nobody asleep, or moves one sleeper.
LEMMA NotifyGetMoves ==
    ASSUME TypeOK, NEW p \in Producer, NotifyGet(p)
    PROVE  \/ Sleeping(wpc) = {} /\ wpc' = wpc
           \/ \E w \in Worker : wpc[w] = "asleep" /\ wpc' = [wpc EXCEPT ![w] = "fetch"]
BY DEF NotifyGet, NotifyOne, Sleeping, TypeOK

\* The same on task_put_.
LEMMA NotifyPutMoves ==
    ASSUME TypeOK, NEW w \in Worker, NotifyPut(w)
    PROVE  \/ Sleeping(ppc) = {} /\ ppc' = ppc
           \/ \E p \in Producer : ppc[p] = "asleep" /\ ppc' = [ppc EXCEPT ![p] = "put"]
BY DEF NotifyPut, NotifyOne, Sleeping, TypeOK

\* The induction step of NoTaskStranded: whatever adds to the queue or takes a thread
\* from those that count gives the one or takes the other as well, and a worker goes
\* to sleep on an empty queue only.
LEMMA NoTaskStrandedStep == IInv /\ [Next]_vars => NoTaskStranded'
<1> DEFINE Goal == Len(task_queue') <= Cardinality(Fetching') + Cardinality(Signalling')
<1> SUFFICES ASSUME IInv, [Next]_vars, ~is_stop', Sleeping(wpc') # {}
             PROVE  Goal
  BY DEF NoTaskStranded, Fetching, Signalling
<1>t. TypeOK /\ TypeOK' /\ PoolAssumption
  BY PoolAssumption, TypeStep DEF IInv
<1>c. /\ Cardinality(Fetching) \in Nat /\ Cardinality(Signalling) \in Nat
      /\ Cardinality(Fetching') \in Nat /\ Cardinality(Signalling') \in Nat
      /\ Len(task_queue) \in Nat /\ Len(task_queue') \in Nat
  <2>1. IsFiniteSet(Fetching') /\ IsFiniteSet(Signalling')
    BY <1>t, FS_Subset DEF Fetching, Signalling, At, TypeOK
  <2> QED
    BY <1>t, <2>1, Counts, FS_CardinalityType, LenProperties DEF TypeOK
<1>i. ~is_stop /\ Sleeping(wpc) # {}
         => Len(task_queue) <= Cardinality(Fetching) + Cardinality(Signalling)
  BY DEF IInv, NoTaskStranded, Fetching, Signalling
<1>s. Sleeping(wpc) = {x \in Worker : wpc[x] = "asleep"}
      /\ Sleeping(wpc') = {x \in Worker : wpc'[x] = "asleep"}
  BY <1>t DEF Sleeping, TypeOK
<1>e. ASSUME task_queue' = <<>> PROVE Goal
  BY <1>c, <1>e
<1>k. ASSUME UNCHANGED <<task_queue, wpc>>, is_stop' = is_stop,
             Cardinality(Signalling') = Cardinality(Signalling)
      PROVE  Goal
  BY <1>c, <1>i, <1>k DEF Fetching
<1> HIDE DEF Goal
<1> USE DEF WorkerPC, ProducerPC
<1>1. ASSUME NEW num \in 1..max_thread_size, InitThreadNum(num) PROVE Goal
  <2>1. /\ UNCHANGED <<task_queue, is_stop, ppc>>
        /\ \A w \in Worker : wpc'[w] = wpc[w] \/ (wpc[w] = "unborn" /\ wpc'[w] = "fetch")
    BY <1>1, <1>t DEF InitThreadNum, TypeOK
  <2>2. Fetching \subseteq Fetching' /\ Sleeping(wpc) # {} /\ Signalling' = Signalling
    BY <1>s, <1>t, <2>1 DEF Fetching, Signalling, At, TypeOK
  <2>3. IsFiniteSet(Fetching')
    BY <1>t, FS_Subset DEF Fetching, At, TypeOK
  <2>4. Cardinality(Fetching) <= Cardinality(Fetching')
    BY <2>2, <2>3, FS_Subset
  <2> QED
    BY <1>c, <1>i, <2>1, <2>2, <2>4 DEF Goal
<1>2. ASSUME NEW p \in Producer, NEW t \in Task, AddTask(p, t) PROVE Goal
  <2>1. UNCHANGED <<task_queue, wpc>> /\ is_stop' = is_stop
        /\ (ppc' = ppc \/ ppc' = [ppc EXCEPT ![p] = "put"]) /\ ppc[p] = "idle"
    BY <1>2 DEF AddTask
  <2>2. Signalling' = Signalling
    BY <1>t, <2>1, ProducerMoves DEF Signalling
  <2> QED
    BY <1>k, <2>1, <2>2
<1>3. ASSUME NEW p \in Producer, Put(p) PROVE Goal
  <2>1. task_queue \in Seq(Task) /\ ptask[p] \in Task
    BY <1>3, <1>t DEF Put, IInv, TypeOK, Holding
  <2>2. Len(task_queue') = Len(task_queue) + 1 /\ UNCHANGED <<is_stop, wpc>>
    BY <1>3, <2>1 DEF Put
  <2>3. Cardinality(Signalling') = Cardinality(Signalling) + 1
    BY <1>3, <1>t, ProducerMoves DEF Put
  <2> QED
    BY <1>c, <1>i, <2>2, <2>3 DEF Goal, Fetching
<1>4. ASSUME NEW p \in Producer, PutBlocked(p) \/ PutSleep(p) \/ SpuriousPut(p) PROVE Goal
  <2>1. Signalling' = Signalling
    BY <1>4, <1>t, ProducerMoves DEF PutBlocked, PutSleep, SpuriousPut
  <2> QED
    BY <1>4, <1>k, <2>1 DEF PutBlocked, PutSleep, SpuriousPut
<1>5. ASSUME NEW p \in Producer, NotifyGet(p) PROVE Goal
  <2>1. UNCHANGED <<task_queue, is_stop>>
        /\ Cardinality(Signalling') = Cardinality(Signalling) - 1
    BY <1>5, <1>t, ProducerMoves DEF NotifyGet
  <2>2. PICK w \in Worker : wpc[w] = "asleep" /\ wpc' = [wpc EXCEPT ![w] = "fetch"]
    BY <1>5, <1>t, NotifyGetMoves
  <2>3. Cardinality(Fetching') = Cardinality(Fetching) + 1 /\ Sleeping(wpc) # {}
    BY <1>s, <1>t, <2>2, WorkerMoves
  <2> QED
    BY <1>c, <1>i, <2>1, <2>3 DEF Goal
<1>6. ASSUME NEW w \in Worker, Quit(w) PROVE FALSE
  BY <1>6 DEF Quit
<1>7. ASSUME NEW w \in Worker, TakeTask(w) PROVE Goal
  <2>1. /\ Len(task_queue') = Len(task_queue) - 1 /\ UNCHANGED <<is_stop, ppc>>
    BY <1>7, <1>t DEF TakeTask, TypeOK
  <2>2. Cardinality(Fetching') = Cardinality(Fetching) - 1
    BY <1>7, <1>t, WorkerMoves DEF TakeTask
  <2>3. Sleeping(wpc) # {}
    BY <1>7, <1>s, <1>t DEF TakeTask, TypeOK
  <2> QED
    BY <1>c, <1>i, <2>1, <2>2, <2>3 DEF Goal, Signalling
<1>8. ASSUME NEW w \in Worker, FetchBlocked(w) \/ FetchSleep(w) PROVE Goal
  <2>1. task_queue' = <<>>
    BY <1>8 DEF FetchBlocked, FetchSleep, IInv, WaitConditionHolds
  <2> QED
    BY <1>e, <2>1
<1>9. ASSUME NEW w \in Worker, RunTask(w) PROVE Goal
  <2>1. UNCHANGED <<task_queue, is_stop, ppc>> /\ Sleeping(wpc) # {} /\ Fetching' = Fetching
    BY <1>9, <1>s, <1>t, WorkerMoves DEF RunTask, TypeOK
  <2> QED
    BY <1>c, <1>i, <2>1 DEF Goal, Signalling
<1>10. ASSUME NEW w \in Worker, NotifyPut(w) PROVE Goal
  <2>1. UNCHANGED <<task_queue, is_stop>> /\ Sleeping(wpc) # {}
        /\ Cardinality(Fetching') = Cardinality(Fetching) + 1
    BY <1>10, <1>s, <1>t, WorkerMoves DEF NotifyPut, TypeOK
  <2>2. Signalling' = Signalling
    BY <1>10, <1>t, NotifyPutMoves, ProducerMoves DEF Signalling
  <2> QED
    BY <1>c, <1>i, <2>1, <2>2 DEF Goal
<1>11. ASSUME NEW w \in Worker, SpuriousGet(w) PROVE Goal
  <2>1. UNCHANGED <<task_queue, is_stop, ppc>> /\ Sleeping(wpc) # {}
        /\ Cardinality(Fetching') = Cardinality(Fetching) + 1
    BY <1>11, <1>s, <1>t, WorkerMoves DEF SpuriousGet, TypeOK
  <2> QED
    BY <1>c, <1>i, <2>1 DEF Goal, Signalling
<1>12. ASSUME NEW s \in Stopper, Stop(s) \/ NotifyAll(s) \/ CleanTaskQueue(s) PROVE FALSE
  BY <1>12 DEF Stop, NotifyAll, CleanTaskQueue, IInv, Order
<1>13. ASSUME NEW s \in Stopper, Join(s) \/ StopAgain(s) PROVE Goal
  BY <1>13, <1>k DEF Join, StopAgain, Signalling
<1>14. CASE UNCHANGED vars
  BY <1>14, <1>k DEF vars, Signalling
<1> QED
  BY <1>1, <1>2, <1>3, <1>4, <1>5, <1>6, <1>7, <1>8, <1>9, <1>10, <1>11, <1>12, <1>13, <1>14
  DEF Next

\* The induction step of NoProducerStranded: a place is freed by a worker that has yet
\* to signal, the signal makes a producer of it, and a producer goes to sleep on a full
\* queue only.
LEMMA NoProducerStrandedStep == IInv /\ [Next]_vars => NoProducerStranded'
<1> DEFINE Goal == max_task_quque_size <= Len(task_queue') + Cardinality(Busy')
                                                           + Cardinality(Putting')
<1> SUFFICES ASSUME IInv, [Next]_vars, ~is_stop', Sleeping(ppc') # {}
             PROVE  Goal
  BY DEF NoProducerStranded, Busy, Putting
<1>t. TypeOK /\ TypeOK' /\ PoolAssumption
  BY PoolAssumption, TypeStep DEF IInv
<1>c. /\ Cardinality(Busy) \in Nat /\ Cardinality(Putting) \in Nat
      /\ Cardinality(Busy') \in Nat /\ Cardinality(Putting') \in Nat
      /\ Len(task_queue) \in Nat /\ Len(task_queue') \in Nat
      /\ max_task_quque_size \in Nat
  <2>1. IsFiniteSet(Busy') /\ IsFiniteSet(Putting')
    BY <1>t, FS_Subset DEF Busy, Putting, At, TypeOK
  <2> QED
    BY <1>t, <2>1, Counts, FS_CardinalityType, LenProperties, PoolAssumption DEF TypeOK
<1>i. ~is_stop /\ Sleeping(ppc) # {}
         => max_task_quque_size <= Len(task_queue) + Cardinality(Busy) + Cardinality(Putting)
  BY DEF IInv, NoProducerStranded, Busy, Putting
<1>s. Sleeping(ppc) = {x \in Producer : ppc[x] = "asleep"}
      /\ Sleeping(ppc') = {x \in Producer : ppc'[x] = "asleep"}
  BY <1>t DEF Sleeping, TypeOK
<1>f. ASSUME Len(task_queue') = max_task_quque_size PROVE Goal
  BY <1>c, <1>f
<1>k. ASSUME UNCHANGED <<task_queue, ppc>>, is_stop' = is_stop, Busy' = Busy
      PROVE  Goal
  BY <1>c, <1>i, <1>k DEF Putting
<1> HIDE DEF Goal
<1> USE DEF WorkerPC, ProducerPC
<1>1. ASSUME NEW num \in 1..max_thread_size, InitThreadNum(num) PROVE Goal
  <2>1. /\ UNCHANGED <<task_queue, is_stop, ppc>>
        /\ \A w \in Worker : wpc'[w] = wpc[w] \/ (wpc[w] = "unborn" /\ wpc'[w] = "fetch")
    BY <1>1, <1>t DEF InitThreadNum, TypeOK
  <2>2. Busy' = Busy
    BY <1>t, <2>1 DEF Busy, At, TypeOK
  <2> QED
    BY <1>k, <2>1, <2>2
<1>2. ASSUME NEW p \in Producer, NEW t \in Task, AddTask(p, t) PROVE Goal
  <2>1. /\ UNCHANGED <<task_queue, wpc, is_stop>> /\ ppc[p] = "idle" /\ ~is_stop
        /\ ppc' = [ppc EXCEPT ![p] = "put"]
    BY <1>2 DEF AddTask
  <2>2. Cardinality(Putting') = Cardinality(Putting) + 1 /\ Sleeping(ppc) # {}
    BY <1>s, <1>t, <2>1, ProducerMoves DEF TypeOK
  <2> QED
    BY <1>c, <1>i, <2>1, <2>2 DEF Goal, Busy
<1>3. ASSUME NEW p \in Producer, Put(p) PROVE Goal
  <2>1. task_queue \in Seq(Task) /\ ptask[p] \in Task
    BY <1>3, <1>t DEF Put, IInv, TypeOK, Holding
  <2>2. Len(task_queue') = Len(task_queue) + 1 /\ UNCHANGED <<is_stop, wpc>>
    BY <1>3, <2>1 DEF Put
  <2>3. Cardinality(Putting') = Cardinality(Putting) - 1 /\ Sleeping(ppc) # {}
    BY <1>3, <1>s, <1>t, ProducerMoves DEF Put, TypeOK
  <2> QED
    BY <1>c, <1>i, <2>2, <2>3 DEF Goal, Busy
<1>4. ASSUME NEW p \in Producer, PutBlocked(p) \/ PutSleep(p) PROVE Goal
  BY <1>4, <1>f DEF PutBlocked, PutSleep, IInv, WaitConditionHolds, Full
<1>5. ASSUME NEW p \in Producer, SpuriousPut(p) PROVE Goal
  <2>1. UNCHANGED <<task_queue, wpc, is_stop>> /\ Sleeping(ppc) # {}
        /\ Cardinality(Putting') = Cardinality(Putting) + 1
    BY <1>5, <1>s, <1>t, ProducerMoves DEF SpuriousPut
  <2> QED
    BY <1>c, <1>i, <2>1 DEF Goal, Busy
<1>6. ASSUME NEW p \in Producer, NotifyGet(p) PROVE Goal
  <2>1. UNCHANGED <<task_queue, is_stop>> /\ Putting' = Putting /\ Sleeping(ppc) # {}
    BY <1>6, <1>s, <1>t, ProducerMoves DEF NotifyGet, TypeOK
  <2>2. Busy' = Busy
    BY <1>6, <1>t, NotifyGetMoves, WorkerMoves DEF Busy
  <2> QED
    BY <1>c, <1>i, <2>1, <2>2 DEF Goal
<1>7. ASSUME NEW w \in Worker, Quit(w) PROVE FALSE
  BY <1>7 DEF Quit
<1>8. ASSUME NEW w \in Worker, TakeTask(w) PROVE Goal
  <2>1. /\ Len(task_queue') = Len(task_queue) - 1 /\ UNCHANGED <<is_stop, ppc>>
    BY <1>8, <1>t DEF TakeTask, TypeOK
  <2>2. Cardinality(Busy') = Cardinality(Busy) + 1
    BY <1>8, <1>t, WorkerMoves DEF TakeTask
  <2> QED
    BY <1>c, <1>i, <2>1, <2>2 DEF Goal, Putting
<1>9. ASSUME NEW w \in Worker, FetchBlocked(w) \/ FetchSleep(w) \/ RunTask(w) \/ SpuriousGet(w)
      PROVE  Goal
  <2>1. Busy' = Busy
    BY <1>9, <1>t, WorkerMoves DEF FetchBlocked, FetchSleep, RunTask, SpuriousGet
  <2> QED
    BY <1>9, <1>k, <2>1 DEF FetchBlocked, FetchSleep, RunTask, SpuriousGet
<1>10. ASSUME NEW w \in Worker, NotifyPut(w) PROVE Goal
  <2>1. UNCHANGED <<task_queue, is_stop>> /\ Cardinality(Busy') = Cardinality(Busy) - 1
    BY <1>10, <1>t, WorkerMoves DEF NotifyPut
  <2>2. PICK p \in Producer : ppc[p] = "asleep" /\ ppc' = [ppc EXCEPT ![p] = "put"]
    BY <1>10, <1>t, NotifyPutMoves
  <2>3. Cardinality(Putting') = Cardinality(Putting) + 1 /\ Sleeping(ppc) # {}
    BY <1>s, <1>t, <2>2, ProducerMoves
  <2> QED
    BY <1>c, <1>i, <2>1, <2>3 DEF Goal
<1>11. ASSUME NEW s \in Stopper, Stop(s) \/ NotifyAll(s) \/ CleanTaskQueue(s) PROVE FALSE
  BY <1>11 DEF Stop, NotifyAll, CleanTaskQueue, IInv, Order
<1>12. ASSUME NEW s \in Stopper, Join(s) \/ StopAgain(s) PROVE Goal
  BY <1>12, <1>k DEF Join, StopAgain, Busy
<1>13. CASE UNCHANGED vars
  BY <1>13, <1>k DEF vars, Busy
<1> QED
  BY <1>1, <1>2, <1>3, <1>4, <1>5, <1>6, <1>7, <1>8, <1>9, <1>10, <1>11, <1>12, <1>13 DEF Next

-----------------------------------------------------------------------------
\* No thread and no task is there at first.
LEMMA InitIInv == Init => IInv
<1> SUFFICES ASSUME Init PROVE IInv
  OBVIOUS
<1> USE DEF Init
<1>1. TypeOK
  BY EmptySeq DEF TypeOK, WorkerPC, ProducerPC, StopperPC
<1>2. Holding /\ WaitConditionHolds /\ Order
  BY DEF Holding, WaitConditionHolds, Order
<1>3. NoTaskStranded /\ NoProducerStranded
  BY DEF NoTaskStranded, NoProducerStranded, Sleeping
<1> QED
  BY <1>1, <1>2, <1>3 DEF IInv

\* The induction step, from those of the invariant's parts.
LEMMA Inductive == IInv /\ [Next]_vars => IInv'
BY TypeStep, HoldingStep, WaitConditionStep, OrderStep, NoTaskStrandedStep,
   NoProducerStrandedStep DEF IInv

\* The strengthening is an invariant of the pool.
THEOREM PoolInvariant == Spec => []IInv
BY InitIInv, Inductive, PTL DEF Spec

\* Every variable of thread_pool.hpp keeps its type, for every queue bound and
\* any number of threads and tasks.
THEOREM TypeCorrect == Spec => []TypeOK
BY PoolInvariant, PTL DEF IInv

\* No wake-up of a worker is lost: thread_pool.hpp sends notify_one on task_get_
\* outside the mutex (line 96), and still, until stop is called and whatever becomes
\* of the tasks that run, no worker sleeps unless each queued request has a worker
\* on its way to the queue or a producer that will wake one.
THEOREM NoLostWorkerWakeup == Spec => []NoTaskStranded
BY PoolInvariant, PTL DEF IInv

\* No wake-up of an io thread is lost: run_task sends notify_one on task_put_
\* outside the mutex and one task later than it made the room (line 146), and still
\* the free places beside a producer asleep in add_task are never more than the
\* workers that have yet to signal and the producers that were woken.
THEOREM NoLostProducerWakeup == Spec => []NoProducerStranded
BY PoolInvariant, PTL DEF IInv

-----------------------------------------------------------------------------
\* What says where the tasks are.  Most steps leave it alone.
places == <<task_queue, wtask, ptask, fresh, executed, is_stop>>

\* A worker that exists and has not left run_task is one that stop joins.
Joined ==
    /\ \A w \in Worker : wpc[w] \notin {"unborn", "exited"} => w \in thread_vec
    /\ \A s \in Stopper : /\ spc[s] \in {"notify", "join", "clean"} => call_flag # "new"
                          /\ spc[s] = "clean" => thread_vec = {}

RInv == IInv /\ OnePlace /\ Joined

-----------------------------------------------------------------------------
\* The steps that move a task or close the pool; all others leave it in place.
LEMMA Movers ==
    ASSUME TypeOK, [Next]_vars
    PROVE  \/ \E p \in Producer, t \in Task : AddTask(p, t)
           \/ \E p \in Producer : Put(p)
           \/ \E w \in Worker : TakeTask(w) \/ RunTask(w)
           \/ \E s \in Stopper : Stop(s) \/ CleanTaskQueue(s)
           \/ UNCHANGED places
<1>1. ASSUME NEW num \in 1..max_thread_size, InitThreadNum(num) PROVE UNCHANGED places
  BY <1>1 DEF InitThreadNum, places
<1>2. ASSUME NEW p \in Producer, PutBlocked(p) \/ PutSleep(p) \/ NotifyGet(p) \/ SpuriousPut(p)
      PROVE  UNCHANGED places
  BY <1>2 DEF PutBlocked, PutSleep, NotifyGet, SpuriousPut, places
<1>3. ASSUME NEW w \in Worker, Quit(w) \/ FetchBlocked(w) \/ FetchSleep(w) \/ NotifyPut(w)
                                   \/ SpuriousGet(w)
      PROVE  UNCHANGED places
  BY <1>3 DEF Quit, FetchBlocked, FetchSleep, NotifyPut, SpuriousGet, places
<1>4. ASSUME NEW s \in Stopper, NotifyAll(s) \/ Join(s) \/ StopAgain(s)
      PROVE  UNCHANGED places
  BY <1>4 DEF NotifyAll, Join, StopAgain, places
<1>5. CASE UNCHANGED vars
  BY <1>5 DEF vars, places
<1> QED
  BY <1>1, <1>2, <1>3, <1>4, <1>5 DEF Next

\* What each of those steps does to the places a task can be in.
LEMMA AddMoves ==
    ASSUME IInv, NEW p \in Producer, NEW t \in Task, AddTask(p, t)
    PROVE  /\ UNCHANGED <<task_queue, wtask, executed, is_stop>>
           /\ Running' = Running
           /\ t \in fresh /\ fresh' = fresh \ {t}
           /\ is_stop => Held' = Held /\ ptask' = ptask
           /\ ~is_stop => Held' = Held \cup {t} /\ ptask' = [ptask EXCEPT ![p] = t]
           /\ ptask[p] = NoTask
<1>1. ptask[p] = NoTask /\ ptask \in [Producer -> Task \cup {NoTask}]
  BY PoolAssumption DEF AddTask, IInv, TypeOK, Holding
<1>2. CASE is_stop
  BY <1>1, <1>2 DEF AddTask, Held, Running
<1>3. CASE ~is_stop
  <2>1. ptask' = [ptask EXCEPT ![p] = t]
    BY <1>3 DEF AddTask
  <2>2. Held' = Held \cup {t}
    BY <1>1, <2>1, PoolAssumption DEF Held
  <2> QED
    BY <1>1, <1>3, <2>1, <2>2 DEF AddTask, Running
<1> QED
  BY <1>2, <1>3 DEF IInv, TypeOK

\* add_task's critical section: the producer's task goes to the end of the queue.
LEMMA PutMoves ==
    ASSUME IInv, OnePlace, NEW p \in Producer, Put(p)
    PROVE  /\ ptask[p] \in Held /\ ptask[p] \in Task
           /\ task_queue' = Append(task_queue, ptask[p])
           /\ Range(task_queue') = Range(task_queue) \cup {ptask[p]}
           /\ Held' = Held \ {ptask[p]}
           /\ ptask' = [ptask EXCEPT ![p] = NoTask]
           /\ UNCHANGED <<wtask, fresh, executed, is_stop>>
           /\ Running' = Running
<1>1. ptask[p] # NoTask /\ ptask[p] \in Task /\ ptask \in [Producer -> Task \cup {NoTask}]
  BY PoolAssumption DEF Put, IInv, TypeOK, Holding
<1>2. /\ task_queue' = Append(task_queue, ptask[p])
      /\ ptask' = [ptask EXCEPT ![p] = NoTask]
      /\ UNCHANGED <<wtask, fresh, executed, is_stop>>
  BY DEF Put
<1>3. Range(task_queue') = Range(task_queue) \cup {ptask[p]}
  BY <1>1, <1>2, RangeAppend DEF IInv, TypeOK
<1>4. Held' = Held \ {ptask[p]}
  BY <1>1, <1>2 DEF Held, OnePlace
<1> QED
  BY <1>1, <1>2, <1>3, <1>4 DEF Held, Running

\* run_task's critical section: the head of the queue goes to the worker.
LEMMA TakeMoves ==
    ASSUME IInv, OnePlace, NEW w \in Worker, TakeTask(w)
    PROVE  /\ task_queue # <<>> /\ ~is_stop /\ wtask[w] = NoTask
           /\ Head(task_queue) \in Task
           /\ task_queue' = Tail(task_queue)
           /\ Range(task_queue) = Range(task_queue') \cup {Head(task_queue)}
           /\ Head(task_queue) \notin Range(task_queue')
           /\ wtask' = [wtask EXCEPT ![w] = Head(task_queue)]
           /\ Running' = Running \cup {Head(task_queue)}
           /\ UNCHANGED <<ptask, fresh, executed, is_stop>>
           /\ Held' = Held
<1> DEFINE h == Head(task_queue)
<1>1. wtask[w] = NoTask /\ wtask \in [Worker -> Task \cup {NoTask}]
  BY DEF TakeTask, IInv, TypeOK, Holding
<1>2. /\ task_queue # <<>> /\ ~is_stop
      /\ task_queue' = Tail(task_queue)
      /\ wtask' = [wtask EXCEPT ![w] = h]
      /\ UNCHANGED <<ptask, fresh, executed, is_stop>>
  BY DEF TakeTask
<1>3. h \in Task
  BY <1>2 DEF IInv, TypeOK
<1>4. Range(task_queue) = Range(task_queue') \cup {h} /\ h \notin Range(task_queue')
  BY <1>2, RangeTail DEF IInv, TypeOK, OnePlace
<1> HIDE DEF h
<1>5. Running' = Running \cup {h}
  BY <1>1, <1>2, <1>3, PoolAssumption DEF Running
<1> QED
  BY <1>1, <1>2, <1>3, <1>4, <1>5 DEF Held, h

\* The task ran: the worker has none.
LEMMA RunMoves ==
    ASSUME IInv, OnePlace, NEW w \in Worker, RunTask(w)
    PROVE  /\ wtask[w] \in Running /\ wtask[w] \in Task
           /\ wtask' = [wtask EXCEPT ![w] = NoTask]
           /\ Running' = Running \ {wtask[w]}
           /\ executed' = executed \cup {wtask[w]}
           /\ UNCHANGED <<task_queue, ptask, fresh, is_stop>>
           /\ Held' = Held
<1>1. wtask[w] # NoTask /\ wtask[w] \in Task /\ wtask \in [Worker -> Task \cup {NoTask}]
  BY DEF RunTask, IInv, TypeOK, Holding
<1>2. /\ wtask' = [wtask EXCEPT ![w] = NoTask]
      /\ executed' = executed \cup {wtask[w]}
      /\ UNCHANGED <<task_queue, ptask, fresh, is_stop>>
  BY DEF RunTask
<1>3. Running' = Running \ {wtask[w]}
  BY <1>1, <1>2 DEF Running, OnePlace
<1> QED
  BY <1>1, <1>2, <1>3 DEF Held, Running

-----------------------------------------------------------------------------
\* A task moves from one place to the next and is in no other.
LEMMA OnePlaceStep == IInv /\ OnePlace /\ [Next]_vars => OnePlace'
<1> SUFFICES ASSUME IInv, OnePlace, [Next]_vars PROVE OnePlace'
  OBVIOUS
<1>t. TypeOK
  BY DEF IInv
<1>1. ASSUME NEW p \in Producer, NEW t \in Task, AddTask(p, t) PROVE OnePlace'
  <2>1. ptask \in [Producer -> Task \cup {NoTask}]
    BY <1>t DEF TypeOK
  <2>2. t \notin Held
    BY <1>1, AddMoves DEF OnePlace
  <2>3. \A q, r \in Producer : ptask'[q] = ptask'[r] /\ ptask'[q] # NoTask => q = r
    <3>1. \A q \in Producer : ptask[q] # t
      BY <2>2, PoolAssumption DEF Held
    <3> QED
      BY <1>1, <2>1, <3>1, AddMoves DEF OnePlace
  <2> QED
    BY <1>1, <2>3, AddMoves DEF OnePlace
<1>2. ASSUME NEW p \in Producer, Put(p) PROVE OnePlace'
  <2>1. task_queue \in Seq(Task) /\ ptask \in [Producer -> Task \cup {NoTask}]
    BY <1>t DEF TypeOK
  <2>2. ptask[p] \notin Range(task_queue)
    BY <1>2, PutMoves DEF OnePlace
  <2>3. \A i, j \in DOMAIN task_queue' : task_queue'[i] = task_queue'[j] => i = j
    BY <1>2, <2>1, <2>2, PutMoves, InjectiveAppend DEF OnePlace
  <2>4. \A q, r \in Producer : ptask'[q] = ptask'[r] /\ ptask'[q] # NoTask => q = r
    BY <1>2, <2>1, PutMoves DEF OnePlace
  <2> QED
    BY <1>2, <2>3, <2>4, PutMoves DEF OnePlace
<1>3. ASSUME NEW w \in Worker, TakeTask(w) PROVE OnePlace'
  <2>1. task_queue \in Seq(Task) /\ wtask \in [Worker -> Task \cup {NoTask}]
    BY <1>t DEF TypeOK
  <2>2. \A i, j \in DOMAIN task_queue' : task_queue'[i] = task_queue'[j] => i = j
    BY <1>3, <2>1, TakeMoves, InjectiveTail DEF OnePlace
  <2>3. Head(task_queue) \notin Running
    BY <1>3, TakeMoves DEF OnePlace
  <2>4. \A u, v \in Worker : wtask'[u] = wtask'[v] /\ wtask'[u] # NoTask => u = v
    <3>1. \A v \in Worker : wtask[v] # Head(task_queue)
      BY <1>3, <2>3, TakeMoves, PoolAssumption DEF Running
    <3> QED
      BY <1>3, <2>1, <3>1, TakeMoves DEF OnePlace
  <2> QED
    BY <1>3, <2>2, <2>4, TakeMoves DEF OnePlace
<1>4. ASSUME NEW w \in Worker, RunTask(w) PROVE OnePlace'
  <2>1. wtask \in [Worker -> Task \cup {NoTask}]
    BY <1>t DEF TypeOK
  <2>2. \A u, v \in Worker : wtask'[u] = wtask'[v] /\ wtask'[u] # NoTask => u = v
    BY <1>4, <2>1, RunMoves DEF OnePlace
  <2> QED
    BY <1>4, <2>2, RunMoves DEF OnePlace
<1>5. ASSUME NEW s \in Stopper, Stop(s) PROVE OnePlace'
  BY <1>5 DEF Stop, OnePlace, Running, Held
<1>6. ASSUME NEW s \in Stopper, CleanTaskQueue(s) PROVE OnePlace'
  <2>1. task_queue' = <<>> /\ UNCHANGED <<wtask, ptask, fresh, executed>>
    BY <1>6 DEF CleanTaskQueue
  <2>2. Range(task_queue') = {} /\ DOMAIN task_queue' = {}
    BY <2>1 DEF Range
  <2> QED
    BY <2>1, <2>2 DEF OnePlace, Running, Held
<1>7. CASE UNCHANGED places
  BY <1>7 DEF places, OnePlace, Running, Held
<1> QED
  BY <1>t, <1>1, <1>2, <1>3, <1>4, <1>5, <1>6, <1>7, Movers

\* stop knows its threads: init_thread_num adds none once stop has begun.
LEMMA JoinedStep == IInv /\ Joined /\ [Next]_vars => Joined'
<1> SUFFICES ASSUME IInv, Joined, [Next]_vars PROVE Joined'
  OBVIOUS
<1> USE DEF Joined, IInv, TypeOK, WorkerPC, ProducerPC, StopperPC
<1>1. ASSUME NEW num \in 1..max_thread_size, InitThreadNum(num) PROVE Joined'
  BY <1>1 DEF InitThreadNum
<1>2. ASSUME NEW p \in Producer, NEW t \in Task, AddTask(p, t) PROVE Joined'
  BY <1>2 DEF AddTask
<1>3. ASSUME NEW p \in Producer, Put(p) \/ PutBlocked(p) \/ PutSleep(p) \/ SpuriousPut(p)
      PROVE  Joined'
  BY <1>3 DEF Put, PutBlocked, PutSleep, SpuriousPut
<1>4. ASSUME NEW p \in Producer, NotifyGet(p) PROVE Joined'
  BY <1>4, NotifyGetWakes DEF NotifyGet
<1>5. ASSUME NEW w \in Worker, Quit(w) \/ TakeTask(w) \/ FetchBlocked(w) \/ FetchSleep(w)
      PROVE  Joined'
  BY <1>5 DEF Quit, TakeTask, FetchBlocked, FetchSleep
<1>6. ASSUME NEW w \in Worker, RunTask(w) \/ NotifyPut(w) \/ SpuriousGet(w) PROVE Joined'
  BY <1>6 DEF RunTask, NotifyPut, SpuriousGet
<1>7. ASSUME NEW s \in Stopper, Stop(s) \/ NotifyAll(s) PROVE Joined'
  BY <1>7 DEF Stop, NotifyAll
<1>8. ASSUME NEW s \in Stopper, Join(s) PROVE Joined'
  BY <1>8 DEF Join
<1>9. ASSUME NEW s \in Stopper, CleanTaskQueue(s) \/ StopAgain(s) PROVE Joined'
  BY <1>9 DEF CleanTaskQueue, StopAgain
<1>10. CASE UNCHANGED vars
  BY <1>10 DEF vars
<1> QED
  BY <1>1, <1>2, <1>3, <1>4, <1>5, <1>6, <1>7, <1>8, <1>9, <1>10 DEF Next

\* Both are invariants together with the strengthening.
LEMMA RefinementInvariant == Spec => []RInv
<1>1. Init => OnePlace /\ Joined
  BY DEF Init, OnePlace, Joined, Running, Held, Range
<1>2. RInv /\ [Next]_vars => RInv'
  BY Inductive, OnePlaceStep, JoinedStep DEF RInv
<1> QED
  BY <1>1, <1>2, InitIInv, PTL DEF Spec, RInv

\* No request is lost sight of or executed twice, in any number of queued, waiting
\* and running ones.
THEOREM TasksInOnePlace == Spec => []OnePlace
BY RefinementInvariant, PTL DEF RInv

-----------------------------------------------------------------------------
\* The producers whose task QueueBound counts with the queue.
Waiting == {p \in Producer : ppc[p] \in {"put", "towait", "asleep"}}

\* Sets of producers can be counted.
LEMMA WaitingFinite ==
    ASSUME NEW W, W \subseteq Producer
    PROVE  /\ Cardinality(W) \in Nat /\ IsFiniteSet(W)
           /\ Cardinality(W) <= Cardinality(Producer) /\ Cardinality(Producer) \in Nat
BY PoolAssumption, FS_Subset, FS_CardinalityType

\* Only add_task's wait lets a producer in or out, and only while the pool is not
\* stopped a new one comes.
LEMMA QueueBoundStep == IInv /\ QueueBound /\ [Next]_vars => QueueBound'
<1> SUFFICES ASSUME IInv, QueueBound, [Next]_vars PROVE QueueBound'
  OBVIOUS
<1> USE PoolAssumption
<1>t. /\ TypeOK /\ Len(task_queue) \in Nat
      /\ max_task_quque_size \in Nat
      /\ Cardinality(Waiting) \in Nat /\ IsFiniteSet(Waiting)
      /\ Cardinality(Waiting) <= Cardinality(Producer) /\ Cardinality(Producer) \in Nat
      /\ Cardinality(Waiting') \in Nat /\ IsFiniteSet(Waiting')
      /\ Cardinality(Waiting') <= Cardinality(Producer)
  <2>1. Waiting \subseteq Producer /\ Waiting' \subseteq Producer
    BY DEF Waiting
  <2>2. TypeOK /\ Len(task_queue) \in Nat
    BY LenProperties DEF IInv, TypeOK
  <2> QED
    BY <2>1, <2>2, WaitingFinite
<1>i. /\ ~is_stop => Len(task_queue) <= max_task_quque_size
      /\ Len(task_queue) + Cardinality(Waiting) <= max_task_quque_size + Cardinality(Producer)
  BY DEF QueueBound, Waiting
<1>q. ASSUME /\ ~is_stop' => Len(task_queue') <= max_task_quque_size
             /\ Len(task_queue') + Cardinality(Waiting') <= max_task_quque_size + Cardinality(Producer)
      PROVE  QueueBound'
  BY <1>q DEF QueueBound, Waiting
<1>1. ASSUME NEW p \in Producer, NEW t \in Task, AddTask(p, t) PROVE QueueBound'
  <2>1. UNCHANGED <<task_queue, is_stop>>
    BY <1>1 DEF AddTask
  <2>2. CASE is_stop
    BY <1>1, <1>t, <1>i, <1>q, <2>1, <2>2 DEF AddTask, Waiting
  <2>3. CASE ~is_stop
    BY <1>t, <1>i, <1>q, <2>1, <2>3
  <2> QED
    BY <2>2, <2>3
<1>2. ASSUME NEW p \in Producer, Put(p) PROVE QueueBound'
  <2>1. ppc \in [Producer -> ProducerPC] /\ task_queue \in Seq(Task) /\ ptask[p] \in Task
    BY <1>t, <1>2 DEF Put, IInv, TypeOK, Holding
  <2>2. p \in Waiting /\ Waiting' = Waiting \ {p}
    BY <1>2, <2>1 DEF Put, Waiting
  <2>3. Cardinality(Waiting') = Cardinality(Waiting) - 1
    BY <1>t, <2>2, FS_RemoveElement
  <2>4. Len(task_queue') = Len(task_queue) + 1
    BY <1>2, <2>1 DEF Put
  <2>5. ~is_stop' => Len(task_queue) # max_task_quque_size /\ ~is_stop
    BY <1>2 DEF Put, Full
  <2> QED
    BY <1>t, <1>i, <1>q, <2>3, <2>4, <2>5
<1>3. ASSUME NEW w \in Worker, TakeTask(w) PROVE QueueBound'
  <2>1. Waiting' = Waiting /\ is_stop' = is_stop
    BY <1>3 DEF TakeTask, Waiting
  <2>2. Len(task_queue') = Len(task_queue) - 1
    BY <1>3, <1>t DEF TakeTask, TypeOK
  <2> QED
    BY <1>t, <1>i, <1>q, <2>1, <2>2
<1>4. ASSUME NEW s \in Stopper, CleanTaskQueue(s) PROVE QueueBound'
  <2>1. Waiting' = Waiting /\ is_stop' = is_stop /\ Len(task_queue') = 0
    BY <1>4 DEF CleanTaskQueue, Waiting
  <2> QED
    BY <1>t, <1>i, <1>q, <2>1
<1>5. ASSUME UNCHANGED task_queue, is_stop' = is_stop \/ is_stop', Waiting' = Waiting
      PROVE  QueueBound'
  BY <1>5, <1>t, <1>i, <1>q
<1>6. ASSUME NEW s \in Stopper, Stop(s) \/ NotifyAll(s) \/ Join(s) \/ StopAgain(s)
      PROVE  QueueBound'
  BY <1>5, <1>6 DEF Stop, NotifyAll, Join, StopAgain, Waiting
<1>7. ASSUME NEW num \in 1..max_thread_size, InitThreadNum(num) PROVE QueueBound'
  BY <1>5, <1>7 DEF InitThreadNum, Waiting
<1>8. ASSUME NEW p \in Producer,
             PutBlocked(p) \/ PutSleep(p) \/ NotifyGet(p) \/ SpuriousPut(p)
      PROVE  QueueBound'
  <2>1. ppc \in [Producer -> ProducerPC]
    BY <1>t DEF TypeOK
  <2>2. Waiting' = Waiting
    BY <1>8, <2>1 DEF PutBlocked, PutSleep, NotifyGet, SpuriousPut, Waiting, ProducerPC
  <2> QED
    BY <1>5, <1>8, <2>2 DEF PutBlocked, PutSleep, NotifyGet, SpuriousPut
<1>9. ASSUME NEW w \in Worker, Quit(w) \/ FetchBlocked(w) \/ FetchSleep(w) \/ RunTask(w)
                                   \/ SpuriousGet(w)
      PROVE  QueueBound'
  BY <1>5, <1>9 DEF Quit, FetchBlocked, FetchSleep, RunTask, SpuriousGet, Waiting
<1>10. ASSUME NEW w \in Worker, NotifyPut(w) PROVE QueueBound'
  <2>1. Waiting' = Waiting
    BY <1>10, <1>t, NotifyPutWakes DEF Waiting, TypeOK, ProducerPC
  <2> QED
    BY <1>5, <1>10, <2>1 DEF NotifyPut
<1>11. CASE UNCHANGED vars
  BY <1>5, <1>11 DEF vars, Waiting
<1> QED
  BY <1>1, <1>2, <1>3, <1>4, <1>6, <1>7, <1>8, <1>9, <1>10, <1>11 DEF Next

\* add_task keeps to max_task_quque_size, for any size and any number of io
\* threads, and passes it after stop by at most one task for each of them.
THEOREM QueueIsBounded == Spec => []QueueBound
<1>1. Init => QueueBound
  <2> SUFFICES ASSUME Init PROVE QueueBound
    OBVIOUS
  <2>1. Waiting = {}
    BY DEF Init, Waiting
  <2>2. Cardinality({}) = 0 /\ Len(task_queue) = 0 /\ Cardinality(Producer) \in Nat
    BY FS_EmptySet, PoolAssumption, FS_CardinalityType DEF Init
  <2>3. Len(task_queue) <= max_task_quque_size
        /\ Len(task_queue) + Cardinality(Waiting) <= max_task_quque_size + Cardinality(Producer)
    BY <2>1, <2>2, PoolAssumption
  <2> QED
    BY <2>3 DEF QueueBound, Waiting
<1> QED
  BY <1>1, QueueBoundStep, PoolInvariant, PTL DEF Spec

-----------------------------------------------------------------------------
\* The steps of the pool as steps of TaskQueue.
LEMMA LostLeftAlone ==
    ASSUME UNCHANGED places
    PROVE  UNCHANGED Queue!vars
BY DEF places, Queue!vars, Running, Lost, Held

\* TaskQueue's Range is the one of Functions.
LEMMA SameRange == \A q : Queue!Range(q) = Range(q)
BY DEF Range, Queue!Range

\* Each step of the pool is one of TaskQueue or leaves the tasks where they are.
LEMMA RefinementStep == RInv /\ [Next]_vars => [Queue!Next]_(Queue!vars)
<1> SUFFICES ASSUME RInv, [Next]_vars PROVE [Queue!Next]_(Queue!vars)
  OBVIOUS
<1>t. IInv /\ OnePlace /\ TypeOK
  BY DEF RInv, IInv
<1> DEFINE used == Held \cup Range(task_queue) \cup Running \cup executed
<1>1. ASSUME NEW p \in Producer, NEW t \in Task, AddTask(p, t)
      PROVE  [Queue!Next]_(Queue!vars)
  <2>1. t \in fresh /\ t \notin used
    BY <1>t, <1>1, AddMoves DEF OnePlace
  <2>2. CASE is_stop
    <3>1. Lost' = Lost \cup {t}
      BY <1>t, <1>1, <2>1, <2>2, AddMoves DEF Lost
    <3>2. t \notin Lost
      BY <2>1 DEF Lost
    <3>3. Queue!Reject(t)
      BY <1>t, <1>1, <2>1, <2>2, <3>1, <3>2, AddMoves, SameRange DEF Queue!Reject, Queue!Known
    <3> QED
      BY <3>3 DEF Queue!Next
  <2>3. CASE ~is_stop
    <3>1. Lost' = Lost
      BY <1>t, <1>1, <2>1, <2>3, AddMoves DEF Lost
    <3> QED
      BY <1>t, <1>1, <3>1, AddMoves DEF Queue!vars
  <2> QED
    BY <2>2, <2>3
<1>2. ASSUME NEW p \in Producer, Put(p) PROVE [Queue!Next]_(Queue!vars)
  <2> DEFINE t == ptask[p]
  <2>1. t \in Held /\ t \in Task
    BY <1>t, <1>2, PutMoves
  <2>2. t \notin Range(task_queue) \cup Running \cup executed \cup Lost
    BY <1>t, <2>1 DEF OnePlace, Lost
  <2>3. Lost' = Lost
    BY <1>t, <1>2, <2>1, PutMoves DEF Lost
  <2>4. Queue!Accept(t)
    BY <1>t, <1>2, <2>2, <2>3, PutMoves, SameRange DEF Queue!Accept, Queue!Known
  <2> QED
    BY <2>1, <2>4 DEF Queue!Next
<1>3. ASSUME NEW w \in Worker, TakeTask(w) PROVE [Queue!Next]_(Queue!vars)
  <2>1. Lost' = Lost
    BY <1>t, <1>3, TakeMoves DEF Lost
  <2>2. Queue!Start
    BY <1>t, <1>3, <2>1, TakeMoves DEF Queue!Start
  <2> QED
    BY <2>2 DEF Queue!Next
<1>4. ASSUME NEW w \in Worker, RunTask(w) PROVE [Queue!Next]_(Queue!vars)
  <2> DEFINE t == wtask[w]
  <2>1. t \in Running /\ t \in Task
    BY <1>t, <1>4, RunMoves
  <2>2. Lost' = Lost
    BY <1>t, <1>4, <2>1, RunMoves DEF Lost
  <2>3. Queue!Finish(t)
    BY <1>t, <1>4, <2>1, <2>2, RunMoves DEF Queue!Finish
  <2> QED
    BY <2>1, <2>3 DEF Queue!Next
<1>5. ASSUME NEW s \in Stopper, Stop(s) PROVE [Queue!Next]_(Queue!vars)
  <2>1. Queue!Close
    BY <1>5 DEF Stop, Queue!Close, Lost, Running, Held
  <2> QED
    BY <2>1 DEF Queue!Next
<1>6. ASSUME NEW s \in Stopper, CleanTaskQueue(s) PROVE [Queue!Next]_(Queue!vars)
  <2>1. spc[s] = "clean" /\ task_queue' = <<>>
        /\ UNCHANGED <<wtask, ptask, fresh, executed, is_stop>>
    BY <1>6 DEF CleanTaskQueue
  <2>2. is_stop
    BY <1>t, <2>1 DEF IInv, Order
  <2>3. \A w \in Worker : wtask[w] = NoTask
    <3>1. \A w \in Worker : wpc[w] # "run"
      BY <2>1 DEF RInv, Joined
    <3> QED
      BY <1>t, <3>1 DEF IInv, Holding
  <2>4. Running = {} /\ Running' = Running /\ Held' = Held
    BY <2>1, <2>3 DEF Running, Held
  <2>5. Range(task_queue) \subseteq Task
    BY <1>t DEF TypeOK, Range
  <2>6. Range(task_queue') = {}
    BY <2>1 DEF Range
  <2>7. Lost' = Lost \cup Range(task_queue)
    BY <1>t, <2>1, <2>4, <2>5, <2>6 DEF Lost, OnePlace
  <2>8. Queue!Discard
    BY <2>1, <2>2, <2>4, <2>7, SameRange DEF Queue!Discard
  <2> QED
    BY <2>8 DEF Queue!Next
<1>7. CASE UNCHANGED places
  BY <1>7, LostLeftAlone
<1> QED
  BY <1>t, <1>1, <1>2, <1>3, <1>4, <1>5, <1>6, <1>7, Movers

\* thread_pool.hpp keeps the promise of TaskQueue with any number of threads: tasks
\* start in the order of their acceptance and once, none after stop, and none is
\* dropped before the last running one is over.
THEOREM PoolIsTaskQueue == Spec => ImplementsTaskQueue
<1>1. Init => Queue!Init
  BY DEF Init, Queue!Init, Running, Held, Lost, Range
<1>2. Queue!Spec <=> Queue!Init /\ [][Queue!Next]_(Queue!vars)
  BY DEF Queue!Spec
<1> QED
  BY <1>1, <1>2, RefinementStep, RefinementInvariant, PTL DEF Spec, ImplementsTaskQueue

-----------------------------------------------------------------------------
\* add_task's promise until stop is called: every task it was given is with a
\* producer, in the queue, with a worker or done.  (Afterwards a task may vanish,
\* and nobody is told: see Reject and Discard of TaskQueue.)
TasksConserved == ~is_stop => Lost = {}

\* No task is dropped before stop sets its flag, whatever the wake-ups and whichever
\* threads found the queue full or empty.
THEOREM NoTaskDropped == Spec => []TasksConserved
<1>1. Init => TasksConserved
  BY DEF Init, TasksConserved, Lost
<1>2. TasksConserved /\ [Queue!Next]_(Queue!vars) => TasksConserved'
  BY DEF TasksConserved, Queue!Next, Queue!vars, Queue!Accept, Queue!Reject, Queue!Finish,
         Queue!Start, Queue!Close, Queue!Discard
<1> QED
  BY <1>1, <1>2, RefinementStep, RefinementInvariant, PTL DEF Spec

-----------------------------------------------------------------------------
\* When stop has returned to its first caller, no worker thread is left and none
\* comes: nothing runs that could touch what the owner of the pool destroys next.
StopIsFinal ==
    call_flag = "done" => /\ \A w \in Worker : wpc[w] \in {"unborn", "exited"}
                          /\ Running = {}

\* The induction step of StopIsFinal, which needs Joined and Holding.
LEMMA StopIsFinalStep == RInv /\ StopIsFinal /\ [Next]_vars => StopIsFinal'
<1> SUFFICES ASSUME RInv, StopIsFinal, [Next]_vars PROVE StopIsFinal'
  OBVIOUS
<1> DEFINE Gone == call_flag = "done" => \A w \in Worker : wpc[w] \in {"unborn", "exited"}
<1>t. TypeOK /\ Holding /\ Joined /\ Gone
  BY DEF RInv, IInv, StopIsFinal
<1> USE <1>t DEF Joined, TypeOK, WorkerPC
<1>1. ASSUME NEW num \in 1..max_thread_size, InitThreadNum(num) PROVE Gone'
  BY <1>1 DEF InitThreadNum
<1>2. ASSUME NEW p \in Producer, NEW t \in Task, AddTask(p, t) PROVE Gone'
  BY <1>2 DEF AddTask
<1>3. ASSUME NEW p \in Producer, Put(p) \/ PutBlocked(p) \/ PutSleep(p) \/ SpuriousPut(p)
      PROVE  Gone'
  BY <1>3 DEF Put, PutBlocked, PutSleep, SpuriousPut
<1>4. ASSUME NEW p \in Producer, NotifyGet(p) PROVE Gone'
  BY <1>4, NotifyGetWakes DEF NotifyGet
<1>5. ASSUME NEW w \in Worker, \/ Quit(w) \/ TakeTask(w) \/ FetchBlocked(w) \/ FetchSleep(w)
                               \/ RunTask(w) \/ NotifyPut(w) \/ SpuriousGet(w)
      PROVE  Gone'
  BY <1>5 DEF Quit, TakeTask, FetchBlocked, FetchSleep, RunTask, NotifyPut, SpuriousGet
<1>6. ASSUME NEW s \in Stopper, \/ Stop(s) \/ NotifyAll(s) \/ Join(s) \/ CleanTaskQueue(s)
                                \/ StopAgain(s)
      PROVE  Gone'
  BY <1>6 DEF Stop, NotifyAll, Join, CleanTaskQueue, StopAgain
<1>7. ASSUME UNCHANGED vars PROVE Gone'
  BY <1>7 DEF vars
<1>8. Gone'
  BY <1>1, <1>2, <1>3, <1>4, <1>5, <1>6, <1>7 DEF Next
<1>9. Holding'
  BY <1>t, HoldingStep
<1>10. Gone' /\ Holding' => StopIsFinal'
  BY DEF StopIsFinal, Running, Holding
<1> QED
  BY <1>8, <1>9, <1>10

\* RInv and StopIsFinal together.
LEMMA FinalInvariant == Spec => [](RInv /\ StopIsFinal)
<1>1. Init => StopIsFinal
  BY DEF Init, StopIsFinal
<1> QED
  BY <1>1, StopIsFinalStep, RefinementInvariant, PTL DEF Spec

\* thread_pool::stop leaves nothing running behind it, however its callers, the
\* io threads in add_task and the workers interleave.
THEOREM StopLeavesNothing == Spec => []StopIsFinal
BY FinalInvariant, PTL

-----------------------------------------------------------------------------
\* The workers that wait, or are about to.
Dozing == {w \in Worker : wpc[w] \in {"towait", "asleep"}}

\* Which wake-ups stop can lose.  Once its flag is set no worker goes to wait, and
\* when notify_all was sent none is asleep: the only workers without a task that join
\* can wait for in vain were between their test of the flag and their sleep.
OnlyRacedSleep == [][/\ is_stop => Dozing' \subseteq Dozing
                     /\ \A s \in Stopper : spc[s] = "notify" /\ spc'[s] = "join"
                            => \A w \in Worker : wpc'[w] # "asleep"]_vars

\* Which producers stop leaves behind.  It notifies nobody on task_put_: once it has
\* returned, an io thread asleep in add_task wakes up by itself or never.
OnlyByChance == [][\A p \in Producer :
                     call_flag = "done" /\ ppc[p] = "asleep" /\ ppc'[p] # "asleep"
                         => SpuriousPut(p)]_vars

\* The first of the two, step by step.
LEMMA DozingShrinks ==
    ASSUME IInv, [Next]_vars
    PROVE  /\ is_stop => Dozing' \subseteq Dozing
           /\ \A s \in Stopper : spc[s] = "notify" /\ spc'[s] = "join"
                  => \A w \in Worker : wpc'[w] # "asleep"
<1> DEFINE Goal == /\ is_stop => Dozing' \subseteq Dozing
                   /\ \A s \in Stopper : spc[s] = "notify" /\ spc'[s] = "join"
                          => \A w \in Worker : wpc'[w] # "asleep"
<1> USE DEF IInv, TypeOK, Dozing, WorkerPC, StopperPC
<1>1. ASSUME NEW num \in 1..max_thread_size, InitThreadNum(num) PROVE Goal
  BY <1>1 DEF InitThreadNum
<1>2. ASSUME NEW p \in Producer, NEW t \in Task, AddTask(p, t) PROVE Goal
  BY <1>2 DEF AddTask
<1>3. ASSUME NEW p \in Producer, Put(p) \/ PutBlocked(p) \/ PutSleep(p) \/ SpuriousPut(p)
      PROVE  Goal
  BY <1>3 DEF Put, PutBlocked, PutSleep, SpuriousPut
<1>4. ASSUME NEW p \in Producer, NotifyGet(p) PROVE Goal
  BY <1>4, NotifyGetWakes DEF NotifyGet
<1>5. ASSUME NEW w \in Worker, Quit(w) \/ TakeTask(w) \/ FetchBlocked(w) \/ FetchSleep(w)
      PROVE  Goal
  BY <1>5 DEF Quit, TakeTask, FetchBlocked, FetchSleep
<1>6. ASSUME NEW w \in Worker, RunTask(w) \/ NotifyPut(w) \/ SpuriousGet(w) PROVE Goal
  BY <1>6 DEF RunTask, NotifyPut, SpuriousGet
<1>7. ASSUME NEW s \in Stopper, Stop(s) \/ Join(s) \/ CleanTaskQueue(s) \/ StopAgain(s)
      PROVE  Goal
  BY <1>7 DEF Stop, Join, CleanTaskQueue, StopAgain
<1>8. ASSUME NEW s \in Stopper, NotifyAll(s) PROVE Goal
  BY <1>8 DEF NotifyAll
<1>9. CASE UNCHANGED vars
  BY <1>9 DEF vars
<1> QED
  BY <1>1, <1>2, <1>3, <1>4, <1>5, <1>6, <1>7, <1>8, <1>9 DEF Next

\* The window in which run_task can lose stop's wake-up (the flag is written
\* without the mutex) is the only way stop can fail to return, as long as the tasks
\* that run return.
THEOREM OnlyTheRaceLosesStop == Spec => OnlyRacedSleep
BY DozingShrinks, PoolInvariant, PTL DEF Spec, OnlyRacedSleep

\* After stop returned, no worker is left to signal task_put_.
THEOREM StoppedProducersSleepOn == Spec => OnlyByChance
<1>1. ASSUME IInv, StopIsFinal, [Next]_vars, NEW p \in Producer,
             call_flag = "done", ppc[p] = "asleep", ppc'[p] # "asleep"
      PROVE  SpuriousPut(p)
  <2> USE <1>1 DEF IInv, TypeOK, ProducerPC, WorkerPC
  <2>1. ppc' # ppc
    OBVIOUS
  <2>2. ASSUME NEW w \in Worker
        PROVE  ~TakeTask(w) /\ ~RunTask(w) /\ ~NotifyPut(w)
    BY DEF TakeTask, RunTask, NotifyPut, StopIsFinal
  <2>3. ASSUME NEW q \in Producer, \/ \E t \in Task : AddTask(q, t)
                                   \/ Put(q) \/ PutBlocked(q) \/ PutSleep(q) \/ NotifyGet(q)
        PROVE  FALSE
    BY <2>3 DEF AddTask, Put, PutBlocked, PutSleep, NotifyGet
  <2>4. ASSUME NEW q \in Producer, SpuriousPut(q) PROVE q = p
    BY <2>4 DEF SpuriousPut
  <2>5. ASSUME NEW num \in 1..max_thread_size, InitThreadNum(num) PROVE FALSE
    BY <2>5, <2>1 DEF InitThreadNum
  <2>6. ASSUME NEW w \in Worker, Quit(w) \/ FetchBlocked(w) \/ FetchSleep(w) \/ SpuriousGet(w)
        PROVE  FALSE
    BY <2>6, <2>1 DEF Quit, FetchBlocked, FetchSleep, SpuriousGet
  <2>7. ASSUME NEW s \in Stopper, \/ Stop(s) \/ NotifyAll(s) \/ Join(s) \/ CleanTaskQueue(s)
                                  \/ StopAgain(s)
        PROVE  FALSE
    BY <2>7, <2>1 DEF Stop, NotifyAll, Join, CleanTaskQueue, StopAgain
  <2>8. ~UNCHANGED vars
    BY <2>1 DEF vars
  <2> QED
    BY <2>2, <2>3, <2>4, <2>5, <2>6, <2>7, <2>8 DEF Next
<1>2. RInv /\ StopIsFinal /\ [Next]_vars
        => \A p \in Producer : call_flag = "done" /\ ppc[p] = "asleep" /\ ppc'[p] # "asleep"
                                 => SpuriousPut(p)
  BY <1>1 DEF RInv
<1> QED
  BY <1>2, FinalInvariant, PTL DEF Spec, OnlyByChance

=============================================================================
