---------------------------- MODULE RouterProofs ----------------------------
(***************************************************************************)
(* Router's safety properties, for any tables, handlers and requests: what *)
(* a task's reference leads to, and what a response says.                  *)
(***************************************************************************)
EXTENDS Router, SequenceLemmas

\* The pool holds requests that were routed.
Pooled == /\ waiting \in Seq(Request) /\ running \subseteq Request
          /\ \A r \in running \cup Range(waiting) : at[r] = "routed"

\* A handler is bound to its own key, a request refers to the entry of its own
\* key, and only a routed one has come to a handler.
OwnKey == /\ \A k \in Key : invoker[k] # NoHandler => Serves[invoker[k]] = k
          /\ \A r \in Request : at[r] \in {"found", "routed"} => ref[r][1] = key[r]
          /\ \A r \in Request : ran[r] # NoHandler => at[r] = "routed"

IInv == TypeOK /\ Pooled /\ OwnKey /\ NoDanglingReference /\ OwnHandler /\ ValueMeansDone

-----------------------------------------------------------------------------
\* TaskQueue's Range is the one of Functions.
LEMMA PoolRange == \A q : Pool!Range(q) = Range(q)
BY DEF Range, Pool!Range

\* What AddTask does to the pool: the request waits in it, or was turned away.
LEMMA AddStep ==
    ASSUME IInv, NEW r \in Request, AddTask(r)
    PROVE  /\ waiting' \in Seq(Request) /\ running' = running
           /\ Range(waiting') \subseteq Range(waiting) \cup {r}
<1>1. waiting \in Seq(Request)
  BY DEF IInv, Pooled
<1>2. CASE Pool!Accept(r)
  BY <1>1, <1>2, RangeAppend DEF Pool!Accept
<1>3. CASE Pool!Reject(r)
  BY <1>1, <1>3 DEF Pool!Reject
<1> QED
  BY <1>2, <1>3 DEF AddTask

\* What Begin does to it: the oldest request runs, with what its reference leads to.
LEMMA BeginStep ==
    ASSUME IInv, Begin
    PROVE  \E r \in Request, h \in Handler :
              /\ r \in Range(waiting) /\ waiting' \in Seq(Request)
              /\ running' = running \cup {r}
              /\ Range(waiting') \subseteq Range(waiting)
              /\ erased[ref[r][1]] = ref[r][2] => h = invoker[ref[r][1]]
              /\ ran' = [ran EXCEPT ![r] = h]
<1>1. /\ waiting \in Seq(Request) /\ waiting # <<>>
      /\ waiting' = Tail(waiting) /\ running' = running \cup {Head(waiting)}
  BY DEF IInv, Pooled, Begin, Pool!Start
<1>2. Head(waiting) \in Request /\ waiting' \in Seq(Request)
  BY <1>1
<1>3. Range(waiting) = {Head(waiting)} \cup Range(waiting')
  BY <1>1, RangeTail
<1>4. PICK h \in Handler :
         /\ erased[ref[Head(waiting)][1]] = ref[Head(waiting)][2]
               => h = invoker[ref[Head(waiting)][1]]
         /\ ran' = [ran EXCEPT ![Head(waiting)] = h]
  BY DEF Begin
<1> QED
  BY <1>1, <1>2, <1>3, <1>4

\* What StopPool does to it: requests go, none comes.
LEMMA StopStep ==
    ASSUME IInv, StopPool
    PROVE  /\ waiting' \in Seq(Request) /\ running' = running
           /\ Range(waiting') \subseteq Range(waiting)
           /\ UNCHANGED <<table, key, at, ref, ran, how, reply>>
<1>1. CASE Pool!Close
  BY <1>1 DEF StopPool, Pool!Close, IInv, Pooled
<1>2. CASE Pool!Discard
  <2>1. waiting' = <<>> /\ running' = running
    BY <1>2 DEF Pool!Discard
  <2>2. Range(waiting') = {}
    BY <2>1 DEF Range
  <2> QED
    BY <2>1, <2>2 DEF StopPool
<1> QED
  BY <1>1, <1>2 DEF StopPool

\* The ways a task can end.
Ends(r) == Return(r) \/ HandlerThrows(r) \/ BadArguments(r) \/ Disconnect(r)

\* What an end does: one request's outcome and answer are written, and only a
\* handler that is done leads to a value.
LEMMA EndStep ==
    ASSUME NEW r \in Request, Ends(r)
    PROVE  \E h \in {"uncalled", "done", "threw"}, a \in {"empty", "value", "closed"} :
              /\ how' = [how EXCEPT ![r] = h]
              /\ reply' = [reply EXCEPT ![r] = a]
              /\ a = "value" => h = "done"
              /\ running' \subseteq running /\ waiting' = waiting
              /\ UNCHANGED <<table, key, at, ref, ran>>
<1>1. ASSUME NEW h \in {"uncalled", "done", "threw"}, NEW a \in {"empty", "value", "closed"},
             End(r, h, a), a = "value" => h = "done"
      PROVE  /\ how' = [how EXCEPT ![r] = h]
             /\ reply' = [reply EXCEPT ![r] = a]
             /\ running' \subseteq running /\ waiting' = waiting
             /\ UNCHANGED <<table, key, at, ref, ran>>
  BY <1>1 DEF End, Pool!Finish
<1>2. \E h \in {"uncalled", "done", "threw"}, a \in {"empty", "value", "closed"} :
         End(r, h, a) /\ (a = "value" => h = "done")
  <2>1. CASE Return(r)
    <3>1. PICK a \in Packed(r) : End(r, "done", a)
      BY <2>1 DEF Return
    <3>2. a \in {"empty", "value"}
      BY DEF Packed
    <3> QED
      BY <3>1, <3>2
  <2>2. CASE HandlerThrows(r)
    BY <2>2 DEF HandlerThrows
  <2>3. CASE BadArguments(r)
    BY <2>3 DEF BadArguments
  <2>4. CASE Disconnect(r)
    BY <2>4 DEF Disconnect
  <2> QED
    BY <2>1, <2>2, <2>3, <2>4 DEF Ends
<1> QED
  BY <1>1, <1>2

-----------------------------------------------------------------------------
\* No step writes a value out of range, lets a request refer to another key's
\* entry, or sends a value for a handler that is not done.
LEMMA TablesStep == IInv /\ [Next]_vars => TypeOK' /\ OwnKey' /\ ValueMeansDone'
<1> SUFFICES ASSUME IInv, [Next]_vars PROVE TypeOK' /\ OwnKey' /\ ValueMeansDone'
  OBVIOUS
<1> DEFINE Goal == TypeOK' /\ OwnKey' /\ ValueMeansDone'
<1> USE RouterAssumption DEF TypeOK, OwnKey, ValueMeansDone, table, pool
<1>t. TypeOK /\ OwnKey /\ ValueMeansDone /\ OwnHandler /\ NoDanglingReference
  BY DEF IInv
<1>1. ASSUME NEW h \in Handler, Bind(h) PROVE Goal
  BY <1>1, <1>t DEF Bind
<1>2. ASSUME NEW k \in Key, Unbind(k) PROVE Goal
  BY <1>2, <1>t DEF Unbind
<1>3. ASSUME NEW r \in Request, NEW k \in Key \cup {NoKey}, Refuse(r, k) PROVE Goal
  BY <1>3, <1>t DEF Refuse
<1>4. ASSUME NEW r \in Request, NEW k \in Key \cup {NoKey}, Find(r, k) PROVE Goal
  BY <1>4, <1>t DEF Find
<1>5. ASSUME NEW r \in Request, AddTask(r) PROVE Goal
  BY <1>5, <1>t DEF AddTask
<1>6. ASSUME NEW r \in Request, Ends(r) PROVE Goal
  <2>1. PICK h \in {"uncalled", "done", "threw"}, a \in {"empty", "value", "closed"} :
           /\ how' = [how EXCEPT ![r] = h]
           /\ reply' = [reply EXCEPT ![r] = a]
           /\ a = "value" => h = "done"
           /\ UNCHANGED <<table, key, at, ref, ran>>
    BY <1>6, EndStep
  <2>2. TypeOK' /\ OwnKey'
    BY <1>t, <2>1
  <2>3. ValueMeansDone'
    BY <1>t, <2>1
  <2> QED
    BY <2>2, <2>3
<1>7. CASE Begin
  <2>1. PICK r \in Request, h \in Handler :
           r \in Range(waiting) /\ ran' = [ran EXCEPT ![r] = h]
    BY <1>7, BeginStep
  <2>2. at[r] = "routed" /\ UNCHANGED <<table, key, at, ref, how, reply>>
    BY <1>7, <2>1 DEF IInv, Pooled, Begin
  <2> QED
    BY <1>t, <2>1, <2>2
<1>8. CASE StopPool
  BY <1>8, <1>t, StopStep
<1>9. CASE UNCHANGED vars
  BY <1>9, <1>t DEF vars
<1> HIDE DEF TypeOK, OwnKey, ValueMeansDone
<1> QED
  BY <1>1, <1>2, <1>3, <1>4, <1>5, <1>6, <1>7, <1>8, <1>9 DEF Next, Ends

\* A request enters the pool as it is routed, and once.
LEMMA PooledStep == IInv /\ [Next]_vars => Pooled'
<1> SUFFICES ASSUME IInv, [Next]_vars PROVE Pooled'
  OBVIOUS
<1>t. TypeOK /\ Pooled
  BY DEF IInv
<1> USE DEF Pooled, TypeOK, table, pool
<1>1. ASSUME NEW h \in Handler, Bind(h) PROVE Pooled'
  BY <1>1, <1>t DEF Bind
<1>2. ASSUME NEW k \in Key, Unbind(k) PROVE Pooled'
  BY <1>2, <1>t DEF Unbind
<1>3. ASSUME NEW r \in Request, NEW k \in Key \cup {NoKey}, Refuse(r, k) \/ Find(r, k)
      PROVE  Pooled'
  <2>1. at[r] = "new" /\ UNCHANGED pool
        /\ \E s \in {"found", "refused"} : at' = [at EXCEPT ![r] = s]
    BY <1>3 DEF Refuse, Find
  <2>2. \A q \in running' \cup Range(waiting') : q # r /\ at[q] = "routed"
    BY <1>t, <2>1
  <2>3. Range(waiting) \subseteq Request
    BY <1>t DEF Range
  <2> QED
    BY <1>t, <2>1, <2>2, <2>3
<1>4. ASSUME NEW r \in Request, AddTask(r) PROVE Pooled'
  <2>1. at' = [at EXCEPT ![r] = "routed"]
    BY <1>4 DEF AddTask
  <2>2. \A q \in running' \cup Range(waiting') : q = r \/ at[q] = "routed"
    BY <1>4, <1>t, AddStep
  <2>3. waiting' \in Seq(Request) /\ running' \subseteq Request
    BY <1>4, <1>t, AddStep
  <2>4. Range(waiting') \subseteq Request
    BY <2>3 DEF Range
  <2> QED
    BY <1>t, <2>1, <2>2, <2>3, <2>4
<1>5. ASSUME NEW r \in Request, Ends(r) PROVE Pooled'
  BY <1>5, <1>t, EndStep
<1>6. CASE Begin
  BY <1>6, <1>t, BeginStep DEF Begin
<1>7. CASE StopPool
  BY <1>7, <1>t, StopStep
<1>8. CASE UNCHANGED vars
  BY <1>8, <1>t DEF vars
<1> QED
  BY <1>1, <1>2, <1>3, <1>4, <1>5, <1>6, <1>7, <1>8 DEF Next, Ends

\* A reference is good when it is taken, assigning to the entry keeps it so, and an
\* erasure that would break it is the misuse.
LEMMA ReferenceStep == IInv /\ [Next]_vars => NoDanglingReference'
<1> SUFFICES ASSUME IInv, [Next]_vars PROVE NoDanglingReference'
  OBVIOUS
<1>t. TypeOK /\ Pooled /\ OwnKey /\ NoDanglingReference
  BY DEF IInv
<1>r. \A r \in Request : Refers(r) => at[r] \in {"found", "routed"} /\ ref[r][1] = key[r]
  BY <1>t DEF Refers, Pooled, OwnKey
<1>u. ASSUME UNCHANGED <<table, ref>>, \A r \in Request : Refers(r)' => Refers(r)
      PROVE  NoDanglingReference'
  BY <1>u, <1>t DEF NoDanglingReference, table
<1> USE RouterAssumption DEF TypeOK, table, pool
<1>1. ASSUME NEW h \in Handler, Bind(h) PROVE NoDanglingReference'
  BY <1>1, <1>t DEF Bind, NoDanglingReference, Refers
<1>2. ASSUME NEW k \in Key, Unbind(k) PROVE NoDanglingReference'
  <2> SUFFICES ASSUME ~misused', NEW r \in Request, Refers(r)'
               PROVE  erased'[ref'[r][1]] = ref'[r][2] /\ invoker'[ref'[r][1]] # NoHandler
    BY DEF NoDanglingReference
  <2>1. Refers(r) /\ UNCHANGED <<ref, key>>
    BY <1>2 DEF Unbind, Refers
  <2>2. ~misused /\ key[r] # k
    BY <1>2, <2>1 DEF Unbind
  <2>3. ref[r][1] # k
    BY <1>r, <2>1, <2>2
  <2> QED
    BY <1>2, <1>t, <2>1, <2>2, <2>3 DEF Unbind, NoDanglingReference
<1>3. ASSUME NEW r \in Request, NEW k \in Key \cup {NoKey}, Refuse(r, k)
      PROVE  NoDanglingReference'
  BY <1>3, <1>t, <1>u DEF Refuse, Refers
<1>4. ASSUME NEW r \in Request, NEW k \in Key \cup {NoKey}, Find(r, k)
      PROVE  NoDanglingReference'
  <2>1. /\ ref' = [ref EXCEPT ![r] = <<k, erased[k]>>]
        /\ at' = [at EXCEPT ![r] = "found"]
        /\ invoker[k] # NoHandler /\ UNCHANGED <<table, pool>>
    BY <1>4 DEF Find
  <2>2. \A q \in Request \ {r} : Refers(q)' => Refers(q)
    BY <1>t, <2>1 DEF Refers
  <2> QED
    BY <1>t, <2>1, <2>2 DEF NoDanglingReference
<1>5. ASSUME NEW r \in Request, AddTask(r) PROVE NoDanglingReference'
  <2>1. at[r] = "found" /\ at' = [at EXCEPT ![r] = "routed"] /\ UNCHANGED <<table, ref>>
    BY <1>5 DEF AddTask
  <2>2. \A q \in Request : Refers(q)' => Refers(q)
    BY <1>5, <1>t, <2>1, AddStep DEF Refers
  <2> QED
    BY <1>u, <2>1, <2>2
<1>6. ASSUME NEW r \in Request, Ends(r) PROVE NoDanglingReference'
  BY <1>6, <1>u, EndStep DEF Refers
<1>7. CASE Begin
  <2>1. UNCHANGED <<table, ref, at>>
    BY <1>7 DEF Begin
  <2>2. \A q \in Request : Refers(q)' => Refers(q)
    BY <1>7, <2>1, BeginStep DEF Refers
  <2> QED
    BY <1>u, <2>1, <2>2
<1>8. CASE StopPool
  BY <1>8, <1>u, StopStep DEF Refers
<1>9. CASE UNCHANGED vars
  BY <1>9, <1>u DEF vars, Refers
<1> QED
  BY <1>1, <1>2, <1>3, <1>4, <1>5, <1>6, <1>7, <1>8, <1>9 DEF Next, Ends

\* A worker calls the handler of its request's own key.
LEMMA HandlerStep == IInv /\ [Next]_vars => OwnHandler'
<1> SUFFICES ASSUME IInv, [Next]_vars PROVE OwnHandler'
  OBVIOUS
<1>t. TypeOK /\ Pooled /\ OwnKey /\ NoDanglingReference /\ OwnHandler
  BY DEF IInv
<1>u. ASSUME ran' = ran, misused => misused',
             \A r \in Request : at[r] # "new" => key'[r] = key[r]
      PROVE  OwnHandler'
  BY <1>u, <1>t DEF OwnHandler, OwnKey
<1> USE DEF TypeOK, table, pool
<1>1. ASSUME NEW h \in Handler, Bind(h) PROVE OwnHandler'
  BY <1>1, <1>u DEF Bind
<1>2. ASSUME NEW k \in Key, Unbind(k) PROVE OwnHandler'
  BY <1>2, <1>t, <1>u DEF Unbind
<1>3. ASSUME NEW r \in Request, NEW k \in Key \cup {NoKey}, Refuse(r, k) \/ Find(r, k)
      PROVE  OwnHandler'
  BY <1>3, <1>t, <1>u DEF Refuse, Find
<1>4. ASSUME NEW r \in Request, AddTask(r) \/ Ends(r) PROVE OwnHandler'
  BY <1>4, <1>u, EndStep DEF AddTask
<1>5. CASE Begin
  <2>1. PICK r \in Request, h \in Handler :
           /\ r \in Range(waiting)
           /\ erased[ref[r][1]] = ref[r][2] => h = invoker[ref[r][1]]
           /\ ran' = [ran EXCEPT ![r] = h]
    BY <1>5, BeginStep
  <2>2. UNCHANGED <<table, key, at>>
    BY <1>5 DEF Begin
  <2>3. Refers(r) /\ ref[r][1] = key[r] /\ ref[r][1] \in Key
    BY <1>t, <2>1 DEF Refers, Pooled, OwnKey
  <2>4. ~misused => Serves[h] = key[r]
    BY <1>t, <2>1, <2>3 DEF NoDanglingReference, OwnKey
  <2> QED
    BY <1>t, <2>1, <2>2, <2>4 DEF OwnHandler
<1>6. CASE StopPool
  BY <1>6, <1>u, StopStep
<1>7. CASE UNCHANGED vars
  BY <1>7, <1>u DEF vars
<1> QED
  BY <1>1, <1>2, <1>3, <1>4, <1>5, <1>6, <1>7 DEF Next, Ends

\* Nothing is bound, routed or answered at first.
LEMMA InitIInv == Init => IInv
<1> SUFFICES ASSUME Init PROVE IInv
  OBVIOUS
<1>1. waiting = <<>> /\ running = {}
  BY DEF Init, Pool!Init
<1>2. Pooled
  BY <1>1 DEF Pooled, Range
<1>3. NoDanglingReference
  BY <1>1 DEF Init, NoDanglingReference, Refers, Range
<1>4. TypeOK
  <2>1. erased \in [Key -> 0..MaxUnbind]
    BY RouterAssumption DEF Init
  <2>2. ref \in [Request -> (Key \cup {NoKey}) \X (0..MaxUnbind)]
    BY RouterAssumption DEF Init
  <2> QED
    BY <2>1, <2>2 DEF Init, TypeOK
<1>5. OwnKey /\ OwnHandler /\ ValueMeansDone
  BY DEF Init, OwnKey, OwnHandler, ValueMeansDone
<1> QED
  BY <1>2, <1>3, <1>4, <1>5 DEF IInv

\* The strengthening is an invariant of the router.
LEMMA Invariance == Spec => []IInv
<1>1. IInv /\ [Next]_vars => IInv'
  BY TablesStep, PooledStep, ReferenceStep, HandlerStep DEF IInv
<1> QED
  BY <1>1, InitIInv, PTL DEF Spec

-----------------------------------------------------------------------------
\* Every variable of the router keeps its type, for any number of handlers, keys and
\* requests; a request that route let pass refers to an entry that was found.
THEOREM TypeCorrect == Spec => []TypeOK
BY Invariance, PTL DEF IInv

\* As long as unbind spares the keys of requests under way, the reference that
\* router.hpp puts into a task leads to a bound handler until the task is over,
\* however often handlers are bound meanwhile.
THEOREM ReferencesGood == Spec => []NoDanglingReference
BY Invariance, PTL DEF IInv

\* Under the same condition a request runs a handler of its own mode and protocol.
THEOREM HandlerIsOwn == Spec => []OwnHandler
BY Invariance, PTL DEF IInv

\* A client that gets a value can rely on the handler's having run to its end,
\* whatever throws on the way: apply leaves the result empty otherwise.
THEOREM ValuesAreResults == Spec => []ValueMeansDone
BY Invariance, PTL DEF IInv

-----------------------------------------------------------------------------
\* Every step of the router is one of the pool's, or leaves the pool alone.
RouterUsesPool == Pool!Spec

\* router.hpp reaches the pool through add_task and stop only, and the workers take
\* and end tasks as the pool does: what is shown of thread_pool.hpp, which
\* implements TaskQueue, may be used here.
LEMMA PoolStep == [Next]_vars => [Pool!Next]_(Pool!vars)
<1> SUFFICES ASSUME [Next]_vars PROVE [Pool!Next]_(Pool!vars)
  OBVIOUS
<1> USE DEF table, pool
<1>1. ASSUME NEW h \in Handler, Bind(h) PROVE UNCHANGED pool
  BY <1>1 DEF Bind
<1>2. ASSUME NEW k \in Key, Unbind(k) PROVE UNCHANGED pool
  BY <1>2 DEF Unbind
<1>3. ASSUME NEW r \in Request, NEW k \in Key \cup {NoKey}, Refuse(r, k) \/ Find(r, k)
      PROVE  UNCHANGED pool
  BY <1>3 DEF Refuse, Find
<1>4. ASSUME NEW r \in Request, AddTask(r) PROVE Pool!Next
  BY <1>4 DEF AddTask, Pool!Next
<1>5. ASSUME NEW r \in Request, Ends(r) PROVE Pool!Next
  BY <1>5 DEF Ends, Return, HandlerThrows, BadArguments, Disconnect, End, Pool!Next
<1>6. ASSUME Begin PROVE Pool!Next
  BY <1>6 DEF Begin, Pool!Next
<1>7. ASSUME StopPool PROVE Pool!Next
  BY <1>7 DEF StopPool, Pool!Next
<1>8. ASSUME UNCHANGED vars PROVE UNCHANGED pool
  BY <1>8 DEF vars
<1>9. UNCHANGED pool => UNCHANGED Pool!vars
  BY DEF Pool!vars
<1> QED
  BY <1>1, <1>2, <1>3, <1>4, <1>5, <1>6, <1>7, <1>8, <1>9 DEF Next, Ends

\* The router is built on TaskQueue: projected to the pool, its steps are TaskQueue's.
LEMMA RouterImplementsPool == Spec => RouterUsesPool
<1>1. Init => Pool!Init
  BY DEF Init
<1>2. Pool!Spec <=> Pool!Init /\ [][Pool!Next]_(Pool!vars)
  BY DEF Pool!Spec
<1> QED
  BY <1>1, <1>2, PoolStep, PTL DEF Spec, RouterUsesPool

-----------------------------------------------------------------------------
\* What TaskQueue says of its tasks: each is in one place, and none is discarded
\* before the queue is closed.
PoolOnce ==
    /\ waiting \in Seq(Request)
    /\ running \subseteq Request /\ finished \subseteq Request /\ discarded \subseteq Request
    /\ \A i, j \in DOMAIN waiting : waiting[i] = waiting[j] => i = j
    /\ Range(waiting) \cap (running \cup finished \cup discarded) = {}
    /\ running \cap (finished \cup discarded) = {}
    /\ finished \cap discarded = {}
    /\ ~closed => discarded = {}

\* The induction step of PoolOnce.
LEMMA PoolOnceStep == PoolOnce /\ [Pool!Next]_(Pool!vars) => PoolOnce'
<1> SUFFICES ASSUME PoolOnce, [Pool!Next]_(Pool!vars) PROVE PoolOnce'
  OBVIOUS
<1>1. ASSUME NEW r \in Request, Pool!Accept(r) PROVE PoolOnce'
  <2>1. /\ waiting' = Append(waiting, r)
        /\ r \notin Range(waiting) \cup running \cup finished \cup discarded
        /\ UNCHANGED <<running, finished, discarded, closed>>
    BY <1>1, PoolRange DEF Pool!Accept, Pool!Known
  <2>2. waiting' \in Seq(Request) /\ Range(waiting') = Range(waiting) \cup {r}
    BY <2>1, RangeAppend DEF PoolOnce
  <2>3. \A i, j \in DOMAIN waiting' : waiting'[i] = waiting'[j] => i = j
    BY <2>1, InjectiveAppend DEF PoolOnce
  <2> QED
    BY <2>1, <2>2, <2>3 DEF PoolOnce
<1>2. ASSUME NEW r \in Request, Pool!Reject(r) \/ Pool!Finish(r) PROVE PoolOnce'
  BY <1>2, PoolRange DEF Pool!Reject, Pool!Finish, Pool!Known, PoolOnce
<1>3. ASSUME Pool!Start PROVE PoolOnce'
  <2>1. /\ waiting # <<>> /\ waiting' = Tail(waiting)
        /\ running' = running \cup {Head(waiting)}
        /\ UNCHANGED <<finished, discarded, closed>>
    BY <1>3 DEF Pool!Start
  <2>2. Head(waiting) \in Request /\ waiting' \in Seq(Request)
    BY <2>1 DEF PoolOnce
  <2>3. /\ Range(waiting) = {Head(waiting)} \cup Range(waiting')
        /\ Head(waiting) \notin Range(waiting')
    BY <2>1, RangeTail DEF PoolOnce
  <2>4. \A i, j \in DOMAIN waiting' : waiting'[i] = waiting'[j] => i = j
    BY <2>1, InjectiveTail DEF PoolOnce
  <2> QED
    BY <2>1, <2>2, <2>3, <2>4 DEF PoolOnce
<1>4. ASSUME Pool!Close PROVE PoolOnce'
  BY <1>4 DEF Pool!Close, PoolOnce
<1>5. ASSUME Pool!Discard PROVE PoolOnce'
  <2>1. waiting' = <<>> /\ Range(waiting') = {} /\ DOMAIN waiting' = {}
    BY <1>5 DEF Pool!Discard, Range
  <2>2. Range(waiting) \subseteq Request
    BY DEF PoolOnce, Range
  <2>3. /\ discarded' = discarded \cup Range(waiting) /\ closed
        /\ UNCHANGED <<running, finished, closed>>
    BY <1>5, PoolRange DEF Pool!Discard
  <2> QED
    BY <2>1, <2>2, <2>3 DEF PoolOnce
<1>6. CASE UNCHANGED Pool!vars
  BY <1>6 DEF Pool!vars, PoolOnce
<1> QED
  BY <1>1, <1>2, <1>3, <1>4, <1>5, <1>6 DEF Pool!Next

-----------------------------------------------------------------------------
\* What the pool has done with a request is what its client was told.
Told ==
    \A r \in Request :
        /\ at[r] = "routed" <=> r \in Range(waiting) \cup running \cup finished \cup discarded
        /\ ran[r] # NoHandler <=> r \in running \cup finished
        /\ reply[r] # "none" <=> at[r] = "refused" \/ r \in finished

\* A request that route accepted -- route was true -- is answered, or waits or runs,
\* or the pool was closed: no other way to lose it.  One that the closed pool dropped
\* was never called and gets no answer: its connection just goes with the task.
NoRequestLost ==
    \A r \in Request :
        /\ at[r] = "routed"
              => reply[r] # "none" \/ r \in running \cup Range(waiting) \/ closed
        /\ r \in discarded => reply[r] = "none" /\ ran[r] = NoHandler

\* A step that leaves alone the handler a request called and the answer it got.
Kept == \A r \in Request : /\ ran[r] # NoHandler => ran'[r] = ran[r]
                           /\ reply[r] # "none" => reply'[r] = reply[r]

\* A request calls one handler, once, and is answered once.
OnceOnly == [][Kept]_vars

\* The whole of what the router's and the pool's variables say about each other.
EInv == IInv /\ PoolOnce /\ Told

\* Why a request that runs or ran does not run again: it does not wait any more.
LEMMA OnceStep ==
    ASSUME EInv, [Next]_vars
    PROVE  Told' /\ Kept
<1>t. TypeOK /\ Pooled /\ PoolOnce /\ Told
  BY DEF EInv, IInv
<1> USE RouterAssumption DEF TypeOK, Kept, table, pool
<1>1. ASSUME NEW h \in Handler, Bind(h) PROVE Told' /\ Kept
  BY <1>1, <1>t DEF Bind, Told
<1>2. ASSUME NEW k \in Key, Unbind(k) PROVE Told' /\ Kept
  BY <1>2, <1>t DEF Unbind, Told
<1>3. ASSUME NEW r \in Request, NEW k \in Key \cup {NoKey}, Refuse(r, k) \/ Find(r, k)
      PROVE  Told' /\ Kept
  BY <1>3, <1>t DEF Refuse, Find, Told
<1>4. ASSUME NEW r \in Request, AddTask(r) PROVE Told' /\ Kept
  <2>1. /\ at[r] = "found" /\ at' = [at EXCEPT ![r] = "routed"]
        /\ UNCHANGED <<ran, reply>>
    BY <1>4 DEF AddTask
  <2>2. /\ running' = running /\ finished' = finished
        /\ Range(waiting') \cup discarded' = Range(waiting) \cup discarded \cup {r}
    <3>1. CASE Pool!Accept(r)
      BY <1>t, <3>1, RangeAppend DEF Pool!Accept, Pooled
    <3>2. CASE Pool!Reject(r)
      BY <3>2 DEF Pool!Reject
    <3> QED
      BY <1>4, <3>1, <3>2 DEF AddTask
  <2> QED
    BY <1>t, <2>1, <2>2 DEF Told
<1>5. ASSUME NEW r \in Request, Ends(r) PROVE Told' /\ Kept
  <2>1. PICK a \in {"empty", "value", "closed"} :
           reply' = [reply EXCEPT ![r] = a] /\ UNCHANGED <<at, ran>>
    BY <1>5, EndStep
  <2>2. reply[r] = "none" /\ Pool!Finish(r)
    BY <1>5 DEF Ends, Return, HandlerThrows, BadArguments, Disconnect, End
  <2>3. /\ r \in running /\ running' = running \ {r} /\ finished' = finished \cup {r}
        /\ UNCHANGED <<waiting, discarded>>
    BY <2>2 DEF Pool!Finish
  <2> QED
    BY <1>t, <2>1, <2>2, <2>3 DEF Told
<1>6. CASE Begin
  <2> DEFINE r == Head(waiting)
  <2>1. /\ waiting # <<>> /\ waiting' = Tail(waiting) /\ running' = running \cup {r}
        /\ UNCHANGED <<finished, discarded, at, reply>>
    BY <1>6 DEF Begin, Pool!Start
  <2>2. PICK h \in Handler : ran' = [ran EXCEPT ![r] = h]
    BY <1>6 DEF Begin
  <2>3. r \in Request /\ Range(waiting) = {r} \cup Range(waiting')
    BY <1>t, <2>1, RangeTail DEF Pooled
  <2>4. ran[r] = NoHandler
    BY <1>t, <2>3 DEF PoolOnce, Told
  <2> HIDE DEF r
  <2> QED
    BY <1>t, <2>1, <2>2, <2>3, <2>4 DEF Told
<1>7. CASE StopPool
  <2>1. UNCHANGED <<at, ran, reply>>
    BY <1>7 DEF StopPool
  <2>2. /\ running' = running /\ finished' = finished
        /\ Range(waiting') \cup discarded' = Range(waiting) \cup discarded
    <3>1. CASE Pool!Close
      BY <3>1 DEF Pool!Close
    <3>2. CASE Pool!Discard
      <4>1. Range(waiting') = {}
        BY <3>2 DEF Pool!Discard, Range
      <4> QED
        BY <3>2, <4>1, PoolRange DEF Pool!Discard
    <3> QED
      BY <1>7, <3>1, <3>2 DEF StopPool
  <2> QED
    BY <1>t, <2>1, <2>2 DEF Told
<1>8. CASE UNCHANGED vars
  BY <1>8, <1>t DEF vars, Told
<1> QED
  BY <1>1, <1>2, <1>3, <1>4, <1>5, <1>6, <1>7, <1>8 DEF Next, Ends

\* What the router knows of its requests, as one invariant.
LEMMA OnceInvariance == Spec => []EInv
<1>1. Init => PoolOnce /\ Told
  <2> SUFFICES ASSUME Init PROVE PoolOnce /\ Told
    OBVIOUS
  <2>1. waiting = <<>> /\ running = {} /\ finished = {} /\ discarded = {}
    BY DEF Init, Pool!Init
  <2>2. Range(waiting) = {} /\ DOMAIN waiting = {}
    BY <2>1 DEF Range
  <2> QED
    BY <2>1, <2>2 DEF Init, PoolOnce, Told
<1>2. EInv /\ [Next]_vars => EInv'
  BY TablesStep, PooledStep, ReferenceStep, HandlerStep, PoolStep, PoolOnceStep, OnceStep
     DEF EInv, IInv
<1> QED
  BY <1>1, <1>2, InitIInv, PTL DEF Spec, EInv

\* Between route's true and the answer a request has one place, and only the end of
\* the pool takes it from there.
THEOREM RoutedIsKept == Spec => []NoRequestLost
<1>1. EInv => NoRequestLost
  BY DEF EInv, IInv, TypeOK, PoolOnce, Told, NoRequestLost
<1> QED
  BY <1>1, OnceInvariance, PTL

\* The pool's "once" carries over to the handlers and to the clients.
THEOREM ServedOnce == Spec => OnceOnly
<1>1. EInv /\ [Next]_vars => Kept
  BY OnceStep
<1> QED
  BY <1>1, OnceInvariance, PTL DEF Spec, OnceOnly

=============================================================================
