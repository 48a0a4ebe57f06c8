-------------------------------- MODULE Router --------------------------------
(***************************************************************************)
(* easyrpc/server/router.hpp: the two tables of bound handlers, the io     *)
(* threads that look a request up in them and hand it to the pool, and the *)
(* workers that call the handler and answer.  A task does not hold the     *)
(* handler but a reference to its entry in the table; bind and unbind may  *)
(* be called while requests are routed, and no lock protects the tables.   *)
(*                                                                         *)
(* The pool is the queue that ThreadPool is checked to implement.  Each    *)
(* table operation is one step: the races inside the hash table itself are *)
(* not modelled.                                                           *)
(***************************************************************************)
EXTENDS Naturals, Sequences, Functions

CONSTANTS Key,        \* <<mode, protocol>>: an entry of invoker_map_ or
                      \* invoker_raw_map_
          Handler,    \* the functions the application binds
          NoHandler,
          Serves,     \* the key the application binds each handler to
          Void,       \* the handlers that return nothing
          Request,
          NoKey,      \* a request's call_mode is neither raw nor non_raw
          MaxUnbind   \* bound: how often each key is unbound

ASSUME RouterAssumption == /\ NoHandler \notin Handler
                           /\ NoKey \notin Key
                           /\ Serves \in [Handler -> Key]
                           /\ Void \subseteq Handler
                           /\ MaxUnbind \in Nat

VARIABLES invoker,  \* the bound handler of each key
          erased,   \* how many entries of each key were erased
          key,      \* each request's key
          at,       \* where its routing is
          ref,      \* the entry its task refers to: its key, and what erased
                    \* was for it when the reference was taken
          ran,      \* the handler its worker called
          how,      \* how that ended
          reply,    \* what went back to the client
          misused,  \* history: an entry was erased under a request
          waiting, running, finished, discarded, closed  \* the pool

pool  == <<waiting, running, finished, discarded, closed>>
table == <<invoker, erased, misused>>
vars  == <<table, key, at, ref, ran, how, reply, pool>>

Pool == INSTANCE TaskQueue WITH Task <- Request

IsRaw(r) == key[r] \in {k \in Key : k[1] = "raw"}

Init == /\ invoker = [k \in Key |-> NoHandler]
        /\ erased = [k \in Key |-> 0]
        /\ misused = FALSE
        /\ key = [r \in Request |-> NoKey]
        /\ at = [r \in Request |-> "new"]
        /\ ref = [r \in Request |-> <<NoKey, 0>>]
        /\ ran = [r \in Request |-> NoHandler]
        /\ how = [r \in Request |-> "none"]
        /\ reply = [r \in Request |-> "none"]
        /\ Pool!Init

\* A request between its look-up and the end of its task.
Refers(r) == at[r] = "found" \/ r \in running \cup Range(waiting)

-----------------------------------------------------------------------------
\* Faulty: replaces the entry instead of assigning to it.
Bind_NewEntry(h) ==
    /\ invoker' = [invoker EXCEPT ![Serves[h]] = h]
    /\ erased' = [erased EXCEPT ![Serves[h]] = @ + 1]
    /\ UNCHANGED <<misused, key, at, ref, ran, how, reply, pool>>

\* bind, bind_raw: operator[] makes the entry or assigns to the one there is.
Bind(h) ==
    /\ invoker' = [invoker EXCEPT ![Serves[h]] = h]
    /\ UNCHANGED <<erased, misused, key, at, ref, ran, how, reply, pool>>

\* unbind, unbind_raw: erase, whoever refers to the entry.
Unbind(k) ==
    /\ invoker[k] # NoHandler
    /\ erased[k] < MaxUnbind
    /\ invoker' = [invoker EXCEPT ![k] = NoHandler]
    /\ erased' = [erased EXCEPT ![k] = @ + 1]
    /\ misused' = (misused \/ \E r \in Request : key[r] = k /\ Refers(r))
    /\ UNCHANGED <<key, at, ref, ran, how, reply, pool>>

-----------------------------------------------------------------------------
\* route is false: no such mode or nothing bound.  The connection closes.
Refuse(r, k) ==
    /\ at[r] = "new"
    /\ k = NoKey \/ (k \in Key /\ invoker[k] = NoHandler)
    /\ key' = [key EXCEPT ![r] = k]
    /\ at' = [at EXCEPT ![r] = "refused"]
    /\ reply' = [reply EXCEPT ![r] = "closed"]
    /\ UNCHANGED <<table, ref, ran, how, pool>>

\* Faulty: looks every request up in one table.
Find_OneTable(r, k) ==
    /\ at[r] = "new"
    /\ k \in Key
    /\ key' = [key EXCEPT ![r] = k]
    /\ \E j \in Key : /\ j[2] = k[2]
                      /\ invoker[j] # NoHandler
                      /\ ref' = [ref EXCEPT ![r] = <<j, erased[j]>>]
    /\ at' = [at EXCEPT ![r] = "found"]
    /\ UNCHANGED <<table, ran, how, reply, pool>>

\* Faulty: uses what find returned, end() included.
Find_Unchecked(r, k) ==
    /\ at[r] = "new"
    /\ k \in Key
    /\ key' = [key EXCEPT ![r] = k]
    /\ ref' = [ref EXCEPT ![r] = IF invoker[k] = NoHandler THEN <<NoKey, 0>>
                                 ELSE <<k, erased[k]>>]
    /\ at' = [at EXCEPT ![r] = "found"]
    /\ UNCHANGED <<table, ran, how, reply, pool>>

Find(r, k) ==
    /\ at[r] = "new"
    /\ k \in Key
    /\ invoker[k] # NoHandler
    /\ key' = [key EXCEPT ![r] = k]
    /\ ref' = [ref EXCEPT ![r] = <<k, erased[k]>>]
    /\ at' = [at EXCEPT ![r] = "found"]
    /\ UNCHANGED <<table, ran, how, reply, pool>>

\* add_task(iter->second, body, conn); a stopped pool drops it and route is true
\* all the same.
AddTask(r) ==
    /\ at[r] = "found"
    /\ at' = [at EXCEPT ![r] = "routed"]
    /\ Pool!Accept(r) \/ Pool!Reject(r)
    /\ UNCHANGED <<table, key, ref, ran, how, reply>>

-----------------------------------------------------------------------------
\* A worker calls what the reference leads to.  Behind an erased entry that is
\* undefined: any handler may run.
Begin ==
    /\ Pool!Start
    /\ LET r == Head(waiting)
           e == ref[r]
       IN  \E h \in Handler : /\ erased[e[1]] = e[2] => h = invoker[e[1]]
                              /\ ran' = [ran EXCEPT ![r] = h]
    /\ UNCHANGED <<table, key, at, ref, how, reply>>

\* The task ends as `h`, having answered with `a`.
End(r, h, a) ==
    /\ reply[r] = "none"
    /\ Pool!Finish(r)
    /\ how' = [how EXCEPT ![r] = h]
    /\ reply' = [reply EXCEPT ![r] = a]
    /\ UNCHANGED <<table, key, at, ref, ran>>

\* Faulty: a task ends without an answer.
Return_Unanswered(r) == End(r, "done", "none")

\* What call and call_raw make of the handler's return: a string as it is, ""
\* for nothing, or what easypack (external) packs, which is not empty for a value.
Packed(r) == CASE IsRaw(r) /\ ran[r] \in Void     -> {"empty"}
               [] ~IsRaw(r) /\ ran[r] \notin Void -> {"value"}
               [] OTHER                           -> {"empty", "value"}

\* The handler returns.
Return(r) == \E a \in Packed(r) : End(r, "done", a)

\* Faulty: the packed default of the result goes out.
HandlerThrows_Packs(r) == End(r, "threw", "value")

\* apply catches what the handler throws and leaves the result empty.
HandlerThrows(r) == End(r, "threw", "empty")

\* The arguments do not unpack: apply catches that too and calls nothing.
BadArguments(r) == ~IsRaw(r) /\ End(r, "uncalled", "empty")

\* The parser throws before apply, or write throws after it: operator()
\* disconnects.
Disconnect(r) == \/ ~IsRaw(r) /\ End(r, "uncalled", "closed")
                 \/ \E h \in {"done", "threw"} : End(r, h, "closed")

StopPool == /\ Pool!Close \/ Pool!Discard
            /\ UNCHANGED <<table, key, at, ref, ran, how, reply>>

-----------------------------------------------------------------------------
Next == \/ \E h \in Handler : Bind(h)
        \/ \E k \in Key : Unbind(k)
        \/ \E r \in Request, k \in Key \cup {NoKey} : Refuse(r, k) \/ Find(r, k)
        \/ \E r \in Request : \/ AddTask(r) \/ Return(r) \/ HandlerThrows(r)
                              \/ BadArguments(r) \/ Disconnect(r)
        \/ Begin
        \/ StopPool

Spec == Init /\ [][Next]_vars

\* The io thread goes on from the look-up, workers run and handlers return or
\* throw.
Fairness == /\ WF_vars(Begin)
            /\ \A r \in Request :
                  /\ WF_vars(AddTask(r))
                  /\ WF_vars(Return(r) \/ HandlerThrows(r) \/ BadArguments(r)
                                \/ Disconnect(r))

FairSpec == Spec /\ Fairness

-----------------------------------------------------------------------------
(* Properties *)

\* Every variable of the router keeps its type, and what a routed request refers
\* to is an entry of a table.
TypeOK == /\ invoker \in [Key -> Handler \cup {NoHandler}]
          /\ erased \in [Key -> 0..MaxUnbind]
          /\ misused \in BOOLEAN
          /\ key \in [Request -> Key \cup {NoKey}]
          /\ at \in [Request -> {"new", "found", "routed", "refused"}]
          /\ ref \in [Request -> (Key \cup {NoKey}) \X (0..MaxUnbind)]
          /\ \A r \in Request : at[r] \in {"found", "routed"} => ref[r][1] \in Key
          /\ ran \in [Request -> Handler \cup {NoHandler}]
          /\ how \in [Request -> {"none", "uncalled", "done", "threw"}]
          /\ reply \in [Request -> {"none", "empty", "value", "closed"}]

\* A request is served by a handler of its own mode and protocol, however often
\* handlers are bound anew meanwhile, unless an entry was erased under a request.
OwnHandler ==
    ~misused => \A r \in Request : ran[r] # NoHandler => Serves[ran[r]] = key[r]

\* While a task waits or runs, its reference leads to a bound entry, unless an
\* entry was erased under a request.
NoDanglingReference ==
    ~misused => \A r \in Request :
                   Refers(r) => /\ erased[ref[r][1]] = ref[r][2]
                                /\ invoker[ref[r][1]] # NoHandler

\* A response with a value in it means that the handler ran to its end.
ValueMeansDone ==
    \A r \in Request : reply[r] = "value" => how[r] = "done"

\* A request that was found is answered or its connection closed, unless the
\* pool is stopped.
FoundIsAnswered ==
    \A r \in Request : at[r] = "found" ~> (reply[r] # "none" \/ closed)
=============================================================================
