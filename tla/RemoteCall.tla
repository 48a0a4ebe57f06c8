------------------------------ MODULE RemoteCall ------------------------------
(***************************************************************************)
(* What easyrpc promises to those who call and to those who bind a         *)
(* handler, without threads, sockets or timers: a call is executed at most *)
(* once and only if it was made; when a call returns, its execution is     *)
(* over.  Over is not successful: a handler that threw, and arguments that *)
(* call none, are answered too (Router tells them apart).  A call may      *)
(* throw at any time, whatever became of it: it may have been executed,    *)
(* and it may still be executed later.                                     *)
(***************************************************************************)
EXTENDS Sequences, Functions

CONSTANT Call

VARIABLES status,  \* what each call's thread has seen of it
          begun,   \* the calls whose execution began, in that order
          over     \* those whose execution is over

vars == <<status, begun, over>>

Init == /\ status = [c \in Call |-> "idle"]
        /\ begun = <<>>
        /\ over = {}

Invoke(c) == /\ status[c] = "idle"
             /\ status' = [status EXCEPT ![c] = "called"]
             /\ UNCHANGED <<begun, over>>

Begin(c) == /\ status[c] # "idle"
            /\ c \notin Range(begun)
            /\ begun' = Append(begun, c)
            /\ UNCHANGED <<status, over>>

Finish(c) == /\ c \in Range(begun)
             /\ over' = over \cup {c}
             /\ UNCHANGED <<status, begun>>

Return(c) == /\ status[c] = "called"
             /\ c \in over
             /\ status' = [status EXCEPT ![c] = "returned"]
             /\ UNCHANGED <<begun, over>>

Throw(c) == /\ status[c] = "called"
            /\ status' = [status EXCEPT ![c] = "threw"]
            /\ UNCHANGED <<begun, over>>

Next == \E c \in Call : Invoke(c) \/ Begin(c) \/ Finish(c) \/ Return(c) \/ Throw(c)

Spec == Init /\ [][Next]_vars
=============================================================================
