------------------------------- MODULE Framing -------------------------------
(***************************************************************************)
(* easyrpc/base/header.hpp and the four functions that write and check the *)
(* headers: how the sizes of a call's strings travel through fields of 32  *)
(* bits and past a limit that each end tests in its own way.  One call;    *)
(* strings are their lengths, a stream is the number of bytes in it.       *)
(***************************************************************************)
EXTENDS Naturals

CONSTANTS max_buffer_len,
          WordMod,   \* unsigned int counts modulo this
          Size       \* the lengths a std::string may have

ASSUME FramingAssumption == /\ max_buffer_len \in Nat
                            /\ WordMod \in Nat /\ WordMod > max_buffer_len
                            /\ Size \subseteq Nat

VARIABLES pc,              \* how far the call has come
          protocol, body,  \* the lengths the caller passed
          req_head,        \* request_header, without the mode
          split,           \* the lengths of the strings given to route
          result,          \* the length of the response
          res_head,        \* response_header's body_len
          got              \* the length of what call returns

vars == <<pc, protocol, body, req_head, split, result, res_head, got>>

NoHead == [protocol_len |-> 0, body_len |-> 0]

Init == /\ pc = "call"
        /\ protocol = 0 /\ body = 0 /\ result = 0
        /\ req_head = NoHead /\ split = NoHead
        /\ res_head = 0 /\ got = 0

\* What an unsigned int keeps of a number.
UInt(n) == n % WordMod

-----------------------------------------------------------------------------
\* Faulty: tests each part against the limit.
ClientWrite_Parts(p, b) ==
    /\ pc = "call"
    /\ protocol' = p /\ body' = b
    /\ req_head' = [protocol_len |-> UInt(p), body_len |-> UInt(b)]
    /\ pc' = IF UInt(p) > max_buffer_len \/ UInt(b) > max_buffer_len
             THEN "client_throws" ELSE "requested"
    /\ UNCHANGED <<split, result, res_head, got>>

\* Faulty: the fields keep the whole length.
ClientWrite_Wide(p, b) ==
    /\ pc = "call"
    /\ protocol' = p /\ body' = b
    /\ req_head' = [protocol_len |-> p, body_len |-> b]
    /\ pc' = IF UInt(p + b) > max_buffer_len THEN "client_throws" ELSE "requested"
    /\ UNCHANGED <<split, result, res_head, got>>

\* rpc_session::write: the casts come before the test, and the sum wraps too.
ClientWrite(p, b) ==
    /\ pc = "call"
    /\ protocol' = p /\ body' = b
    /\ req_head' = [protocol_len |-> UInt(p), body_len |-> UInt(b)]
    /\ pc' = IF UInt(UInt(p) + UInt(b)) > max_buffer_len
             THEN "client_throws" ELSE "requested"
    /\ UNCHANGED <<split, result, res_head, got>>

RequestLen == UInt(req_head.protocol_len + req_head.body_len)

\* connection::check_head; a request it refuses costs the connection.
ServerCheckHead ==
    /\ pc = "requested"
    /\ pc' = IF RequestLen > 0 /\ RequestLen < max_buffer_len
             THEN "accepted" ELSE "server_refuses"
    /\ UNCHANGED <<protocol, body, req_head, split, result, res_head, got>>

\* Faulty: takes the body for the protocol's name.
ServerRead_Swapped ==
    /\ pc = "accepted"
    /\ split' = [protocol_len |-> req_head.body_len,
                 body_len |-> req_head.protocol_len]
    /\ pc' = "routed"
    /\ UNCHANGED <<protocol, body, req_head, result, res_head, got>>

\* read_protocol_and_body reads RequestLen bytes and splits them.
ServerRead ==
    /\ pc = "accepted"
    /\ split' = req_head
    /\ pc' = "routed"
    /\ UNCHANGED <<protocol, body, req_head, result, res_head, got>>

\* Faulty: leaves the test to the client.
ServerWrite_NoLimit(r) ==
    /\ pc = "routed"
    /\ result' = r
    /\ res_head' = UInt(r)
    /\ pc' = "responded"
    /\ UNCHANGED <<protocol, body, req_head, split, got>>

\* connection::write; the exception makes the worker close the connection.
ServerWrite(r) ==
    /\ pc = "routed"
    /\ result' = r
    /\ res_head' = UInt(r)
    /\ pc' = IF UInt(r) > max_buffer_len THEN "server_throws" ELSE "responded"
    /\ UNCHANGED <<protocol, body, req_head, split, got>>

\* rpc_session::check_head and read_body.
ClientRead ==
    /\ pc = "responded"
    /\ IF res_head > max_buffer_len
       THEN pc' = "client_refuses" /\ UNCHANGED got
       ELSE pc' = "returned" /\ got' = res_head
    /\ UNCHANGED <<protocol, body, req_head, split, result, res_head>>

-----------------------------------------------------------------------------
Next == \/ \E p, b \in Size : ClientWrite(p, b)
        \/ ServerCheckHead
        \/ ServerRead
        \/ \E r \in Size : ServerWrite(r)
        \/ ClientRead

Spec == Init /\ [][Next]_vars

-----------------------------------------------------------------------------
(* Properties *)

Heads == [protocol_len : 0..WordMod - 1, body_len : 0..WordMod - 1]

\* Lengths are natural numbers, header fields are unsigned ints.
TypeOK == /\ pc \in {"call", "client_throws", "requested", "accepted",
                     "server_refuses", "routed", "server_throws", "responded",
                     "client_refuses", "returned"}
          /\ protocol \in Nat /\ body \in Nat /\ result \in Nat /\ got \in Nat
          /\ req_head \in Heads /\ split \in Heads
          /\ res_head \in 0..WordMod - 1

\* route gets the two strings the caller passed, whole, unless they hold more
\* than an unsigned int can count.
ExactRequest ==
    pc \in {"routed", "server_throws", "responded", "client_refuses", "returned"}
        /\ protocol + body < WordMod
        => split = [protocol_len |-> protocol, body_len |-> body]

\* The ends agree on responses: the client refuses none that the server wrote,
\* and returns it whole unless it holds more than an unsigned int can count.
ExactResponse == /\ pc # "client_refuses"
                 /\ pc = "returned" /\ result < WordMod => got = result

\* No request of more than max_buffer_len bytes leaves the client, if an unsigned int can
\* count them.
TooBigNotSent ==
    pc \notin {"call", "client_throws"} /\ protocol + body < WordMod
        => protocol + body <= max_buffer_len

\* The ends agree on requests: what the client may send, which is all but what
\* is larger than the limit (README.md:205), the server does not refuse.
RequestAgreed ==
    pc = "server_refuses" /\ protocol + body < WordMod
        => protocol + body = 0 \/ protocol + body > max_buffer_len
=============================================================================
