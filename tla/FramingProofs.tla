---------------------------- MODULE FramingProofs ----------------------------
(***************************************************************************)
(* Framing's properties for any limit, any width of unsigned int above it  *)
(* and strings of any length.                                              *)
(***************************************************************************)
EXTENDS Framing, TLAPS

\* The part of a call after the request was sent.
Sent == pc \notin {"call", "client_throws"}

\* The header holds what the casts left of the lengths, and their sum passed the
\* client's test; the parts are split as the header says; the same of the response.
HeadersCarry ==
    /\ Sent => /\ req_head = [protocol_len |-> UInt(protocol), body_len |-> UInt(body)]
               /\ UInt(UInt(protocol) + UInt(body)) <= max_buffer_len
    /\ pc \in {"routed", "server_throws", "responded", "returned"} => split = req_head
    /\ pc = "responded" => res_head = UInt(result) /\ res_head <= max_buffer_len
    /\ pc = "returned" => got = UInt(result)
    /\ pc # "client_refuses"

IInv == TypeOK /\ HeadersCarry

-----------------------------------------------------------------------------
\* What an unsigned int keeps of a length, and that it keeps a small one whole.
LEMMA UIntRange == \A n \in Nat : UInt(n) \in 0..WordMod - 1
BY FramingAssumption DEF UInt

\* A length that fits an unsigned int is kept by the cast.
LEMMA UIntSmall == \A n \in Nat : n < WordMod => UInt(n) = n
BY FramingAssumption DEF UInt

\* Each step keeps what the two ends know of the lengths.
LEMMA Inductive == IInv /\ [Next]_vars => IInv'
<1> SUFFICES ASSUME IInv, [Next]_vars PROVE IInv'
  OBVIOUS
<1> USE FramingAssumption DEF IInv, TypeOK, HeadersCarry, Sent, Heads
<1>1. ASSUME NEW p \in Size, NEW b \in Size, ClientWrite(p, b) PROVE IInv'
  <2>1. p \in Nat /\ b \in Nat
    OBVIOUS
  <2>2. UInt(p) \in 0..WordMod - 1 /\ UInt(b) \in 0..WordMod - 1
    BY <2>1, UIntRange
  <2>3. UInt(UInt(p) + UInt(b)) \in 0..WordMod - 1
    BY <2>2, UIntRange
  <2> QED
    BY <1>1, <2>1, <2>2, <2>3 DEF ClientWrite
<1>2. ASSUME ServerCheckHead PROVE IInv'
  BY <1>2 DEF ServerCheckHead
<1>3. ASSUME ServerRead PROVE IInv'
  BY <1>3 DEF ServerRead
<1>4. ASSUME NEW r \in Size, ServerWrite(r) PROVE IInv'
  <2>1. r \in Nat /\ UInt(r) \in 0..WordMod - 1
    BY UIntRange
  <2> QED
    BY <1>4, <2>1 DEF ServerWrite
<1>5. ASSUME ClientRead PROVE IInv'
  BY <1>5 DEF ClientRead
<1>6. CASE UNCHANGED vars
  BY <1>6 DEF vars
<1> QED
  BY <1>1, <1>2, <1>3, <1>4, <1>5, <1>6 DEF Next

\* The strengthening is an invariant of the message's way.
LEMMA Invariance == Spec => []IInv
<1>1. Init => IInv
  BY FramingAssumption DEF Init, IInv, TypeOK, HeadersCarry, Sent, Heads, NoHead
<1> QED
  BY <1>1, Inductive, PTL DEF Spec

-----------------------------------------------------------------------------
\* Header fields stay unsigned ints, whatever the lengths.
THEOREM TypeCorrect == Spec => []TypeOK
BY Invariance, PTL DEF IInv

\* For any limit and any width, route gets the protocol and the body the caller
\* passed, unless they are longer than an unsigned int can count.
THEOREM RequestArrivesWhole == Spec => []ExactRequest
<1>1. IInv => ExactRequest
  <2> SUFFICES ASSUME IInv, protocol + body < WordMod,
                      pc \in {"routed", "server_throws", "responded", "client_refuses", "returned"}
               PROVE  split = [protocol_len |-> protocol, body_len |-> body]
    BY DEF ExactRequest
  <2>1. protocol \in Nat /\ body \in Nat /\ protocol < WordMod /\ body < WordMod
    BY FramingAssumption DEF IInv, TypeOK
  <2>2. UInt(protocol) = protocol /\ UInt(body) = body
    BY <2>1, UIntSmall
  <2> QED
    BY <2>2 DEF IInv, HeadersCarry, Sent
<1> QED
  BY <1>1, Invariance, PTL

\* The client refuses no response the server wrote, and returns it whole.
THEOREM ResponseArrivesWhole == Spec => []ExactResponse
<1>1. IInv => ExactResponse
  BY UIntSmall DEF IInv, TypeOK, HeadersCarry, ExactResponse
<1> QED
  BY <1>1, Invariance, PTL

\* rpc_session::write lets no request above the limit through, if an unsigned int
\* can count it: casting before the test does no harm below that.
THEOREM TooBigStaysHome == Spec => []TooBigNotSent
<1>1. IInv => TooBigNotSent
  <2> SUFFICES ASSUME IInv, Sent, protocol + body < WordMod
               PROVE  protocol + body <= max_buffer_len
    BY DEF TooBigNotSent, Sent
  <2>1. /\ protocol \in Nat /\ body \in Nat /\ protocol < WordMod /\ body < WordMod
        /\ protocol + body \in Nat
    BY FramingAssumption DEF IInv, TypeOK
  <2>2. UInt(protocol) = protocol /\ UInt(body) = body /\ UInt(protocol + body) = protocol + body
    BY <2>1, UIntSmall
  <2> QED
    BY <2>2 DEF IInv, HeadersCarry
<1> QED
  BY <1>1, Invariance, PTL

-----------------------------------------------------------------------------
\* The client tests "more than the limit", the server "less than the limit, and
\* not zero": a request an unsigned int can count that the client sent and
\* connection::check_head refuses is empty or has exactly the limit's length.
DisagreeOnlyAtLimit ==
    pc = "server_refuses" /\ protocol + body < WordMod
        => protocol + body \in {0, max_buffer_len}

\* What the server accepts has, as a header's sum, between 1 byte and one less
\* than the limit, even where the client's casts or the sum wrapped.
AcceptedWasSendable ==
    pc \in {"accepted", "routed", "server_throws", "responded", "returned"}
        => RequestLen \in 1..max_buffer_len - 1

\* check_head refuses for one reason only.
Refusal == /\ pc = "server_refuses" => RequestLen = 0 \/ RequestLen >= max_buffer_len
           /\ AcceptedWasSendable

\* The server's test decides, once, what a request's header lets through.
LEMMA RefusalInvariance == Spec => [](IInv /\ Refusal)
<1> USE FramingAssumption DEF Refusal, AcceptedWasSendable
<1>1. Init => Refusal
  BY DEF Init
<1>2. IInv /\ Refusal /\ [Next]_vars => Refusal'
  <2> SUFFICES ASSUME IInv, Refusal, [Next]_vars PROVE Refusal'
    OBVIOUS
  <2> USE DEF RequestLen
  <2>1. ASSUME NEW p \in Size, NEW b \in Size, ClientWrite(p, b) PROVE Refusal'
    BY <2>1 DEF ClientWrite
  <2>2. ASSUME ServerCheckHead PROVE Refusal'
    <3>1. RequestLen \in 0..WordMod - 1 /\ RequestLen' = RequestLen
      BY <2>2, UIntRange DEF ServerCheckHead, IInv, TypeOK, Heads
    <3> QED
      BY <2>2, <3>1 DEF ServerCheckHead
  <2>3. ASSUME ServerRead PROVE Refusal'
    BY <2>3 DEF ServerRead
  <2>4. ASSUME NEW r \in Size, ServerWrite(r) PROVE Refusal'
    BY <2>4 DEF ServerWrite
  <2>5. ASSUME ClientRead PROVE Refusal'
    BY <2>5 DEF ClientRead
  <2>6. CASE UNCHANGED vars
    BY <2>6 DEF vars
  <2> QED
    BY <2>1, <2>2, <2>3, <2>4, <2>5, <2>6 DEF Next
<1> QED
  BY <1>1, <1>2, Invariance, PTL DEF Spec

\* The two ends' limits of a request differ in the limit itself and in zero, and
\* nowhere else: what the code needs changed to keep the README's word.
THEOREM LimitsDifferAtTheLimit == Spec => []DisagreeOnlyAtLimit
<1>1. IInv /\ Refusal => DisagreeOnlyAtLimit
  <2> SUFFICES ASSUME IInv, Refusal, pc = "server_refuses", protocol + body < WordMod
               PROVE  protocol + body \in {0, max_buffer_len}
    BY DEF DisagreeOnlyAtLimit
  <2>1. /\ protocol \in Nat /\ body \in Nat /\ protocol < WordMod /\ body < WordMod
        /\ protocol + body \in Nat
    BY FramingAssumption DEF IInv, TypeOK
  <2>2. UInt(protocol) = protocol /\ UInt(body) = body /\ UInt(protocol + body) = protocol + body
    BY <2>1, UIntSmall
  <2>3. RequestLen = protocol + body /\ protocol + body <= max_buffer_len
    BY <2>2 DEF IInv, HeadersCarry, Sent, RequestLen
  <2> QED
    BY <2>1, <2>3, FramingAssumption DEF Refusal
<1> QED
  BY <1>1, RefusalInvariance, PTL

\* The buffer read_protocol_and_body resizes for a request is never empty and stays
\* below the limit, whatever the lengths wrapped to.
THEOREM BufferSized == Spec => []AcceptedWasSendable
BY RefusalInvariance, PTL DEF Refusal

=============================================================================
