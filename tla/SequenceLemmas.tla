---------------------------- MODULE SequenceLemmas ----------------------------
(***************************************************************************)
(* The elements of a queue, as it grows at its end and shrinks at its      *)
(* head.  The proofs about the pool and what uses it rest on these.        *)
(***************************************************************************)
EXTENDS Integers, Sequences, Functions, SequenceTheorems, TLAPS

\* Append adds one element.
LEMMA RangeAppend ==
    ASSUME NEW S, NEW q \in Seq(S), NEW e \in S
    PROVE  Range(Append(q, e)) = Range(q) \cup {e}
<1>1. Append(q, e) \in Seq(S) /\ Len(Append(q, e)) = Len(q) + 1
  OBVIOUS
<1>2. DOMAIN Append(q, e) = DOMAIN q \cup {Len(q) + 1}
  BY <1>1, LenProperties
<1>3. \A i \in DOMAIN q : Append(q, e)[i] = q[i]
  BY LenProperties
<1>4. Append(q, e)[Len(q) + 1] = e
  OBVIOUS
<1> QED
  BY <1>2, <1>3, <1>4 DEF Range

\* Tail drops the head, which a queue without repetitions then no longer holds.
LEMMA RangeTail ==
    ASSUME NEW S, NEW q \in Seq(S), q # <<>>
    PROVE  /\ Range(q) = {Head(q)} \cup Range(Tail(q))
           /\ (\A i, j \in DOMAIN q : q[i] = q[j] => i = j) => Head(q) \notin Range(Tail(q))
<1>1. Len(q) \in Nat /\ Len(q) > 0 /\ DOMAIN q = 1..Len(q)
  BY EmptySeq, LenProperties
<1>2. Tail(q) \in Seq(S) /\ Len(Tail(q)) = Len(q) - 1 /\ DOMAIN Tail(q) = 1..Len(q) - 1
  BY <1>1
<1>3. \A i \in 1..Len(q) - 1 : Tail(q)[i] = q[i + 1]
  BY <1>1
<1>4. Head(q) = q[1]
  BY <1>1
<1>5. \A i \in DOMAIN q : i = 1 \/ (i - 1 \in DOMAIN Tail(q) /\ Tail(q)[i - 1] = q[i])
  BY <1>1, <1>2, <1>3
<1>6. \A i \in DOMAIN Tail(q) : i + 1 \in DOMAIN q /\ i + 1 # 1 /\ Tail(q)[i] = q[i + 1]
  BY <1>1, <1>2, <1>3
<1>7. Range(q) = {Head(q)} \cup Range(Tail(q))
  <2>1. ASSUME NEW x \in Range(q) PROVE x = Head(q) \/ x \in Range(Tail(q))
    BY <1>4, <1>5, <2>1 DEF Range
  <2>2. ASSUME NEW x \in Range(Tail(q)) PROVE x \in Range(q)
    BY <1>6, <2>2 DEF Range
  <2>3. Head(q) \in Range(q)
    BY <1>1, <1>4 DEF Range
  <2> QED
    BY <2>1, <2>2, <2>3
<1>8. ASSUME \A i, j \in DOMAIN q : q[i] = q[j] => i = j
      PROVE  Head(q) \notin Range(Tail(q))
  <2> SUFFICES ASSUME NEW i \in DOMAIN Tail(q), Tail(q)[i] = q[1] PROVE FALSE
    BY <1>4 DEF Range
  <2>1. i + 1 \in DOMAIN q /\ q[i + 1] = q[1] /\ i + 1 # 1 /\ 1 \in DOMAIN q
    BY <1>1, <1>6
  <2> QED
    BY <1>8, <2>1
<1> QED
  BY <1>7, <1>8

\* A new element at the end repeats nothing.
LEMMA InjectiveAppend ==
    ASSUME NEW S, NEW q \in Seq(S), NEW e \in S, e \notin Range(q),
           \A i, j \in DOMAIN q : q[i] = q[j] => i = j
    PROVE  LET a == Append(q, e) IN \A i, j \in DOMAIN a : a[i] = a[j] => i = j
<1> DEFINE a == Append(q, e)
<1>1. DOMAIN a = DOMAIN q \cup {Len(q) + 1} /\ a[Len(q) + 1] = e
  BY LenProperties
<1>2. \A i \in DOMAIN q : a[i] = q[i] /\ q[i] # e
  BY LenProperties DEF Range
<1> HIDE DEF a
<1>3. \A i, j \in DOMAIN a : a[i] = a[j] => i = j
  BY <1>1, <1>2
<1> QED
  BY <1>3 DEF a

\* What is left after the head repeats nothing.
LEMMA InjectiveTail ==
    ASSUME NEW S, NEW q \in Seq(S), q # <<>>,
           \A i, j \in DOMAIN q : q[i] = q[j] => i = j
    PROVE  LET t == Tail(q) IN \A i, j \in DOMAIN t : t[i] = t[j] => i = j
<1> DEFINE t == Tail(q)
<1>1. Len(q) \in Nat /\ Len(q) > 0 /\ DOMAIN q = 1..Len(q)
  BY EmptySeq, LenProperties
<1>2. DOMAIN t = 1..Len(q) - 1
  BY <1>1
<1>3. \A i \in DOMAIN t : i \in Int /\ i + 1 \in DOMAIN q /\ t[i] = q[i + 1]
  BY <1>1, <1>2
<1> HIDE DEF t
<1>4. \A i, j \in DOMAIN t : t[i] = t[j] => i = j
  <2> SUFFICES ASSUME NEW i \in DOMAIN t, NEW j \in DOMAIN t, t[i] = t[j] PROVE i = j
    OBVIOUS
  <2>1. q[i + 1] = q[j + 1] /\ i \in Int /\ j \in Int
    BY <1>3
  <2>2. i + 1 = j + 1
    BY <1>3, <2>1
  <2> QED
    BY <2>1, <2>2
<1> QED
  BY <1>4 DEF t

=============================================================================
