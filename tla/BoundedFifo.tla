---------------------------- MODULE BoundedFifo ----------------------------
(***************************************************************************)
(* What atomic/ring.h promises of a RingBuffer: a bounded first-in         *)
(* first-out queue whose operations take effect at one instant, and which  *)
(* refuses a push only when it is full and a pop only when it is empty.    *)
(***************************************************************************)
EXTENDS Naturals, Sequences

CONSTANTS Threads, Items, Capacity, Nothing

VARIABLES
  queue,    \* the items, oldest first
  result    \* what each thread's current call returns, once that is decided

Init ==
  /\ queue = <<>>
  /\ result = [t \in Threads |-> Nothing]

Decide(t, r) ==
  /\ result[t] = Nothing
  /\ result' = [result EXCEPT ![t] = r]

Push(t, v) ==
  /\ Len(queue) < Capacity
  /\ queue' = Append(queue, v)
  /\ Decide(t, "pushed")

Full(t) ==
  /\ Len(queue) = Capacity
  /\ Decide(t, "full")
  /\ UNCHANGED queue

Pop(t) ==
  /\ queue # <<>>
  /\ queue' = Tail(queue)
  /\ Decide(t, Head(queue))

Empty(t) ==
  /\ queue = <<>>
  /\ Decide(t, "empty")
  /\ UNCHANGED queue

Return(t) ==
  /\ result[t] # Nothing
  /\ result' = [result EXCEPT ![t] = Nothing]
  /\ UNCHANGED queue

Next ==
  \E t \in Threads :
    \/ \E v \in Items : Push(t, v)
    \/ Full(t) \/ Pop(t) \/ Empty(t) \/ Return(t)

Spec == Init /\ [][Next]_<<queue, result>>
=============================================================================
