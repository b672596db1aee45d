----------------------------- MODULE BoundedFifo -----------------------------
(***************************************************************************)
(* A bounded first-in first-out queue: what framework/circular_queue.h     *)
(* promises a producer and a consumer.  CircularQueue implements it.       *)
(***************************************************************************)
EXTENDS Integers, Sequences

CONSTANTS Values,      \* the elements
          Capacity,    \* how many of them the queue holds
          NoValue      \* what `got' holds before the first pop

VARIABLES queue,       \* the elements pushed and not yet popped, oldest first
          got          \* the element the latest pop returned

qvars == <<queue, got>>

Init ==
    /\ queue = << >>
    /\ got = NoValue

Push(v) ==
    /\ Len(queue) < Capacity
    /\ queue' = Append(queue, v)
    /\ UNCHANGED got

Pop ==
    /\ queue # << >>
    /\ got' = Head(queue)
    /\ queue' = Tail(queue)

Next ==
    \/ \E v \in Values : Push(v)
    \/ Pop

Spec == Init /\ [][Next]_qvars
=============================================================================
