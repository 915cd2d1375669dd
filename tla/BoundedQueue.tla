---------------------------- MODULE BoundedQueue ----------------------------
(***************************************************************************)
(* What RingBuffer (src/include/utils/ring_buffer.h) promises to its two   *)
(* threads: a first-in first-out queue of bounded length.  Module          *)
(* RingBuffer implements it.                                               *)
(***************************************************************************)
EXTENDS Naturals, Sequences

CONSTANTS Items, Capacity

VARIABLES
    queue,      \* what has been pushed and not popped
    popped      \* what pop has returned, in order

Init == queue = << >> /\ popped = << >>

Push(x) == /\ Len(queue) < Capacity
           /\ queue' = Append(queue, x)
           /\ UNCHANGED popped

Pop == /\ queue # << >>
       /\ popped' = Append(popped, Head(queue))
       /\ queue' = Tail(queue)

Spec == Init /\ [][Pop \/ \E x \in Items : Push(x)]_<<queue, popped>>

=============================================================================
