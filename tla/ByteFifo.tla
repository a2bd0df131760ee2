------------------------------ MODULE ByteFifo ------------------------------
(***************************************************************************)
(* What a user of CircularBuffer relies on: a queue of at most Capacity    *)
(* bytes.  Bytes are added at the end in the order they were written or    *)
(* received, and dropped from the front; nothing is lost, duplicated or    *)
(* reordered in between, whatever the buffer does with its two regions.    *)
(***************************************************************************)
EXTENDS Integers, Sequences

CONSTANTS Capacity, Byte

VARIABLE queue

Init == queue = << >>

\* A write or a receive that the buffer accepted: what is stored stays, and some
\* bytes follow it.
Enqueue ==
  /\ queue' \in Seq(Byte)
  /\ Len(queue) < Len(queue') /\ Len(queue') <= Capacity
  /\ SubSeq(queue', 1, Len(queue)) = queue

\* The first n bytes were sent or consumed (all of them when n is larger).
Drop(n) == queue' = SubSeq(queue, n + 1, Len(queue))

Clear == queue' = << >>

Next ==
  \/ Enqueue
  \/ \E n \in 1 .. Capacity : Drop(n)
  \/ Clear

Spec == Init /\ [][Next]_queue

=============================================================================
