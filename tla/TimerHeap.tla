------------------------------- MODULE TimerHeap -------------------------------
(***************************************************************************)
(* The order and the lazy deletion of eventloop/timer.go's timerHeap.  The  *)
(* heap is the set of its entries; an entry has an id, a deadline and a     *)
(* sequence number.  Cancelling a timer only marks its handle: a marked     *)
(* entry leaves the heap when it reaches the top.                           *)
(***************************************************************************)
EXTENDS Naturals

\* timerHeap.Less: earlier deadline first, ties in sequence order.
Less(a, b) ==
    \/ a.deadline < b.deadline
    \/ a.deadline = b.deadline /\ a.seq < b.seq

\* timerHeap.Peek: the root, if the heap is not empty.
Peek(heap) == {e \in heap : \A d \in heap \ {e} : Less(e, d)}

\* timerHeap.discardCancelled pops marked entries while one is at the root:
\* what is left is every unmarked entry and the marked ones buried below one.
DiscardCancelled(heap, cancelled) ==
    {e \in heap : \E d \in heap : d.id \notin cancelled /\ (d = e \/ Less(d, e))}
================================================================================
