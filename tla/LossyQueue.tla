----------------------------- MODULE LossyQueue -----------------------------
(***************************************************************************)
(* What the capture ring promises the goroutine that drains it: a bounded  *)
(* queue that never waits.  A buffer that finds it full is lost and        *)
(* counted; what is in it comes out whole, once and in order.              *)
(***************************************************************************)
EXTENDS Naturals, Sequences

CONSTANTS Item, Capacity, Nothing

VARIABLES queue, dropped, taken

vars == <<queue, dropped, taken>>

Init == queue = <<>> /\ dropped = 0 /\ taken = Nothing

Put(x) == /\ Len(queue) < Capacity
          /\ queue' = Append(queue, x)
          /\ UNCHANGED <<dropped, taken>>

Drop == /\ Len(queue) = Capacity
        /\ dropped' = dropped + 1
        /\ UNCHANGED <<queue, taken>>

Take == /\ queue # <<>>
        /\ taken' = Head(queue)
        /\ queue' = Tail(queue)
        /\ UNCHANGED dropped

Next == (\E x \in Item : Put(x)) \/ Drop \/ Take

Spec == Init /\ [][Next]_vars
=============================================================================
