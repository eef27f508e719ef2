---------------------------- MODULE BoundedFifo ----------------------------
(***************************************************************************)
(* What the receive ring promises: a bounded queue between the radio       *)
(* callback and the loop.  Frames carry the number of their arrival.  A    *)
(* frame that finds the queue full is lost and counted; every other frame  *)
(* is delivered whole, once, in order, and eventually.                     *)
(***************************************************************************)
EXTENDS Naturals, Sequences

CONSTANTS
    Capacity,
    Word      \* the counter of lost frames wraps here

VARIABLES
    arrived,    \* number of frames so far
    queue,      \* frames accepted and not yet delivered
    lost,       \* the counter
    delivered   \* all frames delivered so far

vars == <<arrived, queue, lost, delivered>>

Init == arrived = 0 /\ queue = <<>> /\ lost = 0 /\ delivered = <<>>

Accept ==
    /\ Len(queue) < Capacity
    /\ arrived' = arrived + 1
    /\ queue' = Append(queue, arrived')
    /\ UNCHANGED <<lost, delivered>>

Lose ==
    /\ Len(queue) = Capacity
    /\ arrived' = arrived + 1
    /\ lost' = (lost + 1) % Word
    /\ UNCHANGED <<queue, delivered>>

Deliver ==
    /\ queue # <<>>
    /\ delivered' = Append(delivered, Head(queue))
    /\ queue' = Tail(queue)
    /\ UNCHANGED <<arrived, lost>>

Next == Accept \/ Lose \/ Deliver

Spec == Init /\ [][Next]_vars /\ WF_vars(Deliver)
=============================================================================
