---------------------------- MODULE BoundedFifo ----------------------------
(***************************************************************************)
(* What the SPSC ring between the RT loop and its consumers promises: a    *)
(* FIFO of bounded length.  The producer offers one item at a time and the *)
(* queue either appends it or refuses it; the consumer receives the oldest *)
(* item.  Nothing that was accepted is lost, duplicated or reordered.      *)
(***************************************************************************)
EXTENDS Naturals, Sequences

CONSTANTS Items, NoItem, Bound

VARIABLES
    q,          \* accepted and not yet delivered, oldest first
    offered,    \* the item of the producer's pending call, or NoItem
    delivered   \* the item the consumer took last, or NoItem

fifoVars == <<q, offered, delivered>>

Init ==
    /\ q = <<>>
    /\ offered = NoItem
    /\ delivered = NoItem

Offer(x) ==
    /\ offered = NoItem
    /\ offered' = x
    /\ UNCHANGED <<q, delivered>>

Enqueue ==
    /\ offered # NoItem
    /\ Len(q) < Bound
    /\ q' = Append(q, offered)
    /\ offered' = NoItem
    /\ UNCHANGED delivered

\* The new item is the one refused, and items already accepted stay: what
\* try_push does.  The architecture overview says the oldest one goes; see
\* OldestIsDiscarded in SpscRing.
Refuse ==
    /\ offered # NoItem
    /\ offered' = NoItem
    /\ UNCHANGED <<q, delivered>>

Dequeue ==
    /\ q # <<>>
    /\ delivered' = Head(q)
    /\ q' = Tail(q)
    /\ UNCHANGED offered

\* The consumer hands the item over and is ready for the next one.
Release ==
    /\ delivered # NoItem
    /\ delivered' = NoItem
    /\ UNCHANGED <<q, offered>>

Next ==
    \/ \E x \in Items : Offer(x)
    \/ Enqueue
    \/ Refuse
    \/ Dequeue
    \/ Release

Spec == Init /\ [][Next]_fifoVars
=============================================================================
