------------------------------ MODULE SpscRing ------------------------------
(***************************************************************************)
(* The lock-free single-producer single-consumer ring of flight-scheduler  *)
(* (crates/flight-scheduler/src/ring.rs), at the granularity of its atomic *)
(* accesses.  The RT thread calls try_push, one other thread try_pop, and  *)
(* any thread may call reset_stats.                                        *)
(*                                                                         *)
(* Acquire loads may return an old value of the index the other side       *)
(* stores, as the memory model allows, but never one older than the side   *)
(* has already read (coherence).  pLag and cLag say how many stores of the *)
(* other side the last load has missed, so the locals "tail" of try_push   *)
(* and "head" of try_pop are Back(tail, pLag) and Back(head, cLag).        *)
(***************************************************************************)
EXTENDS Integers, Sequences

CONSTANTS
    Items,       \* what is sent through the ring
    NoItem,      \* an empty slot (Option::None)
    Capacity,    \* slots of the ring
    CounterMod   \* 2^64 in the code: fetch_add wraps

\* SpscRing::new asserts a power of two of at least 2.
ASSUME CapacityAssumption ==
    /\ Capacity \in Nat
    /\ Capacity >= 2
    /\ \E k \in 1 .. Capacity : Capacity = 2 ^ k

ASSUME ItemsAssumption == NoItem \notin Items

ASSUME CounterAssumption == CounterMod \in Nat /\ CounterMod > 0

VARIABLES
    buffer,      \* the slots
    head,        \* next slot to write, stored by the producer
    tail,        \* next slot to read, stored by the consumer
    produced, consumed, dropped,   \* SpscRingStats
    ppc,         \* where the producer is in try_push
    item,        \* the producer's argument
    pLag,        \* tail stores the producer's last load missed
    cpc,         \* where the consumer is in try_pop
    got,         \* the item taken out of the slot
    cLag,        \* head stores the consumer's last load missed
    rpc,         \* where reset_stats is
    wasReset     \* history: reset_stats has been called

producerVars == <<ppc, item>>
consumerVars == <<cpc, got>>
counters     == <<produced, consumed, dropped>>
resetVars    == <<rpc, wasReset>>
vars == <<buffer, head, tail, counters, producerVars, pLag, consumerVars,
          cLag, resetVars>>

Slots == 0 .. Capacity - 1

\* Mutant: the mask is forgotten.
SuccNoMask(i) == i + 1

\* (index + 1) & mask, the mask of a power of two.
Succ(i) == (i + 1) % Capacity

\* The index n steps before i: what index i was n stores ago.
Back(i, n) == IF i >= n THEN i - n ELSE Capacity + i - n

\* The occupancy stats() computes from the two indexes.
Used(h, t) == IF h >= t THEN h - t ELSE Capacity - t + h

Count(c) == (c + 1) % CounterMod

Init ==
    /\ buffer = [i \in Slots |-> NoItem]
    /\ head = 0 /\ tail = 0
    /\ produced = 0 /\ consumed = 0 /\ dropped = 0
    /\ ppc = "idle" /\ item = NoItem /\ pLag = 0
    /\ cpc = "idle" /\ got = NoItem /\ cLag = 0
    /\ rpc = "idle" /\ wasReset = FALSE

-----------------------------------------------------------------------------
(* try_push *)

PushCall(x) ==
    /\ ppc = "idle"
    /\ ppc' = "load"
    /\ item' = x
    /\ UNCHANGED <<buffer, head, tail, counters, pLag, consumerVars, cLag,
                   resetVars>>

\* Mutant: the full test is off by one and lets head catch up with tail.
PushLoadNoGap(lag) ==
    /\ ppc = "load"
    /\ pLag' = lag
    /\ ppc' = IF Used(head, Back(tail, lag)) >= Capacity THEN "full" ELSE "write"
    /\ UNCHANGED <<buffer, head, tail, counters, item, consumerVars, cLag,
                   resetVars>>

\* head is the producer's own; tail.load(Acquire) sees any store since the
\* last load.  The full test is local to the producer.
PushLoad(lag) ==
    /\ ppc = "load"
    /\ pLag' = lag
    /\ ppc' = IF Succ(head) = Back(tail, lag) THEN "full" ELSE "write"
    /\ UNCHANGED <<buffer, head, tail, counters, item, consumerVars, cLag,
                   resetVars>>

PushDrop ==
    /\ ppc = "full"
    /\ dropped' = Count(dropped)
    /\ ppc' = "idle"
    /\ item' = NoItem
    /\ UNCHANGED <<buffer, head, tail, produced, consumed, pLag, consumerVars,
                   cLag, resetVars>>

\* Mutant: head is stored before the slot is written.
PushWriteLate ==
    /\ ppc = "write"
    /\ head' = Succ(head)
    /\ cLag' = cLag + 1
    /\ buffer' = buffer
    /\ ppc' = "publish"
    /\ UNCHANGED <<tail, counters, item, pLag, consumerVars, resetVars>>

PushWrite ==
    /\ ppc = "write"
    /\ buffer' = [buffer EXCEPT ![head] = item]
    /\ ppc' = "publish"
    /\ UNCHANGED <<head, tail, counters, item, pLag, consumerVars, cLag,
                   resetVars>>

\* head.store(Release): one more store the consumer has not seen.
PushPublish ==
    /\ ppc = "publish"
    /\ head' = Succ(head)
    /\ cLag' = cLag + 1
    /\ ppc' = "count"
    /\ item' = NoItem
    /\ UNCHANGED <<buffer, tail, counters, pLag, consumerVars, resetVars>>

PushCount ==
    /\ ppc = "count"
    /\ produced' = Count(produced)
    /\ ppc' = "idle"
    /\ UNCHANGED <<buffer, head, tail, consumed, dropped, item, pLag,
                   consumerVars, cLag, resetVars>>

-----------------------------------------------------------------------------
(* try_pop *)

\* Mutant: the empty test also stops at the last item.
PopLoadKeepsOne(lag) ==
    /\ cpc = "idle"
    /\ cLag' = lag
    /\ cpc' = IF tail = Back(head, lag) \/ Succ(tail) = Back(head, lag)
                THEN "idle" ELSE "take"
    /\ UNCHANGED <<buffer, head, tail, counters, producerVars, pLag, got,
                   resetVars>>

\* try_pop starts with its loads; finding the ring empty it returns None.
PopLoad(lag) ==
    /\ cpc = "idle"
    /\ cLag' = lag
    /\ cpc' = IF tail = Back(head, lag) THEN "idle" ELSE "take"
    /\ UNCHANGED <<buffer, head, tail, counters, producerVars, pLag, got,
                   resetVars>>

PopTake ==
    /\ cpc = "take"
    /\ got' = buffer[tail]
    /\ buffer' = [buffer EXCEPT ![tail] = NoItem]
    /\ cpc' = "advance"
    /\ UNCHANGED <<head, tail, counters, producerVars, pLag, cLag, resetVars>>

\* Mutant: tail jumps to the head that was read, skipping what is in between.
PopAdvanceToHead ==
    /\ cpc = "advance"
    /\ tail' = Back(head, cLag)
    /\ pLag' = pLag + Used(Back(head, cLag), tail)
    /\ cpc' = "count"
    /\ UNCHANGED <<buffer, head, counters, producerVars, got, cLag, resetVars>>

PopAdvance ==
    /\ cpc = "advance"
    /\ tail' = Succ(tail)
    /\ pLag' = pLag + 1
    /\ cpc' = "count"
    /\ UNCHANGED <<buffer, head, counters, producerVars, got, cLag, resetVars>>

\* Mutant: a pop is counted only while the ring still holds something.
PopCountNotLast ==
    /\ cpc = "count"
    /\ consumed' = IF head # tail THEN Count(consumed) ELSE consumed
    /\ got' = NoItem
    /\ cpc' = "idle"
    /\ UNCHANGED <<buffer, head, tail, produced, dropped, producerVars, pLag,
                   cLag, resetVars>>

PopCount ==
    /\ cpc = "count"
    /\ consumed' = IF got # NoItem THEN Count(consumed) ELSE consumed
    /\ got' = NoItem
    /\ cpc' = "idle"
    /\ UNCHANGED <<buffer, head, tail, produced, dropped, producerVars, pLag,
                   cLag, resetVars>>

-----------------------------------------------------------------------------
(* reset_stats: three independent stores *)

ResetProduced ==
    /\ rpc = "idle"
    /\ produced' = 0
    /\ rpc' = "consumed"
    /\ wasReset' = TRUE
    /\ UNCHANGED <<buffer, head, tail, consumed, dropped, producerVars, pLag,
                   consumerVars, cLag>>

ResetConsumed ==
    /\ rpc = "consumed"
    /\ consumed' = 0
    /\ rpc' = "dropped"
    /\ UNCHANGED <<buffer, head, tail, produced, dropped, producerVars, pLag,
                   consumerVars, cLag, wasReset>>

ResetDropped ==
    /\ rpc = "dropped"
    /\ dropped' = 0
    /\ rpc' = "idle"
    /\ UNCHANGED <<buffer, head, tail, produced, consumed, producerVars, pLag,
                   consumerVars, cLag, wasReset>>

-----------------------------------------------------------------------------
Producer ==
    \/ \E x \in Items : PushCall(x)
    \/ \E lag \in 0 .. pLag : PushLoad(lag)
    \/ PushDrop
    \/ PushWrite
    \/ PushPublish
    \/ PushCount

Consumer ==
    \/ \E lag \in 0 .. cLag : PopLoad(lag)
    \/ PopTake
    \/ PopAdvance
    \/ PopCount

Reset == ResetProduced \/ ResetConsumed \/ ResetDropped

Next == Producer \/ Consumer \/ Reset

Spec == Init /\ [][Next]_vars

\* The consumer polls; nothing is assumed of the producer.  A store becomes
\* visible to the other side in finite time, so polling cannot read old
\* values for ever.
ConsumerPolls ==
    /\ WF_vars(PopTake) /\ WF_vars(PopAdvance) /\ WF_vars(PopCount)
    /\ SF_vars(PopLoad(0))

-----------------------------------------------------------------------------
(* Properties *)

TypeOK ==
    /\ buffer \in [Slots -> Items \cup {NoItem}]
    /\ head \in Slots /\ tail \in Slots
    /\ produced \in 0 .. CounterMod - 1
    /\ consumed \in 0 .. CounterMod - 1
    /\ dropped \in 0 .. CounterMod - 1
    /\ ppc \in {"idle", "load", "full", "write", "publish", "count"}
    /\ item \in Items \cup {NoItem}
    /\ cpc \in {"idle", "take", "advance", "count"}
    /\ got \in Items \cup {NoItem}
    /\ pLag \in Nat /\ cLag \in Nat
    /\ rpc \in {"idle", "consumed", "dropped"}
    /\ wasReset \in BOOLEAN

\* The two "Safety: exclusive access to this slot" comments of try_push and
\* try_pop: the unsafe write and the unsafe take are never about to touch the
\* same slot, whatever old index value each side has read.
ExclusiveSlot ==
    ~ (ppc = "write" /\ cpc = "take" /\ head = tail)

\* The write of try_push never destroys an unread item, and the take of
\* try_pop always finds one, so its item.is_some() test never fails.
NoLossNoHole ==
    /\ ppc = "write" => buffer[head] = NoItem
    /\ cpc = "take"  => buffer[tail] # NoItem

InFlight(pc) == IF pc = "count" THEN 1 ELSE 0

\* Until someone resets them, the counters account for the ring's contents:
\* produced - consumed is the occupancy stats() computes from the indexes, up
\* to the calls that have moved an index and not yet counted.
StatsAccount ==
    ~ wasReset =>
        (produced + InFlight(ppc)) % CounterMod
            = (consumed + InFlight(cpc) + Used(head, tail)) % CounterMod

\* The items between tail and head, without the one the consumer has already
\* taken: the queue the ring stands for.
Taken == IF cpc = "advance" THEN 1 ELSE 0

Contents ==
    [i \in 1 .. Used(head, tail) - Taken |->
        buffer[(tail + Taken + i - 1) % Capacity]]

Fifo == INSTANCE BoundedFifo
            WITH q <- Contents, offered <- item, delivered <- got,
                 Bound <- Capacity - 1

\* The ring implements a FIFO of Capacity - 1 items: nothing accepted by
\* try_push is lost, duplicated or reordered by try_pop.  What it refuses is
\* the new item; OldestIsDiscarded is what the documentation says instead.
RefinesFifo == Fifo!Spec

\* What the architecture overview says of every channel across the RT boundary:
\* "if the consumer is slow, the oldest unread item is silently discarded".  A
\* try_push leaves its item in the ring, in place of the oldest one when the
\* ring is full.
OldestIsDiscarded ==
    [][item # NoItem /\ item' = NoItem =>
          Contents' = Append(IF Len(Contents) < Capacity - 1 THEN Contents
                             ELSE Tail(Contents), item)]_vars

\* A consumer that keeps calling try_pop takes something out of every
\* non-empty ring, even if the producer stops in the middle of a push.
ItemsAreDelivered == ConsumerPolls => ((head # tail) ~> (cpc = "advance"))

=============================================================================
