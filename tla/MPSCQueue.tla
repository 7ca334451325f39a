------------------------------ MODULE MPSCQueue ------------------------------
(***************************************************************************)
(* MPSCQueue<T> (src/util/mpsc_queue.h): a ring of slots under a mutex, a  *)
(* flag has_pending_ that producers raise outside the mutex and the        *)
(* consumer lowers inside it, and a count of dropped items.                *)
(*                                                                         *)
(* A producer's push() is two steps: the locked region, and then either    *)
(* the increment of dropped_ or the compare-and-swap of has_pending_.  A   *)
(* push that returns wake_up obliges its caller to wake the consumer, one  *)
(* more step (LogSender::push).  The consumer works the queue off as       *)
(* LogSender::do_drain_and_send does, take_dropped() before drain(), for a *)
(* wakeup or a tick of its timer that passes the gates of LogSender: it is *)
(* started and not stopped, connected and not paused.  A wakeup that meets *)
(* a closed gate is used up.                                               *)
(***************************************************************************)
EXTENDS Integers, Sequences, FiniteSets

CONSTANTS
    Producers,      \* business threads
    Items,          \* messages, each pushed at most once
    Empty,          \* a default-constructed or moved-from slot
    Capacity,       \* the constructor's argument
    MaxBatch        \* drain's max_batch

ASSUME CapacityIsNatural == Capacity \in Nat
ASSUME MaxBatchIsPositive == MaxBatch \in Nat \ {0}
ASSUME EmptyIsNoItem == Empty \notin Items
ASSUME ProducersAreFinite == IsFiniteSet(Producers)

VARIABLES
    slots,          \* slots_
    head,           \* head_
    tail,           \* tail_
    count,          \* count_
    has_pending,    \* has_pending_
    dropped,        \* dropped_
    ppc,            \* where each producer is
    cpc,            \* where the consumer is
    wakes,          \* wakeups posted to the consumer and not yet handled
    leftover,       \* history: the last drain stopped at max_batch, short of empty
    missed,         \* history: since the last drain a closed gate used up a wakeup
                    \* while has_pending_ was up
    out,            \* history: items drained, in order
    refusals,       \* history: items that found the queue full
    reported        \* history: sum of the counts take_dropped() returned

vars == <<slots, head, tail, count, has_pending, dropped, ppc, cpc, wakes,
          leftover, missed, out, refusals, reported>>

ProducerPc == {"idle", "drop", "cas", "notify"}
ConsumerPc == {"idle", "take", "drain"}

\* The constructor turns a capacity of 0 into 1.
cap == IF Capacity = 0 THEN 1 ELSE Capacity

Indices == 0 .. cap - 1

Elements(s) == {s[i] : i \in DOMAIN s}

\* The items in the ring, oldest first.
Contents == [i \in 1 .. count |-> slots[(head + i - 1) % cap]]

\* The items no producer has pushed yet.
Fresh(v) == v \notin Elements(Contents) \cup Elements(out) \cup refusals

Init ==
    /\ slots = [i \in Indices |-> Empty]
    /\ head = 0
    /\ tail = 0
    /\ count = 0
    /\ has_pending = FALSE
    /\ dropped = 0
    /\ ppc = [p \in Producers |-> "idle"]
    /\ cpc = "idle"
    /\ wakes = 0
    /\ leftover = FALSE
    /\ missed = FALSE
    /\ out = <<>>
    /\ refusals = {}
    /\ reported = 0

-----------------------------------------------------------------------------
(* A producer's push().                                                    *)

\* The locked region with room in the ring.
PushStore(p, v) ==
    /\ ppc[p] = "idle"
    /\ Fresh(v)
    /\ count # cap
    /\ slots' = [slots EXCEPT ![tail] = v]
    /\ tail' = (tail + 1) % cap
    /\ count' = count + 1
    /\ ppc' = [ppc EXCEPT ![p] = "cas"]
    /\ UNCHANGED <<head, has_pending, dropped, cpc, wakes, leftover, missed,
                   out, refusals, reported>>

\* Mutant: the ring is taken to be full one item early.
PushFull_Early(p, v) ==
    /\ ppc[p] = "idle"
    /\ Fresh(v)
    /\ count + 1 = cap
    /\ ppc' = [ppc EXCEPT ![p] = "drop"]
    /\ refusals' = refusals \cup {v}
    /\ UNCHANGED <<slots, head, tail, count, has_pending, dropped, cpc, wakes,
                   leftover, missed, out, reported>>

\* The locked region with the ring full: the newest item is the one lost.
PushFull(p, v) ==
    /\ ppc[p] = "idle"
    /\ Fresh(v)
    /\ count = cap
    /\ ppc' = [ppc EXCEPT ![p] = "drop"]
    /\ refusals' = refusals \cup {v}
    /\ UNCHANGED <<slots, head, tail, count, has_pending, dropped, cpc, wakes,
                   leftover, missed, out, reported>>

\* dropped_.fetch_add(1), outside the lock; push returns {false, false}.
CountDrop(p) ==
    /\ ppc[p] = "drop"
    /\ dropped' = dropped + 1
    /\ ppc' = [ppc EXCEPT ![p] = "idle"]
    /\ UNCHANGED <<slots, head, tail, count, has_pending, cpc, wakes,
                   leftover, missed, out, refusals, reported>>

\* Mutant: the compare-and-swap's answer is read the wrong way round.
RaiseFlag_Inverted(p) ==
    /\ ppc[p] = "cas"
    /\ has_pending' = TRUE
    /\ ppc' = [ppc EXCEPT ![p] = IF has_pending THEN "notify" ELSE "idle"]
    /\ UNCHANGED <<slots, head, tail, count, dropped, cpc, wakes, leftover,
                   missed, out, refusals, reported>>

\* The compare-and-swap of has_pending_, outside the lock: push returns wake_up
\* to exactly the producer that turned the flag.
RaiseFlag(p) ==
    /\ ppc[p] = "cas"
    /\ has_pending' = TRUE
    /\ ppc' = [ppc EXCEPT ![p] = IF has_pending THEN "idle" ELSE "notify"]
    /\ UNCHANGED <<slots, head, tail, count, dropped, cpc, wakes, leftover,
                   missed, out, refusals, reported>>

\* The caller acts on wake_up: it posts a functor to the consumer's loop.
NotifyConsumer(p) ==
    /\ ppc[p] = "notify"
    /\ wakes' = wakes + 1
    /\ ppc' = [ppc EXCEPT ![p] = "idle"]
    /\ UNCHANGED <<slots, head, tail, count, has_pending, dropped, cpc,
                   leftover, missed, out, refusals, reported>>

-----------------------------------------------------------------------------
(* The consumer.                                                           *)

\* The functor a producer posted runs and passes the gates.
WakeConsumer ==
    /\ cpc = "idle"
    /\ wakes > 0
    /\ wakes' = wakes - 1
    /\ cpc' = "take"
    /\ UNCHANGED <<slots, head, tail, count, has_pending, dropped, ppc,
                   leftover, missed, out, refusals, reported>>

\* The functor runs and returns early, or on_tick skips the drain: LogSender is
\* not started yet, stopped, without a connection or paused.
WakeSkipped ==
    /\ cpc = "idle"
    /\ wakes > 0
    /\ wakes' = wakes - 1
    /\ missed' = (missed \/ has_pending)
    /\ UNCHANGED <<slots, head, tail, count, has_pending, dropped, ppc, cpc,
                   leftover, out, refusals, reported>>

\* The consumer's periodic timer fires, or stop_in_loop drains a last time.  A
\* tick that meets a closed gate changes nothing here.
Tick ==
    /\ cpc = "idle"
    /\ cpc' = "take"
    /\ UNCHANGED <<slots, head, tail, count, has_pending, dropped, ppc, wakes,
                   leftover, missed, out, refusals, reported>>

\* Mutant: the count is read but not cleared.
TakeDropped_NoClear ==
    /\ cpc = "take"
    /\ reported' = reported + dropped
    /\ cpc' = "drain"
    /\ UNCHANGED <<slots, head, tail, count, has_pending, dropped, ppc, wakes,
                   leftover, missed, out, refusals>>

\* take_dropped(): one atomic exchange.
TakeDropped ==
    /\ cpc = "take"
    /\ reported' = reported + dropped
    /\ dropped' = 0
    /\ cpc' = "drain"
    /\ UNCHANGED <<slots, head, tail, count, has_pending, ppc, wakes,
                   leftover, missed, out, refusals>>

\* How many items drain() takes, and what its loop does to the ring.
Taken == IF count < MaxBatch THEN count ELSE MaxBatch

RemoveTaken ==
    /\ out' = out \o SubSeq(Contents, 1, Taken)
    /\ slots' = [i \in Indices |->
                    IF (i + cap - head) % cap < Taken THEN Empty ELSE slots[i]]
    /\ head' = (head + Taken) % cap
    /\ count' = count - Taken

\* Mutant: the flag is lowered only by a drain that found nothing.
Drain_LowerWhenNothing ==
    /\ cpc = "drain"
    /\ RemoveTaken
    /\ has_pending' = IF Taken = 0 THEN FALSE ELSE has_pending
    /\ leftover' = (Taken < count)
    /\ missed' = FALSE
    /\ cpc' = "idle"
    /\ UNCHANGED <<tail, dropped, ppc, wakes, refusals, reported>>

\* drain(): all of it is inside the lock.
Drain ==
    /\ cpc = "drain"
    /\ RemoveTaken
    /\ has_pending' = IF Taken = count THEN FALSE ELSE has_pending
    /\ leftover' = (Taken < count)
    /\ missed' = FALSE
    /\ cpc' = "idle"
    /\ UNCHANGED <<tail, dropped, ppc, wakes, refusals, reported>>

-----------------------------------------------------------------------------
ProducerStep(p) ==
    \/ \E v \in Items : PushStore(p, v) \/ PushFull(p, v)
    \/ CountDrop(p) \/ RaiseFlag(p) \/ NotifyConsumer(p)

ConsumerStep == WakeConsumer \/ WakeSkipped \/ TakeDropped \/ Drain

Next ==
    \/ \E p \in Producers : ProducerStep(p)
    \/ ConsumerStep
    \/ Tick

SafeSpec == Init /\ [][Next]_vars

\* A producer inside push() finishes it and passes the wakeup on; the consumer
\* handles the wakeups posted to it.  No fairness for Tick: edge wakeups alone
\* must do, except after a drain that left something behind and after a wakeup
\* that met a closed gate.
Spec ==
    /\ SafeSpec
    /\ \A p \in Producers :
          WF_vars(CountDrop(p) \/ RaiseFlag(p) \/ NotifyConsumer(p))
    /\ WF_vars(ConsumerStep)

-----------------------------------------------------------------------------
(* Properties.                                                             *)

\* The ring's indices stay inside it, and head, tail and count agree.
TypeOK ==
    /\ slots \in [Indices -> Items \cup {Empty}]
    /\ head \in Indices
    /\ tail \in Indices
    /\ count \in 0 .. cap
    /\ tail = (head + count) % cap
    /\ has_pending \in BOOLEAN
    /\ dropped \in Nat
    /\ ppc \in [Producers -> ProducerPc]
    /\ cpc \in ConsumerPc
    /\ wakes \in Nat
    /\ leftover \in BOOLEAN
    /\ missed \in BOOLEAN
    /\ out \in Seq(Items)
    /\ refusals \subseteq Items
    /\ reported \in Nat

\* What the typing of the history needs to be inductive: between head and tail
\* there are only items, and only finitely many items were refused.
RingInv ==
    /\ \A i \in 1 .. count : slots[(head + i - 1) % cap] \in Items
    /\ IsFiniteSet(refusals)

\* A wakeup is on its way to the consumer, or the consumer is at work.
DrainComing ==
    \/ wakes > 0
    \/ cpc # "idle"
    \/ \E p \in Producers : ppc[p] = "notify"

\* push()'s edge protocol loses no wakeup although the flag is turned outside
\* the lock: items in the queue are never left without a wakeup or a drain to
\* come, unless the producer of the newest has yet to try the flag, the last
\* drain stopped at max_batch or LogSender's gates used a wakeup up since (in
\* both cases the timer is relied on).  And a raised flag, which silences later
\* producers, is never without one either.
NoItemStranded ==
    /\ count > 0 =>
          \/ DrainComing
          \/ leftover \/ missed
          \/ \E p \in Producers : ppc[p] = "cas"
    /\ has_pending => DrainComing \/ missed \/ (leftover /\ count > 0)

\* What makes NoItemStranded inductive: a queued item has raised the flag or has
\* its producer about to, so a wakeup used up with the flag down costs nothing.
FlagInv == count > 0 => has_pending \/ \E p \in Producers : ppc[p] = "cas"

\* Each refused item is counted once: in dropped_, in a count handed to the
\* consumer, or by a producer about to add it.
DropsAccounted ==
    Cardinality(refusals) =
        dropped + reported + Cardinality({p \in Producers : ppc[p] = "drop"})

\* The ring behaves as a bounded first-in first-out queue that refuses the
\* newest item.
Fifo == INSTANCE BoundedFifo
            WITH q <- Contents, Bound <- cap, refused <- Cardinality(refusals)

ImplementsBoundedFifo == Fifo!Spec

\* Edge wakeups carry an accepted item to the consumer without the timer, until
\* a drain stops short at max_batch or a wakeup meets a closed gate of LogSender:
\* from then on, until the next drain, the item waits for a tick.
AcceptedIsDrained ==
    \A v \in Items :
        v \in Elements(Contents) ~> v \in Elements(out) \/ leftover \/ missed

=============================================================================
