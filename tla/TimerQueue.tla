----------------------------- MODULE TimerQueue -----------------------------
(***************************************************************************)
(* The TimerQueue of one EventLoop (src/src/timer_queue.cpp): the ordered  *)
(* set timers_, its index id_to_iter_, the one timerfd armed for the       *)
(* earliest entry, and the calls that reach them.  A call on the loop      *)
(* thread acts at once; a call from another thread becomes a functor, and  *)
(* the loop runs functors in the order of posting (module EventLoop).      *)
(*                                                                         *)
(* Time is discrete: now counts steady_clock ticks, one tick is the        *)
(* nanosecond to which to_itimerspec rounds up.  The clock may advance     *)
(* between any two steps, so callbacks take time.                          *)
(***************************************************************************)
EXTENDS Integers, Sequences, FiniteSets

CONSTANTS
    Delays,         \* delays run_after is called with
    MaxTimers,      \* bound: how many timers are ever created
    MaxPending,     \* bound: how many functors wait in the loop's queue
    MaxTime         \* bound: from here on the clock runs only while the timerfd is armed

ASSUME DelaysAreNatural == Delays \subseteq Nat
ASSUME MaxTimersIsNatural == MaxTimers \in Nat
ASSUME MaxPendingIsNatural == MaxPending \in Nat
ASSUME MaxTimeIsNatural == MaxTime \in Nat

VARIABLES
    now,            \* steady_clock::now()
    next_id,        \* next_id_
    timers,         \* timers_, a set of entries
    index,          \* id_to_iter_: id -> entry
    deadline,       \* when the timerfd expires, Disarmed if never
    ticks,          \* the timerfd has expired and was not read since
    reported,       \* epoll_wait reported the timerfd in the current batch
    lpc,            \* where the loop thread is
    expired,        \* the local vector of handle_read, what is left of it
    pending,        \* add and cancel functors posted by other threads
    fired,          \* history: ids whose callback was started
    erased,         \* history: ids cancel_in_loop removed
    cancelled       \* history: ids a cancel did not find although they had not fired

vars == <<now, next_id, timers, index, deadline, ticks, reported, lpc, expired,
          pending, fired, erased, cancelled>>

\* An all-zero itimerspec disarms a timerfd.
Disarmed == 0

Ids == 1 .. MaxTimers

Entry == [exp : Nat, id : Ids]

\* Entry::operator<
Before(a, b) == a.exp < b.exp \/ (a.exp = b.exp /\ a.id < b.id)

IsEarliest(e, s) == e \in s /\ \A x \in s \ {e} : Before(e, x)

IdsOf(s) == {e.id : e \in s}

Elements(s) == {s[i] : i \in DOMAIN s}

\* The functors run_at and cancel post.
Adds == [op : {"add"}, entry : Entry]
Cancels == [op : {"cancel"}, id : Ids]

Init ==
    /\ now = 0
    /\ next_id = 1
    /\ timers = {}
    /\ index = <<>>
    /\ deadline = Disarmed
    /\ ticks = FALSE
    /\ reported = FALSE
    /\ lpc = "idle"
    /\ expired = {}
    /\ pending = <<>>
    /\ fired = {}
    /\ erased = {}
    /\ cancelled = {}

-----------------------------------------------------------------------------
(* The clock and the kernel's timerfd.                                     *)

\* Time passes; a timerfd whose deadline is reached expires, once.
ClockTick ==
    /\ now < MaxTime \/ deadline # Disarmed
    /\ now' = now + 1
    /\ IF deadline # Disarmed /\ deadline <= now'
         THEN ticks' = TRUE /\ deadline' = Disarmed
         ELSE UNCHANGED <<ticks, deadline>>
    /\ UNCHANGED <<next_id, timers, index, reported, lpc, expired, pending,
                   fired, erased, cancelled>>

\* The time left until an expiration, at least one tick.
to_itimerspec(expiration) ==
    IF expiration - now < 1 THEN 1 ELSE expiration - now

\* timerfd_settime: forget an expiry not yet read, and arm or disarm.
reset_timerfd(expiration) ==
    /\ deadline' = IF to_itimerspec(expiration) = 0
                     THEN Disarmed
                     ELSE now + to_itimerspec(expiration)
    /\ ticks' = FALSE

-----------------------------------------------------------------------------
(* What runs on the loop thread.                                           *)

\* Mutant: the timerfd is armed only for the first timer.
add_timer_in_loop_FirstOnly(e) ==
    /\ timers' = timers \cup {e}
    /\ index' = [i \in DOMAIN index \cup {e.id} |-> IF i = e.id THEN e ELSE index[i]]
    /\ IF timers = {} THEN reset_timerfd(e.exp) ELSE UNCHANGED <<deadline, ticks>>

add_timer_in_loop(e) ==
    /\ timers' = timers \cup {e}
    /\ index' = [i \in DOMAIN index \cup {e.id} |-> IF i = e.id THEN e ELSE index[i]]
    /\ IF \A x \in timers : Before(e, x)
         THEN reset_timerfd(e.exp)
         ELSE UNCHANGED <<deadline, ticks>>

\* Cancelling an id the index does not know, fired or never added, does nothing.
\* Without the earliest entry the timerfd is set to the next one, if any.
cancel_in_loop(i) ==
    /\ cancelled' = IF i \in fired \cup DOMAIN index THEN cancelled ELSE cancelled \cup {i}
    /\ IF i \in DOMAIN index
         THEN LET e == index[i] IN
              /\ timers' = timers \ {e}
              /\ index' = [j \in DOMAIN index \ {i} |-> index[j]]
              /\ erased' = erased \cup {i}
              /\ IF IsEarliest(e, timers) /\ timers' # {}
                   THEN \E x \in timers' : IsEarliest(x, timers') /\ reset_timerfd(x.exp)
                   ELSE UNCHANGED <<deadline, ticks>>
         ELSE UNCHANGED <<timers, index, erased, deadline, ticks>>

\* A functor posted by another thread runs in do_pending_functors, after the
\* channels of the batch were dispatched.
RunPending ==
    /\ lpc = "idle"
    /\ ~reported
    /\ pending # <<>>
    /\ pending' = Tail(pending)
    /\ \/ /\ Head(pending).op = "add"
          /\ add_timer_in_loop(Head(pending).entry)
          /\ UNCHANGED <<erased, cancelled>>
       \/ /\ Head(pending).op = "cancel"
          /\ cancel_in_loop(Head(pending).id)
    /\ UNCHANGED <<now, next_id, reported, lpc, expired, fired>>

\* epoll_wait reports the timerfd.  Channels dispatched before it in the same
\* batch may still add and cancel timers before handle_read runs.
EpollReports ==
    /\ lpc = "idle"
    /\ ticks
    /\ ~reported
    /\ reported' = TRUE
    /\ UNCHANGED <<now, next_id, timers, index, deadline, ticks, lpc, expired,
                   pending, fired, erased, cancelled>>

\* handle_read up to its second loop: read the timerfd, move what is due out of
\* the set and out of the index.
handle_read ==
    /\ lpc = "idle"
    /\ reported
    /\ reported' = FALSE
    /\ ticks' = FALSE
    /\ expired' = {e \in timers : e.exp <= now}
    /\ timers' = timers \ expired'
    /\ index' = [i \in DOMAIN index \ IdsOf(expired') |-> index[i]]
    /\ lpc' = "expiring"
    /\ UNCHANGED <<now, next_id, deadline, pending, fired, erased, cancelled>>

\* Mutant: the batch is run in no particular order.
RunCallback_AnyOrder ==
    /\ lpc = "expiring"
    /\ \E e \in expired :
          /\ expired' = expired \ {e}
          /\ fired' = fired \cup {e.id}
    /\ lpc' = "callback"
    /\ UNCHANGED <<now, next_id, timers, index, deadline, ticks, reported,
                   pending, erased, cancelled>>

\* Mutant: an entry stays in the batch after its callback was started.
RunCallback_Twice ==
    /\ lpc = "expiring"
    /\ \E e \in expired :
          /\ IsEarliest(e, expired)
          /\ fired' = fired \cup {e.id}
    /\ lpc' = "callback"
    /\ UNCHANGED <<now, next_id, timers, index, deadline, ticks, reported,
                   expired, pending, erased, cancelled>>

\* for (auto& e : expired) e.cb();  the vector is in the order of the set.
RunCallback ==
    /\ lpc = "expiring"
    /\ \E e \in expired :
          /\ IsEarliest(e, expired)
          /\ expired' = expired \ {e}
          /\ fired' = fired \cup {e.id}
    /\ lpc' = "callback"
    /\ UNCHANGED <<now, next_id, timers, index, deadline, ticks, reported,
                   pending, erased, cancelled>>

CallbackReturn ==
    /\ lpc = "callback"
    /\ lpc' = "expiring"
    /\ UNCHANGED <<now, next_id, timers, index, deadline, ticks, reported,
                   expired, pending, fired, erased, cancelled>>

\* Mutant: handle_read returns without arming the timerfd again.
FinishHandleRead_NoReset ==
    /\ lpc = "expiring"
    /\ expired = {}
    /\ lpc' = "idle"
    /\ UNCHANGED <<now, next_id, timers, index, deadline, ticks, reported,
                   expired, pending, fired, erased, cancelled>>

\* The end of handle_read: arm the timerfd for what is left.
FinishHandleRead ==
    /\ lpc = "expiring"
    /\ expired = {}
    /\ lpc' = "idle"
    /\ IF timers = {}
         THEN UNCHANGED <<deadline, ticks>>
         ELSE \E e \in timers : IsEarliest(e, timers) /\ reset_timerfd(e.exp)
    /\ UNCHANGED <<now, next_id, timers, index, reported, expired, pending,
                   fired, erased, cancelled>>

-----------------------------------------------------------------------------
(* Calls of run_after and cancel.                                          *)

\* User code runs on the loop thread in the callbacks of other channels and in
\* functors ("idle"), and in timer callbacks.
InUserCode == lpc \in {"idle", "callback"}

\* run_after allocates the id and fixes the expiration at the call.
NewEntry(d) == [exp |-> now + d, id |-> next_id]

RunAfterOnLoopThread(d) ==
    /\ InUserCode
    /\ next_id \in Ids
    /\ next_id' = next_id + 1
    /\ add_timer_in_loop(NewEntry(d))
    /\ UNCHANGED <<now, reported, lpc, expired, pending, fired, erased,
                   cancelled>>

RunAfterFromThread(d) ==
    /\ Len(pending) < MaxPending
    /\ next_id \in Ids
    /\ next_id' = next_id + 1
    /\ pending' = Append(pending, [op |-> "add", entry |-> NewEntry(d)])
    /\ UNCHANGED <<now, timers, index, deadline, ticks, reported, lpc, expired,
                   fired, erased, cancelled>>

CancelOnLoopThread(i) ==
    /\ InUserCode
    /\ i < next_id
    /\ cancel_in_loop(i)
    /\ UNCHANGED <<now, next_id, reported, lpc, expired, pending, fired>>

CancelFromThread(i) ==
    /\ Len(pending) < MaxPending
    /\ i < next_id
    /\ pending' = Append(pending, [op |-> "cancel", id |-> i])
    /\ UNCHANGED <<now, next_id, timers, index, deadline, ticks, reported, lpc,
                   expired, fired, erased, cancelled>>

-----------------------------------------------------------------------------
HandleReadStep ==
    handle_read \/ RunCallback \/ CallbackReturn \/ FinishHandleRead

Next ==
    \/ ClockTick
    \/ RunPending \/ EpollReports \/ HandleReadStep
    \/ \E d \in Delays : RunAfterOnLoopThread(d) \/ RunAfterFromThread(d)
    \/ \E i \in Ids : CancelOnLoopThread(i) \/ CancelFromThread(i)

SafeSpec == Init /\ [][Next]_vars

\* Time passes; the loop thread keeps running and its callbacks return; and each
\* turn of EventLoop::loop polls the timerfd and runs the functors swapped out,
\* so neither waits for ever behind the other.
Spec ==
    /\ SafeSpec
    /\ WF_vars(ClockTick)
    /\ WF_vars(EpollReports)
    /\ WF_vars(HandleReadStep)
    /\ SF_vars(RunPending)

-----------------------------------------------------------------------------
(* Properties.                                                             *)

\* Types of timer_queue.h; the index has one entry for each timer in the set,
\* under its id, so that no iterator it holds dangles.
TypeOK ==
    /\ now \in Nat
    /\ next_id \in Nat \ {0}
    /\ timers \subseteq Entry
    /\ DOMAIN index = IdsOf(timers)
    /\ \A e \in timers : index[e.id] = e
    /\ deadline \in Nat
    /\ ticks \in BOOLEAN
    /\ reported \in BOOLEAN
    /\ lpc \in {"idle", "expiring", "callback"}
    /\ expired \subseteq Entry
    /\ pending \in Seq(Adds \cup Cancels)
    /\ fired \subseteq Ids
    /\ erased \subseteq Ids
    /\ cancelled \subseteq Ids

\* Outside handle_read, which arms the timerfd as its last act, some expiry is on
\* its way for every timer: the timerfd has expired, or it is reported and about
\* to be handled, or it is armed for no later than the timer's expiration (or the
\* next tick, if that has passed).
ArmedForEarliest ==
    lpc = "idle" /\ ~ticks /\ ~reported =>
        \A e \in timers :
            /\ deadline # Disarmed
            /\ deadline <= e.exp \/ deadline <= now + 1

\* The ids with an add functor still queued.
QueuedIds == {o.entry.id : o \in {p \in Elements(pending) : p.op = "add"}}

\* No timer is lost and none fires twice: each id handed out is in exactly one
\* of the functor queue, the set, the batch in progress, the fired, the erased.
EachTimerInOnePlace ==
    LET places == <<QueuedIds, IdsOf(timers), IdsOf(expired), fired,
                    erased>>
    IN  /\ UNION Elements(places) = 1 .. next_id - 1
        /\ \A p, q \in DOMAIN places : p # q => places[p] \cap places[q] = {}

\* Callbacks run in the order of their expirations: when one starts, none that
\* is due before it is waiting.
FiresInOrder ==
    [][\A e \in expired : e.id \in fired' \ fired =>
          \A x \in timers \cup expired : ~Before(x, e)]_vars

\* Every timer whose id run_after handed out fires, unless a cancel removes it.
TimerFires ==
    \A i \in Ids :
        i < next_id ~> i \in fired \cup erased

\* src/src/timer_queue.h:52: cancel() cancels a timer that has not fired yet.
\* The callback of a timer whose cancellation ran before it never starts.  It
\* does not hold for a timer that is still to be added or is in the batch being
\* fired: EachTimerInOnePlace has it for the others.
CancelledNeverFires == cancelled \cap fired = {}

=============================================================================
