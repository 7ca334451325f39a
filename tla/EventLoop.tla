------------------------------ MODULE EventLoop ------------------------------
(***************************************************************************)
(* One epoll_proj::EventLoop (src/src/event_loop.cpp): the loop thread     *)
(* that owns it, the foreign threads that post functors or call quit(),    *)
(* and the two kernel objects between them, the eventfd behind wakeup()    *)
(* and the edge-triggered ready list of epoll.                             *)
(*                                                                         *)
(* A step of the loop thread ends where another thread can observe it: at  *)
(* the test of quit_, around epoll_wait, and at the lock in                *)
(* do_pending_functors.  A foreign thread's call is two steps, because the *)
(* lock is released (or quit_ stored) before wakeup() writes the eventfd.  *)
(***************************************************************************)
EXTENDS Integers, Sequences, FiniteSets

CONSTANTS
    Threads,        \* threads other than the loop thread
    Functors,       \* functors that may be posted, each at most once
    Channels,       \* I/O channels registered with this loop
    Wakeup,         \* wakeup_channel_
    MaxEvents,      \* kMaxEvents, the length of the events[] array
    MaxCounter      \* bound: quit() is not called again at this eventfd count

ASSUME WakeupIsNoIoChannel == Wakeup \notin Channels
ASSUME MaxEventsIsPositive == MaxEvents \in Nat \ {0}
ASSUME MaxCounterIsNatural == MaxCounter \in Nat

VARIABLES
    lpc,            \* where the loop thread is
    active,         \* channels of the current epoll batch still to dispatch
    quit,           \* quit_
    calling,        \* calling_pending_functors_
    pending,        \* pending_functors_
    functors,       \* the swapped-out vector of do_pending_functors
    counter,        \* the eventfd's counter
    ready,          \* epoll's ready list: channels with an edge not yet reported
    tpc,            \* where each foreign thread is
    executed,       \* history: functors taken from the queue, in order of start
    inline,         \* history: functors run_in_loop ran without queueing
    owed,           \* history: functors that were queued when a thread stored quit_
    early           \* history: functors the owner thread queued before loop()

vars == <<lpc, active, quit, calling, pending, functors, counter, ready, tpc,
          executed, inline, owed, early>>

LoopPc == {"pre", "check", "enter", "blocked", "dispatch", "callback",
           "next", "functor", "exited"}
ThreadPc == {"idle", "pushed", "quitting"}

Elements(s) == {s[i] : i \in DOMAIN s}

\* The functors nobody has posted yet.
Fresh(f) == f \notin Elements(pending) \cup Elements(functors)
                        \cup Elements(executed) \cup inline

Init ==
    /\ lpc = "pre"
    /\ active = {}
    /\ quit = FALSE
    /\ calling = FALSE
    /\ pending = <<>>
    /\ functors = <<>>
    /\ counter = 0
    /\ ready = {}
    /\ tpc = [t \in Threads |-> "idle"]
    /\ executed = <<>>
    /\ inline = {}
    /\ owed = {}
    /\ early = {}

-----------------------------------------------------------------------------
(* The kernel.                                                             *)

\* epoll polls an entry of the ready list before it reports it: the eventfd is
\* readable while its counter is positive, an I/O channel until its callback
\* has read it dry.
Readable(c) == c # Wakeup \/ counter > 0

Reportable == {c \in ready : Readable(c)}

\* write(wakeup_fd_, 1): the counter grows and epoll sees a new edge.
WriteEventfd ==
    /\ counter' = counter + 1
    /\ ready' = ready \cup {Wakeup}

\* Data arrives on an I/O channel.
IoArrives(c) ==
    /\ lpc # "exited"
    /\ c \notin ready
    /\ ready' = ready \cup {c}
    /\ UNCHANGED <<lpc, active, quit, calling, pending, functors, counter,
                   tpc, executed, inline, owed, early>>

-----------------------------------------------------------------------------
(* The loop thread: EventLoop::loop and do_pending_functors.               *)

StartLoop ==
    /\ lpc = "pre"
    /\ lpc' = "check"
    /\ UNCHANGED <<active, quit, calling, pending, functors, counter, ready,
                   tpc, executed, inline, owed, early>>

\* while (!quit_.load())
TestQuit ==
    /\ lpc = "check"
    /\ lpc' = IF quit THEN "exited" ELSE "enter"
    /\ UNCHANGED <<active, quit, calling, pending, functors, counter, ready,
                   tpc, executed, inline, owed, early>>

\* epoll_wait(..., -1) with nothing to report puts the thread to sleep.
EpollBlock ==
    /\ lpc = "enter"
    /\ Reportable = {}
    /\ lpc' = "blocked"
    /\ UNCHANGED <<active, quit, calling, pending, functors, counter, ready,
                   tpc, executed, inline, owed, early>>

\* epoll_wait fills events[] with as many ready channels as it has room for.
\* The edge is consumed: a reported channel leaves the ready list.
EpollReturn ==
    /\ lpc \in {"enter", "blocked"}
    /\ \E batch \in SUBSET Reportable :
          /\ batch # {}
          /\ batch = Reportable \/ Cardinality(batch) = MaxEvents
          /\ Cardinality(batch) <= MaxEvents
          /\ active' = batch
          /\ ready' = Reportable \ batch
    /\ lpc' = "dispatch"
    /\ UNCHANGED <<quit, calling, pending, functors, counter, tpc, executed,
                   inline, owed, early>>

\* handle_wakeup reads the eventfd, which resets its counter.
HandleWakeup ==
    /\ lpc = "dispatch"
    /\ Wakeup \in active
    /\ active' = active \ {Wakeup}
    /\ counter' = 0
    /\ UNCHANGED <<lpc, quit, calling, pending, functors, ready, tpc,
                   executed, inline, owed, early>>

\* Channel::handle_event of an I/O channel enters user code.
DispatchIo(c) ==
    /\ lpc = "dispatch"
    /\ c \in active \ {Wakeup}
    /\ active' = active \ {c}
    /\ lpc' = "callback"
    /\ UNCHANGED <<quit, calling, pending, functors, counter, ready, tpc,
                   executed, inline, owed, early>>

CallbackReturn ==
    /\ lpc = "callback"
    /\ lpc' = "dispatch"
    /\ UNCHANGED <<active, quit, calling, pending, functors, counter, ready,
                   tpc, executed, inline, owed, early>>

\* do_pending_functors up to the end of its locked region.
SwapFunctors ==
    /\ lpc = "dispatch"
    /\ active = {}
    /\ calling' = TRUE
    /\ functors' = pending
    /\ pending' = <<>>
    /\ lpc' = "next"
    /\ UNCHANGED <<active, quit, counter, ready, tpc, executed, inline, owed,
                   early>>

\* Mutant: the batch is worked off from the back.
CallFunctor_Newest ==
    /\ lpc = "next"
    /\ functors # <<>>
    /\ executed' = Append(executed, functors[Len(functors)])
    /\ functors' = SubSeq(functors, 1, Len(functors) - 1)
    /\ lpc' = "functor"
    /\ UNCHANGED <<active, quit, calling, pending, counter, ready, tpc,
                   inline, owed, early>>

\* for (auto& f : functors) f();
CallFunctor ==
    /\ lpc = "next"
    /\ functors # <<>>
    /\ executed' = Append(executed, Head(functors))
    /\ functors' = Tail(functors)
    /\ lpc' = "functor"
    /\ UNCHANGED <<active, quit, calling, pending, counter, ready, tpc,
                   inline, owed, early>>

FunctorReturn ==
    /\ lpc = "functor"
    /\ lpc' = "next"
    /\ UNCHANGED <<active, quit, calling, pending, functors, counter, ready,
                   tpc, executed, inline, owed, early>>

FunctorsDone ==
    /\ lpc = "next"
    /\ functors = <<>>
    /\ calling' = FALSE
    /\ lpc' = "check"
    /\ UNCHANGED <<active, quit, pending, functors, counter, ready, tpc,
                   executed, inline, owed, early>>

-----------------------------------------------------------------------------
(* What the owner thread itself may call: before loop(), inside an I/O      *)
(* callback or a functor, and once loop() has returned.  in_loop_thread()  *)
(* is true in all of them.                                                 *)

InUserCode == lpc \in {"pre", "callback", "functor", "exited"}

\* Mutant: the loop thread never wakes itself.
QueueOnLoopThread_NoWakeup(f) ==
    /\ InUserCode
    /\ Fresh(f)
    /\ pending' = Append(pending, f)
    /\ early' = IF lpc = "pre" THEN early \cup {f} ELSE early
    /\ UNCHANGED <<lpc, active, quit, calling, functors, counter, ready, tpc,
                   executed, inline, owed>>

\* queue_in_loop on the loop thread: it wakes itself only while the functors of
\* an earlier swap are running.  An I/O callback is followed by
\* do_pending_functors; before loop() nothing is, and nobody writes the eventfd.
QueueOnLoopThread(f) ==
    /\ InUserCode
    /\ Fresh(f)
    /\ pending' = Append(pending, f)
    /\ early' = IF lpc = "pre" THEN early \cup {f} ELSE early
    /\ IF calling THEN WriteEventfd ELSE UNCHANGED <<counter, ready>>
    /\ UNCHANGED <<lpc, active, quit, calling, functors, tpc, executed, inline,
                   owed>>

\* run_in_loop on the loop thread calls f on the spot.
RunOnLoopThread(f) ==
    /\ InUserCode
    /\ Fresh(f)
    /\ inline' = inline \cup {f}
    /\ UNCHANGED <<lpc, active, quit, calling, pending, functors, counter,
                   ready, tpc, executed, owed, early>>

\* quit() on the loop thread stores the flag and wakes nobody.
QuitOnLoopThread ==
    /\ InUserCode
    /\ quit' = TRUE
    /\ UNCHANGED <<lpc, active, calling, pending, functors, counter, ready,
                   tpc, executed, inline, owed, early>>

\* SIGINT or SIGTERM is delivered to the loop thread, and the handler calls
\* quit() there (src/log_server/main.cpp:57-59, src/main.cpp:34-36).  Only a
\* thread asleep in epoll_wait is interrupted: EINTR, then `continue`.
SignalQuit ==
    /\ lpc # "exited"
    /\ quit' = TRUE
    /\ lpc' = IF lpc = "blocked" THEN "check" ELSE lpc
    /\ UNCHANGED <<active, calling, pending, functors, counter, ready, tpc,
                   executed, inline, owed, early>>

-----------------------------------------------------------------------------
(* Foreign threads.                                                        *)

\* run_in_loop / queue_in_loop from another thread, its locked region.
QueueFromThread(t, f) ==
    /\ tpc[t] = "idle"
    /\ Fresh(f)
    /\ pending' = Append(pending, f)
    /\ tpc' = [tpc EXCEPT ![t] = "pushed"]
    /\ UNCHANGED <<lpc, active, quit, calling, functors, counter, ready,
                   executed, inline, owed, early>>

\* quit() from another thread: quit_.store(true).
QuitFromThread(t) ==
    /\ tpc[t] = "idle"
    /\ counter < MaxCounter
    /\ quit' = TRUE
    /\ tpc' = [tpc EXCEPT ![t] = "quitting"]
    /\ owed' = owed \cup Elements(functors) \cup Elements(pending)
    /\ UNCHANGED <<lpc, active, calling, pending, functors, counter, ready,
                   executed, inline, early>>

\* Mutant: quit() leaves the sleeping loop alone.
WakeupFromThread_NotOnQuit(t) ==
    /\ tpc[t] \in {"pushed", "quitting"}
    /\ IF tpc[t] = "pushed" THEN WriteEventfd ELSE UNCHANGED <<counter, ready>>
    /\ tpc' = [tpc EXCEPT ![t] = "idle"]
    /\ UNCHANGED <<lpc, active, quit, calling, pending, functors, executed,
                   inline, owed, early>>

\* The wakeup() that ends queue_in_loop and quit().
WakeupFromThread(t) ==
    /\ tpc[t] \in {"pushed", "quitting"}
    /\ WriteEventfd
    /\ tpc' = [tpc EXCEPT ![t] = "idle"]
    /\ UNCHANGED <<lpc, active, quit, calling, pending, functors, executed,
                   inline, owed, early>>

-----------------------------------------------------------------------------
LoopStep ==
    \/ StartLoop \/ TestQuit \/ EpollBlock \/ EpollReturn \/ HandleWakeup
    \/ \E c \in Channels : DispatchIo(c)
    \/ CallbackReturn \/ SwapFunctors \/ CallFunctor \/ FunctorReturn
    \/ FunctorsDone

UserCode ==
    \/ \E f \in Functors : QueueOnLoopThread(f) \/ RunOnLoopThread(f)
    \/ QuitOnLoopThread

Next ==
    \/ LoopStep
    \/ UserCode
    \/ SignalQuit
    \/ \E c \in Channels : IoArrives(c)
    \/ \E t \in Threads :
          \/ \E f \in Functors : QueueFromThread(t, f)
          \/ QuitFromThread(t)
          \/ WakeupFromThread(t)

SafeSpec == Init /\ [][Next]_vars

\* The loop thread and a thread inside queue_in_loop or quit() keep running,
\* and callbacks and functors return.  epoll's ready list is first in, first
\* out, so a wakeup edge is not passed over for ever.  Nothing obliges I/O to
\* arrive, threads to call, or a signal to come.
Spec ==
    /\ SafeSpec
    /\ WF_vars(LoopStep)
    /\ SF_vars(EpollReturn /\ Wakeup \in active')
    /\ \A t \in Threads : WF_vars(WakeupFromThread(t))

-----------------------------------------------------------------------------
(* Properties.                                                             *)

\* The variables of event_loop.h keep their types, the eventfd's counter never
\* goes below zero, and epoll knows only channels of this loop.
TypeOK ==
    /\ lpc \in LoopPc
    /\ active \subseteq Channels \cup {Wakeup}
    /\ quit \in BOOLEAN
    /\ calling \in BOOLEAN
    /\ pending \in Seq(Functors)
    /\ functors \in Seq(Functors)
    /\ counter \in Nat
    /\ ready \subseteq Channels \cup {Wakeup}
    /\ tpc \in [Threads -> ThreadPc]
    /\ executed \in Seq(Functors)
    /\ inline \subseteq Functors
    /\ owed \subseteq Functors
    /\ early \subseteq Functors

\* queue_in_loop's promise: the loop thread never sleeps in epoll_wait, and is
\* never about to, with functors queued, unless epoll is going to report the
\* wakeup channel or the thread that queued the last one has yet to call
\* wakeup().  The exception is a queue of nothing but functors that the owner
\* thread queued before loop(): they wait for the first event of any kind.
NoLostWakeup ==
    lpc \in {"check", "enter", "blocked"} /\ ~(Elements(pending) \subseteq early)
        => \/ Wakeup \in Reportable
           \/ \E t \in Threads : tpc[t] = "pushed"

\* The inductive strengthening of NoLostWakeup.  A positive counter is always
\* backed by an edge epoll has yet to report or the loop has yet to dispatch;
\* outside the dispatch phase, which ends in do_pending_functors, a queued
\* functor is early or backed by a positive counter or by a thread on its way
\* to wakeup().  Before loop() and after it nothing is being run.
LoopInv ==
    /\ calling <=> lpc \in {"next", "functor"}
    /\ functors # <<>> => lpc \in {"next", "functor"}
    /\ active # {} => lpc \in {"dispatch", "callback"}
    /\ lpc = "pre" => executed = <<>>
    /\ counter > 0 => Wakeup \in ready \cup active
    /\ lpc \notin {"dispatch", "callback", "exited"}
            /\ ~(Elements(pending) \subseteq early)
         => counter > 0 \/ \E t \in Threads : tpc[t] = "pushed"

\* An EventLoop is a task executor: every posted functor is run once, in order
\* of posting and none after loop() returned; and while the loop has not quit
\* each one is run eventually, as soon as one was posted by another thread or
\* by code that the loop runs.
TE == INSTANCE TaskExecutor
        WITH todo <- functors \o pending, done <- executed, inline <- inline,
             early <- early, stopped <- lpc = "exited"

ImplementsTaskExecutor == TE!Spec

\* The safety half of the same statement, which is the part proved.
ImplementsTaskExecutorSafely == TE!SafeSpec

\* docs/ARCHITECTURE.md:126 and docs/INTERVIEW.md:148: queue_in_loop queues the
\* functor and writes the eventfd, so epoll_wait returns at once.  Whoever
\* queued it, the loop does not sleep on a functor.  It does not hold for the
\* owner thread before loop(): NoLostWakeup says what does.
EveryPostWakes ==
    lpc = "blocked" /\ pending # <<>>
        => \/ Wakeup \in Reportable
           \/ \E t \in Threads : tpc[t] = "pushed"

\* quit() of another thread, or a quit_ stored while the loop thread is anywhere
\* but between its test of quit_ and the return of epoll_wait, makes loop()
\* return.
QuitUnderWay ==
    \/ \E t \in Threads : tpc[t] = "quitting"
    \/ quit /\ lpc \notin {"enter", "blocked"}

PromptQuit == QuitUnderWay ~> lpc = "exited"

\* src/log_server/main.cpp:103 and docs/DECISIONS.md: a signal interrupts
\* epoll_wait and the quit is dealt with at once.  Any stored quit_ makes
\* loop() return.  It does not hold: PromptQuit says what does.
EveryQuitStops == quit ~> lpc = "exited"

\* src/src/server.cpp:57 and 65-66: what is posted to a subLoop before its
\* EventLoopThread is destroyed, which calls quit(), runs before the subLoop
\* exits.  It does not hold: loop() tests quit_ before it looks at the queue.
PostedBeforeQuitRuns == lpc = "exited" => owed \subseteq Elements(executed)

=============================================================================
