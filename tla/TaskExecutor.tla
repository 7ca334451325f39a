---------------------------- MODULE TaskExecutor ----------------------------
(***************************************************************************)
(* What an EventLoop promises to whoever posts functors to it: a single    *)
(* executor that runs every posted functor once, in the order in which     *)
(* they were posted, until it stops.  A functor handed over by the loop    *)
(* thread itself through run_in_loop runs at once and enters no queue.     *)
(* Functors that the loop thread queued before it started the executor do  *)
(* not start it: they run once something else happens.                     *)
(***************************************************************************)
EXTENDS Sequences, FiniteSets

CONSTANT Functors       \* the functors that may be posted

VARIABLES
    todo,               \* posted and not yet started, oldest first
    done,               \* started, in the order of their start
    inline,             \* run at once by run_in_loop on the loop thread
    early,              \* queued by the loop thread before it called loop()
    stopped             \* loop() has returned

vars == <<todo, done, inline, early, stopped>>

Elements(s) == {s[i] : i \in DOMAIN s}

Fresh(f) == f \notin Elements(todo) \cup Elements(done) \cup inline

Init ==
    /\ todo = <<>>
    /\ done = <<>>
    /\ inline = {}
    /\ early = {}
    /\ stopped = FALSE

Post(f) ==
    /\ Fresh(f)
    /\ todo' = Append(todo, f)
    /\ UNCHANGED <<done, inline, early, stopped>>

\* A post that sets nothing going, possible until the first functor has run.
PostEarly(f) ==
    /\ done = <<>>
    /\ Fresh(f)
    /\ todo' = Append(todo, f)
    /\ early' = early \cup {f}
    /\ UNCHANGED <<done, inline, stopped>>

\* The loop thread needs no executor to call a functor, so this may follow Stop.
RunNow(f) ==
    /\ Fresh(f)
    /\ inline' = inline \cup {f}
    /\ UNCHANGED <<todo, done, early, stopped>>

Run ==
    /\ ~stopped
    /\ todo # <<>>
    /\ done' = Append(done, Head(todo))
    /\ todo' = Tail(todo)
    /\ UNCHANGED <<inline, early, stopped>>

Stop ==
    /\ ~stopped
    /\ stopped' = TRUE
    /\ UNCHANGED <<todo, done, inline, early>>

Next ==
    \/ \E f \in Functors : Post(f) \/ PostEarly(f) \/ RunNow(f)
    \/ Run
    \/ Stop

SafeSpec == Init /\ [][Next]_vars

\* While it has not stopped, the executor works its queue off, the early
\* functors too, once something that is not early has been posted.
Going == ~(Elements(todo) \cup Elements(done) \subseteq early)

Spec == SafeSpec /\ WF_vars(Going /\ Run)

=============================================================================
