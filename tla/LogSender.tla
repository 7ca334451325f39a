------------------------------ MODULE LogSender ------------------------------
(***************************************************************************)
(* LogSender (src/log_sender/log_sender.cpp) between the threads that log, *)
(* the owner that starts, stops and destroys it, and its loop thread,      *)
(* where the tick timers, the posted functors, the TcpClient and its       *)
(* Connection run.                                                         *)
(*                                                                         *)
(* The parts it is built from appear as what they promise: queue_ as the   *)
(* bounded FIFO that MPSCQueue implements, the loop as FIFO functors       *)
(* (TaskExecutor), the client as one that keeps trying (TcpClient), the    *)
(* connection as an ordered output buffer whose two callbacks are posted   *)
(* (Connection).  Functors and events alternate in any way; only a         *)
(* reconnection, which waits 500 ms at least, comes after the functors the *)
(* lost connection posted.                                                 *)
(*                                                                         *)
(* Sizes count messages.  A message half written when the connection goes  *)
(* is lost like one not written.  Where the code dereferences a null       *)
(* connection_ or a destroyed sender the model stops, with the reason in   *)
(* fault.                                                                  *)
(***************************************************************************)
EXTENDS Integers, Sequences, FiniteSets, SequencesExt

CONSTANTS
    Threads,            \* business threads
    queue_capacity,     \* Options
    max_batch,          \* Options::max_batch_per_tick
    high_water_mark,    \* Options
    MaxMsgs,            \* bound: messages logged
    MaxLosses           \* bound: connections that fail

ASSUME OptionsArePositive ==
    /\ queue_capacity \in Nat \ {0}
    /\ max_batch \in Nat \ {0}
    /\ high_water_mark \in Nat \ {0}
ASSUME BoundsAreNatural == MaxMsgs \in Nat /\ MaxLosses \in Nat

VARIABLES
    queue, has_pending, dropped,    \* queue_: contents, has_pending_, dropped_
    tpc,                            \* where each thread is in LOG_* and push()
    g_instance,                     \* g_instance_ is set
    opc,                            \* where the owner is
    functors,                       \* posted to sender_loop_, oldest first
    started, stopped,               \* started_, stopped_
    ticks,                          \* number of tick timers set
    tick_timer_id,                  \* tick_timer_id_ is set: it names the newest
    client,                         \* tcp_client_: "idle", "trying", "up" or "gone"
    paused,                         \* paused_
    out,                            \* output_buffer_ of the connection
    fault,                          \* "none", "null_connection" or "destroyed"
    wire,                           \* history: written to the kernel
    lost,                           \* history: was in output_buffer_ of a failed connection
    discarded,                      \* history: was in output_buffer_ at stop()
    refused,                        \* history: found the queue full
    pushed,                         \* history: number of push() calls
    losses                          \* history: number of connections that failed

queueVars == <<queue, has_pending, dropped>>
callerVars == <<tpc, g_instance, opc, refused, pushed>>
tickVars == <<started, stopped, ticks, tick_timer_id>>
connVars == <<client, paused, out, wire, lost, discarded, losses>>
vars == <<queueVars, callerVars, functors, tickVars, connVars, fault>>

\* connection_ is set and connected: on_connection keeps it so, and only a
\* connection that is up calls it.
connected == client = "up"

Item(n) == [kind |-> "item", n |-> n]
LogDropped(n) == [kind |-> "dropped", n |-> n]

Init ==
    /\ queue = <<>> /\ has_pending = FALSE /\ dropped = 0
    /\ tpc = [t \in Threads |-> "idle"]
    /\ g_instance = FALSE
    /\ opc = "created"
    /\ functors = <<>>
    /\ started = FALSE /\ stopped = FALSE
    /\ ticks = 0 /\ tick_timer_id = FALSE
    /\ client = "idle" /\ paused = FALSE /\ out = <<>>
    /\ fault = "none"
    /\ wire = <<>> /\ lost = <<>> /\ discarded = <<>>
    /\ refused = {} /\ pushed = 0 /\ losses = 0

-----------------------------------------------------------------------------
(* A thread logs: LOG_* reads g_instance_, formats, and calls push().      *)

Log(t) ==
    /\ fault = "none"
    /\ tpc[t] = "idle" /\ g_instance
    /\ pushed + Cardinality({u \in Threads : tpc[u] = "push"}) < MaxMsgs
    /\ tpc' = [tpc EXCEPT ![t] = "push"]
    /\ UNCHANGED <<queueVars, g_instance, opc, refused, pushed, functors, tickVars,
                   connVars, fault>>

\* queue_.push(): the newest message is dropped when the queue is full; the
\* thread that raised has_pending_ has a functor to post.
push(t) ==
    /\ fault = "none"
    /\ tpc[t] = "push"
    /\ pushed' = pushed + 1
    /\ \/ /\ Len(queue) = queue_capacity
          /\ dropped' = dropped + 1
          /\ refused' = refused \cup {pushed'}
          /\ tpc' = [tpc EXCEPT ![t] = "idle"]
          /\ UNCHANGED <<queue, has_pending>>
       \/ /\ Len(queue) < queue_capacity
          /\ queue' = Append(queue, Item(pushed'))
          /\ has_pending' = TRUE
          /\ tpc' = [tpc EXCEPT ![t] = IF has_pending THEN "idle" ELSE "wake"]
          /\ UNCHANGED <<dropped, refused>>
    /\ UNCHANGED <<g_instance, opc, functors, tickVars, connVars, fault>>

\* queue_in_loop() of the functor that runs a tick early.
PostWake(t) ==
    /\ fault = "none"
    /\ tpc[t] = "wake"
    /\ tpc' = [tpc EXCEPT ![t] = "idle"]
    /\ functors' = Append(functors, "wake")
    /\ UNCHANGED <<queueVars, g_instance, opc, refused, pushed, tickVars, connVars,
                   fault>>

-----------------------------------------------------------------------------
(* The owner, as main() does it: start(), set_global(this), and at the end *)
(* set_global(nullptr), stop(), which waits, and the destructor, when the  *)
(* server's is done, which joins the threads that log.                     *)

Owner(from, to) ==
    /\ fault = "none"
    /\ opc = from
    /\ opc' = to
    /\ UNCHANGED <<queueVars, tpc, refused, pushed, tickVars, connVars, fault>>

start ==
    /\ Owner("created", "starting")
    /\ functors' = Append(functors, "start")
    /\ UNCHANGED g_instance

set_global ==
    /\ \/ Owner("starting", "running") /\ g_instance' = TRUE
       \/ Owner("running", "closing") /\ g_instance' = FALSE
    /\ UNCHANGED functors

stop ==
    /\ Owner("closing", "waiting")
    /\ functors' = Append(functors, "stop")
    /\ UNCHANGED g_instance

Destroy ==
    /\ Owner("stopped", "destroyed")
    /\ \A t \in Threads : tpc[t] = "idle"
    /\ UNCHANGED <<functors, g_instance>>

-----------------------------------------------------------------------------
(* do_drain_and_send and what it calls.                                    *)

\* schedule_next_tick beside ts timers.  All have the same delay, so they fire in
\* the order they are set, and the id of the newest replaces the one before.
schedule_next_tick(ts) ==
    /\ ticks' = ts + 1
    /\ tick_timer_id' = TRUE

\* Connection::close() of the connection, and through TcpClient on_connection:
\* what the buffer b held is lost, and the client tries again.
ConnectionFails(b) ==
    /\ client' = "trying"
    /\ paused' = FALSE
    /\ out' = <<>>
    /\ lost' = lost \o b
    /\ losses' = losses + 1

\* The messages of one round: the report of drops first, then at most max_batch.
Batch ==
    (IF dropped > 0 THEN <<LogDropped(dropped)>> ELSE <<>>)
        \o SubSeq(queue, 1, IF Len(queue) < max_batch THEN Len(queue) ELSE max_batch)

\* queue_.take_dropped() and queue_.drain().
Drain ==
    /\ dropped' = 0
    /\ queue' = SubSeq(queue, max_batch + 1, Len(queue))
    /\ has_pending' = IF Len(queue) <= max_batch THEN FALSE ELSE has_pending

\* send_batch(b): with nothing buffered the first k messages are written at
\* once, and all after the first that is not goes to the buffer.
\* Connection::send posts high_water_cb_ when the buffer crosses the mark.
SendSome(b, fs) ==
    \E k \in 0 .. Len(b) :
        /\ out # <<>> => k = 0
        /\ wire' = wire \o SubSeq(b, 1, k)
        /\ out' = out \o SubSeq(b, k + 1, Len(b))
        /\ functors' = IF Len(out) < high_water_mark /\ Len(out') >= high_water_mark
                       THEN Append(fs, "high_water") ELSE fs
        /\ UNCHANGED <<client, paused, lost, discarded, losses, fault>>

\* send_batch(b) where write() fails after k messages: the connection closes,
\* connection_ is reset, and the next turn of the loop dereferences it.
SendFails(b, fs) ==
    \E k \in 0 .. Len(b) - 1 :
        /\ out = <<>> /\ losses < MaxLosses
        /\ wire' = wire \o SubSeq(b, 1, k)
        /\ ConnectionFails(SubSeq(b, k + 1, Len(b)))
        /\ fault' = IF k + 1 < Len(b) THEN "null_connection" ELSE "none"
        /\ functors' = fs
        /\ UNCHANGED discarded

do_drain_and_send(fs) == Drain /\ (SendSome(Batch, fs) \/ SendFails(Batch, fs))

\* Mutant: the next tick is set only when this one could send.
on_tick_NoReschedule(ts, fs) ==
    \/ /\ connected /\ ~paused
       /\ do_drain_and_send(fs)
       /\ schedule_next_tick(ts)
    \/ /\ ~(connected /\ ~paused)
       /\ functors' = fs
       /\ ticks' = ts
       /\ UNCHANGED <<queueVars, connVars, fault, tick_timer_id>>

\* Mutant: the drops are taken before it is known that they can be sent.
on_tick_TakesFirst(ts, fs) ==
    /\ \/ connected /\ ~paused /\ do_drain_and_send(fs)
       \/ /\ ~(connected /\ ~paused)
          /\ dropped' = 0
          /\ functors' = fs
          /\ UNCHANGED <<queue, has_pending, connVars, fault>>
    /\ schedule_next_tick(ts)

\* on_tick, not stopped: ts and fs are the timers and functors it finds.
on_tick(ts, fs) ==
    /\ \/ connected /\ ~paused /\ do_drain_and_send(fs)
       \/ /\ ~(connected /\ ~paused)
          /\ functors' = fs
          /\ UNCHANGED <<queueVars, connVars, fault>>
    /\ schedule_next_tick(ts)

-----------------------------------------------------------------------------
(* The loop thread: timers and functors.                                   *)

\* A tick timer fires, the oldest first.
TickTimer ==
    /\ fault = "none"
    /\ ticks > 0
    /\ opc # "destroyed"
    /\ \/ /\ stopped
          /\ ticks' = ticks - 1
          /\ tick_timer_id' = FALSE
          /\ UNCHANGED <<queueVars, functors, connVars, fault>>
       \/ ~stopped /\ on_tick(ticks - 1, functors)
    /\ UNCHANGED <<started, stopped, callerVars>>

\* The next functor is f, and its object is there.
Running(f) ==
    /\ fault = "none"
    /\ functors # <<>> /\ functors[1] = f
    /\ opc # "destroyed"

start_in_loop ==
    /\ Running("start")
    /\ started' = TRUE
    /\ client' = "trying"
    /\ schedule_next_tick(ticks)
    /\ functors' = Tail(functors)
    /\ UNCHANGED <<queueVars, callerVars, stopped, paused, out, wire, lost, discarded,
                   losses, fault>>

\* The functor push() posts: a tick at once, beside the timer that is set.
Wake ==
    /\ Running("wake")
    /\ \/ /\ ~started \/ stopped
          /\ functors' = Tail(functors)
          /\ UNCHANGED <<queueVars, ticks, tick_timer_id, connVars, fault>>
       \/ started /\ ~stopped /\ on_tick(ticks, Tail(functors))
    /\ UNCHANGED <<started, stopped, callerVars>>

on_high_water ==
    /\ Running("high_water")
    /\ paused' = TRUE
    /\ functors' = Tail(functors)
    /\ UNCHANGED <<queueVars, callerVars, tickVars, client, out, wire, lost, discarded,
                   losses, fault>>

on_write_complete ==
    /\ Running("write_complete")
    /\ paused' = FALSE
    /\ functors' = Tail(functors)
    /\ UNCHANGED <<queueVars, callerVars, tickVars, client, out, wire, lost, discarded,
                   losses, fault>>

\* The end of stop_in_loop: shutdown() leaves a buffer that is not empty for
\* later, but disconnect() closes the connection at once and the client is
\* destroyed.  Then stop() returns.
Disconnect(b) ==
    /\ client' = "gone"
    /\ paused' = FALSE
    /\ out' = <<>>
    /\ discarded' = discarded \o b

\* stop_in_loop: the newest tick is cancelled, the queue drained once, paused_ or
\* not.  The last write may fail, which leaves nothing to disconnect.
stop_in_loop ==
    LET b == Batch
    IN  /\ Running("stop")
        /\ functors' = Tail(functors)
        /\ stopped' = TRUE
        /\ ticks' = IF tick_timer_id THEN ticks - 1 ELSE ticks
        /\ tick_timer_id' = FALSE
        /\ opc' = "stopped"
        /\ \/ /\ ~connected
              /\ Disconnect(<<>>)
              /\ UNCHANGED <<queueVars, wire, lost, losses, fault>>
           \/ /\ connected /\ Drain
              /\ \E k \in 0 .. Len(b) :
                    /\ out # <<>> => k = 0
                    /\ wire' = wire \o SubSeq(b, 1, k)
                    /\ Disconnect(out \o SubSeq(b, k + 1, Len(b)))
              /\ UNCHANGED <<lost, losses, fault>>
           \/ /\ connected /\ Drain
              /\ out = <<>> /\ losses < MaxLosses
              /\ \E k \in 0 .. Len(b) - 1 :
                    /\ wire' = wire \o SubSeq(b, 1, k)
                    /\ lost' = lost \o SubSeq(b, k + 1, Len(b))
                    /\ fault' = IF k + 1 < Len(b) THEN "null_connection" ELSE "none"
              /\ losses' = losses + 1
              /\ Disconnect(<<>>)
        /\ UNCHANGED <<tpc, g_instance, refused, pushed, started>>

-----------------------------------------------------------------------------
(* The loop thread: the client and its connection.                         *)

\* Mutant: a new connection inherits paused_.
Connected_StaysPaused ==
    /\ fault = "none"
    /\ client = "trying"
    /\ \A i \in DOMAIN functors : functors[i] \notin {"high_water", "write_complete"}
    /\ client' = "up"
    /\ UNCHANGED <<queueVars, callerVars, functors, tickVars, paused, out, wire, lost,
                   discarded, losses, fault>>

\* The client is connected: on_connection.
Connected ==
    /\ fault = "none"
    /\ client = "trying"
    /\ \A i \in DOMAIN functors : functors[i] \notin {"high_water", "write_complete"}
    /\ client' = "up"
    /\ paused' = FALSE
    /\ UNCHANGED <<queueVars, callerVars, functors, tickVars, out, wire, lost,
                   discarded, losses, fault>>

\* Connection::handle_write; when all is written it posts write_complete_cb_.
handle_write ==
    /\ fault = "none"
    /\ connected /\ out # <<>>
    /\ \E k \in 1 .. Len(out) :
          /\ wire' = wire \o SubSeq(out, 1, k)
          /\ out' = SubSeq(out, k + 1, Len(out))
          /\ functors' = IF k = Len(out) THEN Append(functors, "write_complete")
                         ELSE functors
    /\ UNCHANGED <<queueVars, callerVars, tickVars, client, paused, lost, discarded,
                   losses, fault>>

\* The connection ends by itself: EOF, an error, or a write that fails.
Disconnected ==
    /\ fault = "none"
    /\ connected /\ losses < MaxLosses
    /\ ConnectionFails(out)
    /\ UNCHANGED <<queueVars, callerVars, functors, tickVars, wire, discarded, fault>>

\* A functor or a tick timer uses a sender that is destroyed: the loop runs on.
UseAfterDestroy ==
    /\ fault = "none"
    /\ opc = "destroyed"
    /\ functors # <<>> \/ ticks > 0
    /\ fault' = "destroyed"
    /\ UNCHANGED <<queueVars, callerVars, functors, tickVars, connVars>>

-----------------------------------------------------------------------------
Next ==
    \/ \E t \in Threads : Log(t) \/ push(t) \/ PostWake(t)
    \/ start \/ set_global \/ stop \/ Destroy
    \/ TickTimer \/ start_in_loop \/ Wake \/ on_high_water \/ on_write_complete
    \/ stop_in_loop
    \/ Connected \/ handle_write \/ Disconnected
    \/ UseAfterDestroy

\* The loop runs its timers and functors, the client gets through after the last
\* failure, and the server takes what is sent.  Nothing is asked of the threads
\* that log or of the owner.
Spec ==
    /\ Init /\ [][Next]_vars
    /\ WF_vars(TickTimer)
    /\ WF_vars(start_in_loop \/ Wake \/ on_high_water \/ on_write_complete \/ stop_in_loop)
    /\ WF_vars(Connected)
    /\ WF_vars(handle_write)

-----------------------------------------------------------------------------
(* Properties.                                                             *)

MsgSeq == Seq([kind : {"item", "dropped"}, n : Nat])

TypeOK ==
    /\ queue \in MsgSeq /\ Len(queue) <= queue_capacity
    /\ has_pending \in BOOLEAN /\ dropped \in Nat
    /\ tpc \in [Threads -> {"idle", "push", "wake"}]
    /\ g_instance \in BOOLEAN
    /\ opc \in {"created", "starting", "running", "closing", "waiting", "stopped",
                "destroyed"}
    /\ functors \in Seq({"start", "stop", "wake", "high_water", "write_complete"})
    /\ started \in BOOLEAN /\ stopped \in BOOLEAN
    /\ ticks \in Nat /\ tick_timer_id \in BOOLEAN
    /\ client \in {"idle", "trying", "up", "gone"}
    /\ paused \in BOOLEAN
    /\ out \in MsgSeq
    /\ fault \in {"none", "null_connection", "destroyed"}
    /\ wire \in MsgSeq /\ lost \in MsgSeq /\ discarded \in MsgSeq
    /\ refused \subseteq Nat /\ pushed \in Nat /\ losses \in Nat

\* The logged messages in s; whether they are in the order of push(), and each is
\* there once; and the number of drops that s reports.
Items(s) == {s[i].n : i \in {j \in DOMAIN s : s[j].kind = "item"}}
InOrder(s) ==
    \A i, j \in DOMAIN s :
        i < j /\ s[i].kind = "item" /\ s[j].kind = "item" => s[i].n < s[j].n
EachOnce(s) == \A i, j \in DOMAIN s : s[i].kind = "item" /\ s[i] = s[j] => i = j
Drops(m) == IF m.kind = "dropped" THEN m.n ELSE 0
Reported(s) == FoldLeft(LAMBDA total, m : total + Drops(m), 0, s)

\* src/log_sender/log_sender.h:31-37: whatever connections do, a message is in
\* one place, once.  Those written, buffered and queued are in the order of push(),
\* the others were refused by the full queue or were in the buffer of a connection
\* that ended; and the drops reported or still to be reported are those refused.
NothingVanishes ==
    LET path == wire \o out \o queue
        all == path \o lost \o discarded
    IN  /\ InOrder(path)
        /\ EachOnce(all)
        /\ refused \subseteq 1 .. pushed /\ Items(all) = (1 .. pushed) \ refused
        /\ Reported(all) + dropped = Cardinality(refused)

\* A sender that holds back for a connection will be told to go on: the bytes it
\* waits for are that connection's.  on_high_water and on_write_complete do not
\* look at the connection they are called for.
PausedIsLifted ==
    paused /\ connected => out # <<>> \/ "write_complete" \in ToSet(functors)

\* A message that is queued is taken to a connection in the end, however often
\* connections fail and the buffer fills, unless stop() comes first.
QueueIsSent ==
    \A n \in 1 .. MaxMsgs :
        started /\ Item(n) \in ToSet(queue) ~>
            Item(n) \notin ToSet(queue) \/ stopped \/ fault # "none"

\* src/log_sender/log_sender.h:107 and log_sender.cpp:129: push() adds no tick of
\* its own, and stop() cancels the tick.
StopCancelsTicks == stopped => ticks = 0

\* src/main.cpp:80: a log_server that is away does not disturb the program.
SendSurvivesFailure == fault # "null_connection"

=============================================================================
