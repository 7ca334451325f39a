----------------------------- MODULE TcpServer ------------------------------
(***************************************************************************)
(* TcpServer (src/src/server.cpp) with its mainLoop, its subLoops and the  *)
(* connections it hands them: accept on the mainLoop, close on the loop    *)
(* that owns the connection, and the functors that carry each back to the  *)
(* table connections_, which only the mainLoop touches.                    *)
(*                                                                         *)
(* Loop 0 is the mainLoop, loops 1 .. num_threads are the subLoops; with   *)
(* num_threads = 0 the mainLoop serves the connections itself.  Each loop  *)
(* is a thread that dispatches the channels of an epoll batch and then     *)
(* runs its functors in order (module EventLoop).  What a connection does  *)
(* between start() and close() is module Connection; here it may close at  *)
(* any time once it is started.  connection_cb_ is set, as by every server *)
(* of the repository, and does not itself close what it is told of.  A     *)
(* Connection object lives as long as connections_, a functor or a close() *)
(* in progress holds a ConnectionPtr.                                      *)
(***************************************************************************)
EXTENDS Integers, Sequences, FiniteSets

CONSTANTS
    MaxThreads,     \* bound: num_threads is at most this
    MaxConns,       \* bound: connections ever accepted
    MaxFds          \* descriptor numbers the kernel has for connections

ASSUME MaxThreadsIsNatural == MaxThreads \in Nat
ASSUME MaxConnsIsNatural == MaxConns \in Nat
ASSUME MaxFdsIsNatural == MaxFds \in Nat

VARIABLES
    num_threads,    \* the constructor's argument
    next,           \* next_ of the thread pool
    nconns,         \* connections accepted so far; they are 1 .. nconns
    fd,             \* fd_ of each connection
    loop,           \* loop_ of each connection
    state,          \* state_ of each connection
    started,        \* connections whose start() has run
    connections,    \* connections_: descriptor -> connection
    queue,          \* each loop's functors
    closing,        \* the connection a subLoop is inside close() of, or NoConn
    batch,          \* each loop's channels reported by epoll and not yet dispatched
    ups,            \* history: how often connection_cb_ was told of the connection
    downs,          \* history: how often it was told of the disconnection
    replaced        \* history: closed connections whose table entry accept overwrote

vars == <<num_threads, next, nconns, fd, loop, state, started, connections,
          queue, closing, batch, ups, downs, replaced>>

Conns == 1 .. MaxConns
Loops == 0 .. MaxThreads
Fds == 1 .. MaxFds
Main == 0
NoConn == 0
Nothing == [c \in {} |-> 0]

Functors == [op : {"establish", "remove", "notify"}, conn : Conns]

Elements(s) == {s[i] : i \in DOMAIN s}

Init ==
    /\ num_threads \in Loops
    /\ next = 0
    /\ nconns = 0
    /\ fd = [c \in Conns |-> 0]
    /\ loop = [c \in Conns |-> Main]
    /\ state = [c \in Conns |-> "none"]
    /\ started = {}
    /\ connections = Nothing
    /\ queue = [l \in Loops |-> <<>>]
    /\ closing = [l \in Loops |-> NoConn]
    /\ batch = [l \in Loops |-> {}]
    /\ ups = [c \in Conns |-> 0]
    /\ downs = [c \in Conns |-> 0]
    /\ replaced = {}

-----------------------------------------------------------------------------
\* The descriptors close() has not given back.
OpenFds == {fd[c] : c \in {d \in Conns : state[d] = "kConnected"}}

\* accept returns the lowest free number.
LowestFree(f) == f \in Fds \ OpenFds /\ \A g \in Fds \ OpenFds : f <= g

\* Round robin over the subLoops, the mainLoop if there are none.
next_loop == IF num_threads = 0 THEN Main ELSE next + 1

AdvanceNext == IF num_threads = 0 THEN next ELSE (next + 1) % num_threads

\* The functor of handle_accept: connection_cb_, then start().
Establish(c) ==
    /\ ups' = [ups EXCEPT ![c] = @ + 1]
    /\ started' = started \cup {c}

\* One turn of the accept loop that gets a connection, on the mainLoop.  An
\* entry left by a connection that had the same number is overwritten.
handle_accept(f) ==
    LET c == nconns + 1
        l == next_loop
    IN  /\ c \in Conns
        /\ LowestFree(f)
        /\ nconns' = c
        /\ fd' = [fd EXCEPT ![c] = f]
        /\ loop' = [loop EXCEPT ![c] = l]
        /\ state' = [state EXCEPT ![c] = "kConnected"]
        /\ next' = AdvanceNext
        /\ connections' = [g \in DOMAIN connections \cup {f} |->
                              IF g = f THEN c ELSE connections[g]]
        /\ replaced' = replaced \cup
                           {connections[g] : g \in DOMAIN connections \cap {f}}
        /\ IF l = Main
             THEN Establish(c) /\ UNCHANGED queue
             ELSE /\ queue' = [queue EXCEPT ![l] =
                                  Append(@, [op |-> "establish", conn |-> c])]
                  /\ UNCHANGED <<ups, started>>
        /\ UNCHANGED <<num_threads, closing, batch, downs>>

\* Mutant: the table's entry is not compared with the connection.
remove_connection_in_loop_ByFd(c, q) ==
    IF fd[c] \in DOMAIN connections
      THEN /\ connections' = [g \in DOMAIN connections \ {fd[c]} |-> connections[g]]
           /\ IF loop[c] = Main
                THEN downs' = [downs EXCEPT ![c] = @ + 1] /\ queue' = q
                ELSE /\ queue' = [q EXCEPT ![loop[c]] =
                                     Append(@, [op |-> "notify", conn |-> c])]
                     /\ UNCHANGED downs
      ELSE UNCHANGED <<connections, downs>> /\ queue' = q

\* Mutant: the application is told only by the mainLoop's own connections.
remove_connection_in_loop_Silent(c, q) ==
    IF fd[c] \in DOMAIN connections /\ connections[fd[c]] = c
      THEN /\ connections' = [g \in DOMAIN connections \ {fd[c]} |-> connections[g]]
           /\ downs' = IF loop[c] = Main THEN [downs EXCEPT ![c] = @ + 1] ELSE downs
           /\ queue' = q
      ELSE UNCHANGED <<connections, downs>> /\ queue' = q

\* remove_connection_in_loop, with q the queues it finds: forget the connection
\* unless the entry is another's, and have its loop tell the application.
remove_connection_in_loop(c, q) ==
    IF fd[c] \in DOMAIN connections /\ connections[fd[c]] = c
      THEN /\ connections' = [g \in DOMAIN connections \ {fd[c]} |-> connections[g]]
           /\ IF loop[c] = Main
                THEN downs' = [downs EXCEPT ![c] = @ + 1] /\ queue' = q
                ELSE /\ queue' = [q EXCEPT ![loop[c]] =
                                     Append(@, [op |-> "notify", conn |-> c])]
                     /\ UNCHANGED downs
      ELSE UNCHANGED <<connections, downs>> /\ queue' = q

-----------------------------------------------------------------------------
(* The thread of each loop.                                                *)

\* epoll_wait reports some of the loop's registered channels.
EpollReports(l) ==
    /\ closing[l] = NoConn
    /\ batch[l] = {}
    /\ \E b \in SUBSET {c \in started : loop[c] = l /\ state[c] = "kConnected"} :
          b # {} /\ batch' = [batch EXCEPT ![l] = b]
    /\ UNCHANGED <<num_threads, next, nconns, fd, loop, state, started,
                   connections, queue, closing, ups, downs, replaced>>

\* The loop turns to a channel of the batch.
handle_event(l) ==
    /\ closing[l] = NoConn
    /\ \E c \in batch[l] : batch' = [batch EXCEPT ![l] = @ \ {c}]
    /\ UNCHANGED <<num_threads, next, nconns, fd, loop, state, started,
                   connections, queue, closing, ups, downs, replaced>>

\* Connection::close(), by whatever runs on the connection's loop: its own
\* handlers, a timer, another connection's callback.  On the mainLoop close_cb_
\* removes the connection on the spot; a subLoop has closed the descriptor
\* before close_cb_ posts the removal.
close(c) ==
    /\ c \in started
    /\ state[c] = "kConnected"
    /\ closing[loop[c]] = NoConn
    /\ state' = [state EXCEPT ![c] = "kDisconnected"]
    /\ IF loop[c] = Main
         THEN remove_connection_in_loop(c, queue) /\ UNCHANGED closing
         ELSE /\ closing' = [closing EXCEPT ![loop[c]] = c]
              /\ UNCHANGED <<connections, downs, queue>>
    /\ UNCHANGED <<num_threads, next, nconns, fd, loop, started, batch, ups,
                   replaced>>

\* Mutant: a close outside the batch does not call close_cb_.
close_cb_InBatchOnly(l) ==
    /\ closing[l] # NoConn
    /\ closing' = [closing EXCEPT ![l] = NoConn]
    /\ queue' = IF batch[l] = {} THEN queue
                ELSE [queue EXCEPT ![Main] =
                         Append(@, [op |-> "remove", conn |-> closing[l]])]
    /\ UNCHANGED <<num_threads, next, nconns, fd, loop, state, started,
                   connections, batch, ups, downs, replaced>>

\* close_cb_ on a subLoop: main_loop->run_in_loop(remove_connection_in_loop).
close_cb(l) ==
    /\ closing[l] # NoConn
    /\ closing' = [closing EXCEPT ![l] = NoConn]
    /\ queue' = [queue EXCEPT ![Main] =
                    Append(@, [op |-> "remove", conn |-> closing[l]])]
    /\ UNCHANGED <<num_threads, next, nconns, fd, loop, state, started,
                   connections, batch, ups, downs, replaced>>

\* The loop's next functor, once the batch is dispatched.
CanRun(l, op) ==
    /\ closing[l] = NoConn
    /\ batch[l] = {}
    /\ queue[l] # <<>>
    /\ Head(queue[l]).op = op

Popped(l) == [queue EXCEPT ![l] = Tail(@)]

RunEstablish(l) ==
    /\ CanRun(l, "establish")
    /\ queue' = Popped(l)
    /\ Establish(Head(queue[l]).conn)
    /\ UNCHANGED <<num_threads, next, nconns, fd, loop, state, connections,
                   closing, batch, downs, replaced>>

RunRemove ==
    /\ CanRun(Main, "remove")
    /\ remove_connection_in_loop(Head(queue[Main]).conn, Popped(Main))
    /\ UNCHANGED <<num_threads, next, nconns, fd, loop, state, started, closing,
                   batch, ups, replaced>>

\* connection_cb_ with the connection in state kDisconnected.
RunNotify(l) ==
    /\ CanRun(l, "notify")
    /\ queue' = Popped(l)
    /\ downs' = [downs EXCEPT ![Head(queue[l]).conn] = @ + 1]
    /\ UNCHANGED <<num_threads, next, nconns, fd, loop, state, started,
                   connections, closing, batch, ups, replaced>>

-----------------------------------------------------------------------------
RunFunctor(l) == RunEstablish(l) \/ (l = Main /\ RunRemove) \/ RunNotify(l)

Next ==
    \/ \E f \in Fds : handle_accept(f)
    \/ \E c \in Conns : close(c)
    \/ \E l \in Loops :
          EpollReports(l) \/ handle_event(l) \/ close_cb(l) \/ RunFunctor(l)

SafeSpec == Init /\ [][Next]_vars

\* A loop's thread finishes its batch and a close() it is in, and each turn of
\* the loop runs the functors.  Nobody has to connect or to close.
Spec ==
    /\ SafeSpec
    /\ \A l \in Loops :
          /\ WF_vars(handle_event(l))
          /\ WF_vars(close_cb(l))
          /\ SF_vars(RunFunctor(l))

-----------------------------------------------------------------------------
(* Properties.                                                             *)

\* Types of server.h; a connection is given to a loop that runs.
TypeOK ==
    /\ num_threads \in Loops
    /\ next \in Nat
    /\ next < num_threads \/ next = 0
    /\ nconns \in 0 .. MaxConns
    /\ fd \in [Conns -> Fds \cup {0}]
    /\ loop \in [Conns -> 0 .. num_threads]
    /\ state \in [Conns -> {"none", "kConnected", "kDisconnected"}]
    /\ started \subseteq Conns
    /\ DOMAIN connections \subseteq Fds
    /\ \A f \in DOMAIN connections : connections[f] \in Conns
    /\ queue \in [Loops -> Seq(Functors)]
    /\ closing \in [Loops -> Conns \cup {NoConn}]
    /\ batch \in [Loops -> SUBSET Conns]
    /\ ups \in [Conns -> Nat]
    /\ downs \in [Conns -> Nat]
    /\ replaced \subseteq Conns

\* src/src/server.cpp:155-156: a late removal never takes a new connection's entry.
\* Every connection that is not closed is in the table under its descriptor.
LiveIsInTable ==
    \A c \in Conns : state[c] = "kConnected" =>
        fd[c] \in DOMAIN connections /\ connections[fd[c]] = c

\* The removal of connection c is on its way to the mainLoop.
Removing(c) ==
    \/ [op |-> "remove", conn |-> c] \in Elements(queue[Main])
    \/ \E l \in Loops : closing[l] = c

\* The table does not leak: the entry of a closed connection has its removal
\* under way.
ClosedIsLeaving ==
    \A f \in DOMAIN connections, c \in Conns :
        connections[f] = c /\ state[c] = "kDisconnected" => Removing(c)

\* The inductive strengthening of the two.  Entries are filed under their own
\* descriptor; a removal is under way only for a connection that is closed; and
\* what is not accepted yet has no state.
TableInv ==
    /\ LiveIsInTable
    /\ ClosedIsLeaving
    /\ \A f \in DOMAIN connections :
          fd[connections[f]] = f /\ state[connections[f]] # "none"
    /\ \A c \in Conns : Removing(c) => state[c] = "kDisconnected"
    /\ \A c \in Conns : c > nconns => state[c] = "none"

\* Somebody holds a ConnectionPtr to c.
Alive(c) ==
    \/ \E f \in DOMAIN connections : connections[f] = c
    \/ \E l \in Loops : \E o \in Elements(queue[l]) : o.conn = c
    \/ \E l \in Loops : closing[l] = c

\* src/src/event_loop.cpp:127-131: the Channel pointers of a batch.  On a subLoop
\* the functors of a removal keep the connection, and its channel, alive until
\* the batch is over, unless its table entry was overwritten.
SubLoopBatchIsAlive ==
    \A l \in Loops \ {Main} : \A c \in batch[l] : Alive(c) \/ c \in replaced

\* A connection that closes is forgotten, and the application hears of it unless
\* the number was taken by a new connection first.
CloseIsReported ==
    \A c \in Conns :
        state[c] = "kDisconnected" ~> downs[c] = 1 \/ c \in replaced

\* src/src/server.h:31-35: the same callback tells of the connection and of the
\* disconnection.  Every connection that closes is reported.  It does not hold:
\* CloseIsReported says what does.
EveryCloseIsReported ==
    \A c \in Conns : state[c] = "kDisconnected" ~> downs[c] = 1

=============================================================================
