--------------------------- MODULE TcpServerProofs ---------------------------
(***************************************************************************)
(* What holds of TcpServer for any number of subLoops, connections and     *)
(* descriptors: type correctness, that no live connection loses its entry  *)
(* in the table, that no closed one keeps its entry for good, and that the *)
(* channels of a subLoop's batch outlive it.                               *)
(***************************************************************************)
EXTENDS TcpServer, SequenceTheorems, TLAPS

USE DEF Main, NoConn

-----------------------------------------------------------------------------
(* Type correctness.                                                       *)

\* A functor is a record of its operation and its connection.
LEMMA FunctorType ==
    ASSUME NEW op \in {"establish", "remove", "notify"}, NEW c \in Conns
    PROVE  [op |-> op, conn |-> c] \in Functors
  BY DEF Functors

\* Counting a call of connection_cb_ keeps the type of the counts.
LEMMA CountType ==
    ASSUME NEW n \in [Conns -> Nat], NEW c \in Conns
    PROVE  [n EXCEPT ![c] = @ + 1] \in [Conns -> Nat]
<1>1. n[c] + 1 \in Nat
  OBVIOUS
<1>2. QED
  BY <1>1

\* Posting a functor keeps the type of the queues.
LEMMA PostType ==
    ASSUME NEW q \in [Loops -> Seq(Functors)], NEW l \in Loops, NEW o \in Functors
    PROVE  [q EXCEPT ![l] = Append(@, o)] \in [Loops -> Seq(Functors)]
  BY AppendProperties

\* So does running one; what is run is a functor.
LEMMA PopType ==
    ASSUME TypeOK, NEW l \in Loops, queue[l] # <<>>
    PROVE  /\ Popped(l) \in [Loops -> Seq(Functors)]
           /\ Head(queue[l]) \in Functors
           /\ Head(queue[l]).conn \in Conns
<1>1. queue \in [Loops -> Seq(Functors)] /\ queue[l] \in Seq(Functors)
  BY DEF TypeOK
<1>2. Head(queue[l]) \in Functors /\ Tail(queue[l]) \in Seq(Functors)
  BY <1>1, HeadTailProperties
<1>3. Head(queue[l]).conn \in Conns
  BY <1>2 DEF Functors
<1>4. QED
  BY <1>1, <1>2, <1>3 DEF Popped

\* Every loop number in use is a loop.
LEMMA LoopType ==
    ASSUME TypeOK
    PROVE  /\ Main \in Loops
           /\ \A c \in Conns : loop[c] \in Loops
           /\ next_loop \in 0 .. num_threads
           /\ next_loop \in Loops
           /\ AdvanceNext \in Nat
           /\ AdvanceNext < num_threads \/ AdvanceNext = 0
<1>1. num_threads \in Nat /\ num_threads <= MaxThreads /\ MaxThreads \in Nat
  BY MaxThreadsIsNatural DEF TypeOK, Loops
<1>2. Main \in Loops
  BY <1>1 DEF Loops
<1>3. \A c \in Conns : loop[c] \in Loops
  BY <1>1 DEF TypeOK, Loops
<1>4. next_loop \in 0 .. num_threads
  BY <1>1 DEF TypeOK, next_loop
<1>5. next_loop \in Loops
  BY <1>1, <1>4 DEF Loops
<1>6. CASE num_threads = 0
  BY <1>2, <1>3, <1>4, <1>5, <1>6 DEF AdvanceNext, TypeOK
<1>7. CASE num_threads # 0
  <2>1. (next + 1) % num_threads \in 0 .. num_threads - 1
    BY <1>1, <1>7 DEF TypeOK
  <2>2. QED
    BY <1>1, <1>2, <1>3, <1>4, <1>5, <1>7, <2>1 DEF AdvanceNext
<1>8. QED
  BY <1>6, <1>7

\* remove_connection_in_loop keeps the types it touches.
LEMMA RemoveType ==
    ASSUME TypeOK, NEW c \in Conns, NEW q \in [Loops -> Seq(Functors)],
           remove_connection_in_loop(c, q)
    PROVE  /\ DOMAIN connections' \subseteq DOMAIN connections
           /\ \A f \in DOMAIN connections' : connections'[f] = connections[f]
           /\ downs' \in [Conns -> Nat]
           /\ queue' \in [Loops -> Seq(Functors)]
<1>1. downs \in [Conns -> Nat] /\ loop[c] \in Loops
  BY LoopType DEF TypeOK
<1>2. [op |-> "notify", conn |-> c] \in Functors
  BY FunctorType
<1>3. [q EXCEPT ![loop[c]] = Append(@, [op |-> "notify", conn |-> c])]
        \in [Loops -> Seq(Functors)]
  BY <1>1, <1>2, PostType
<1>4. [downs EXCEPT ![c] = @ + 1] \in [Conns -> Nat]
  BY <1>1, CountType
<1>5. downs' \in [Conns -> Nat] /\ queue' \in [Loops -> Seq(Functors)]
  <2>1. \/ downs' = downs
        \/ downs' = [downs EXCEPT ![c] = @ + 1]
    BY DEF remove_connection_in_loop
  <2>2. \/ queue' = q
        \/ queue' = [q EXCEPT ![loop[c]] =
                        Append(@, [op |-> "notify", conn |-> c])]
    BY DEF remove_connection_in_loop
  <2>3. QED
    BY <1>1, <1>3, <1>4, <2>1, <2>2
<1>6. /\ DOMAIN connections' \subseteq DOMAIN connections
      /\ \A f \in DOMAIN connections' : connections'[f] = connections[f]
  <2>1. \/ connections' = connections
        \/ connections' = [g \in DOMAIN connections \ {fd[c]} |-> connections[g]]
    BY DEF remove_connection_in_loop
  <2>2. QED
    BY <2>1
<1>7. QED
  BY <1>5, <1>6

\* Init establishes the types.
LEMMA InitTypeOK == Init => TypeOK
<1> SUFFICES ASSUME Init PROVE TypeOK
  OBVIOUS
<1>1. queue \in [Loops -> Seq(Functors)]
  BY EmptySeq DEF Init
<1>2. num_threads \in Nat
  BY MaxThreadsIsNatural DEF Init, Loops
<1>3. QED
  BY <1>1, <1>2, MaxConnsIsNatural DEF Init, TypeOK, Nothing

\* Every step of every loop keeps them.
LEMMA NextTypeOK == TypeOK /\ [Next]_vars => TypeOK'
<1> SUFFICES ASSUME TypeOK, [Next]_vars PROVE TypeOK'
  OBVIOUS
<1>1. ASSUME NEW f \in Fds, handle_accept(f) PROVE TypeOK'
  <2> DEFINE c == nconns + 1
             l == next_loop
  <2>1. c \in Conns /\ l \in Loops /\ l \in 0 .. num_threads
    BY <1>1, LoopType DEF handle_accept
  <2>2. queue' \in [Loops -> Seq(Functors)]
    <3>1. queue \in [Loops -> Seq(Functors)]
      BY DEF TypeOK
    <3>2. [op |-> "establish", conn |-> c] \in Functors
      BY <2>1, FunctorType
    <3>3. [queue EXCEPT ![l] = Append(@, [op |-> "establish", conn |-> c])]
            \in [Loops -> Seq(Functors)]
      BY <2>1, <3>1, <3>2, PostType
    <3>4. \/ queue' = queue
          \/ queue' = [queue EXCEPT ![l] =
                          Append(@, [op |-> "establish", conn |-> c])]
      BY <1>1 DEF handle_accept
    <3>5. QED
      BY <3>1, <3>3, <3>4
  <2>3. /\ next' \in Nat
        /\ next' < num_threads \/ next' = 0
    BY <1>1, LoopType DEF handle_accept
  <2>4. nconns' \in 0 .. MaxConns
    BY <1>1, <2>1 DEF handle_accept, TypeOK, Conns
  <2>5. /\ fd' \in [Conns -> Fds \cup {0}]
        /\ loop' \in [Conns -> 0 .. num_threads]
        /\ state' \in [Conns -> {"none", "kConnected", "kDisconnected"}]
    BY <1>1, <2>1 DEF handle_accept, TypeOK
  <2>6. /\ DOMAIN connections' \subseteq Fds
        /\ \A g \in DOMAIN connections' : connections'[g] \in Conns
        /\ replaced' \subseteq Conns
    BY <1>1, <2>1 DEF handle_accept, TypeOK
  <2>7. ups' \in [Conns -> Nat] /\ started' \subseteq Conns
    <3>1. ups \in [Conns -> Nat] /\ started \subseteq Conns
      BY DEF TypeOK
    <3>2. [ups EXCEPT ![c] = @ + 1] \in [Conns -> Nat]
      BY <2>1, <3>1, CountType
    <3>3. QED
      BY <1>1, <2>1, <3>1, <3>2 DEF handle_accept, Establish
  <2>8. QED
    BY <1>1, <2>2, <2>3, <2>4, <2>5, <2>6, <2>7 DEF handle_accept, TypeOK
<1>2. ASSUME NEW c \in Conns, close(c) PROVE TypeOK'
  <2>1. queue \in [Loops -> Seq(Functors)] /\ loop[c] \in Loops
    BY LoopType DEF TypeOK
  <2>2. state' \in [Conns -> {"none", "kConnected", "kDisconnected"}]
    BY <1>2 DEF close, TypeOK
  <2>3. CASE loop[c] = Main
    BY <1>2, <2>1, <2>2, <2>3, RemoveType DEF close, TypeOK
  <2>4. CASE loop[c] # Main
    <3>1. closing' \in [Loops -> Conns \cup {NoConn}]
      BY <1>2, <2>1, <2>4 DEF close, TypeOK
    <3>2. QED
      BY <1>2, <2>2, <2>4, <3>1 DEF close, TypeOK
  <2>5. QED
    BY <2>3, <2>4
<1>3. ASSUME NEW l \in Loops, EpollReports(l) PROVE TypeOK'
  BY <1>3 DEF EpollReports, TypeOK
<1>4. ASSUME NEW l \in Loops, handle_event(l) PROVE TypeOK'
  BY <1>4 DEF handle_event, TypeOK
<1>5. ASSUME NEW l \in Loops, close_cb(l) PROVE TypeOK'
  <2>1. closing[l] \in Conns /\ Main \in Loops
    BY <1>5, LoopType DEF close_cb, TypeOK
  <2>2. queue' \in [Loops -> Seq(Functors)]
    BY <1>5, <2>1, FunctorType, PostType DEF close_cb, TypeOK
  <2>3. QED
    BY <1>5, <2>2 DEF close_cb, TypeOK
<1>6. ASSUME NEW l \in Loops, RunEstablish(l) PROVE TypeOK'
  <2>1. queue[l] # <<>>
    BY <1>6 DEF RunEstablish, CanRun
  <2>2. Popped(l) \in [Loops -> Seq(Functors)] /\ Head(queue[l]).conn \in Conns
    BY <2>1, PopType
  <2>3. QED
    BY <1>6, <2>2, CountType DEF RunEstablish, Establish, TypeOK
<1>7. CASE RunRemove
  <2>1. queue[Main] # <<>> /\ Main \in Loops
    BY <1>7, LoopType DEF RunRemove, CanRun
  <2>2. Popped(Main) \in [Loops -> Seq(Functors)] /\ Head(queue[Main]).conn \in Conns
    BY <2>1, PopType
  <2>3. /\ DOMAIN connections' \subseteq DOMAIN connections
        /\ \A f \in DOMAIN connections' : connections'[f] = connections[f]
        /\ downs' \in [Conns -> Nat]
        /\ queue' \in [Loops -> Seq(Functors)]
    BY <1>7, <2>2, RemoveType DEF RunRemove
  <2>4. QED
    BY <1>7, <2>3 DEF RunRemove, TypeOK
<1>8. ASSUME NEW l \in Loops, RunNotify(l) PROVE TypeOK'
  <2>1. queue[l] # <<>>
    BY <1>8 DEF RunNotify, CanRun
  <2>2. Popped(l) \in [Loops -> Seq(Functors)] /\ Head(queue[l]).conn \in Conns
    BY <2>1, PopType
  <2>3. QED
    BY <1>8, <2>2, CountType DEF RunNotify, TypeOK
<1>9. CASE UNCHANGED vars
  BY <1>9 DEF vars, TypeOK
<1>10. QED
  BY <1>1, <1>2, <1>3, <1>4, <1>5, <1>6, <1>7, <1>8, <1>9 DEF Next, RunFunctor

\* The variables of TcpServer keep their types; in particular every connection
\* belongs to a loop that runs.
THEOREM TypeCorrect == SafeSpec => []TypeOK
<1>1. Init => TypeOK
  BY InitTypeOK
<1>2. TypeOK /\ [Next]_vars => TypeOK'
  BY NextTypeOK
<1>3. QED
  BY <1>1, <1>2, PTL DEF SafeSpec

-----------------------------------------------------------------------------
(* The table.                                                              *)

\* The members of a queue after a functor is posted.
LEMMA ElementsOfAppend ==
    ASSUME NEW S, NEW s \in Seq(S), NEW x \in S
    PROVE  Elements(Append(s, x)) = Elements(s) \cup {x}
<1> DEFINE t == Append(s, x)
<1>1. /\ DOMAIN t = 1 .. Len(s) + 1 /\ DOMAIN s = 1 .. Len(s) /\ Len(s) \in Nat
      /\ \A i \in 1 .. Len(s) : t[i] = s[i]
      /\ t[Len(s) + 1] = x
  BY AppendProperties, LenProperties
<1> HIDE DEF t
<1>2. ASSUME NEW i \in DOMAIN t PROVE t[i] \in Elements(s) \cup {x}
  <2>1. i \in 1 .. Len(s) \/ i = Len(s) + 1
    BY <1>1
  <2>2. QED
    BY <1>1, <2>1 DEF Elements
<1>3. ASSUME NEW i \in DOMAIN s PROVE s[i] \in Elements(t)
  <2>1. i \in DOMAIN t /\ t[i] = s[i]
    BY <1>1
  <2>2. QED
    BY <2>1 DEF Elements
<1>4. x \in Elements(t)
  <2>1. Len(s) + 1 \in DOMAIN t
    BY <1>1
  <2>2. QED
    BY <1>1, <2>1 DEF Elements
<1>5. QED
  BY <1>2, <1>3, <1>4 DEF t, Elements

\* The members of a queue are its head and the members of its tail.
LEMMA ElementsOfTail ==
    ASSUME NEW S, NEW s \in Seq(S), s # <<>>
    PROVE  Elements(s) = {Head(s)} \cup Elements(Tail(s))
<1> DEFINE t == Tail(s)
<1>1. /\ t \in Seq(S) /\ Len(s) \in Nat \ {0} /\ Len(t) = Len(s) - 1
      /\ DOMAIN s = 1 .. Len(s) /\ DOMAIN t = 1 .. Len(s) - 1
      /\ \A i \in 1 .. Len(s) - 1 : t[i] = s[i + 1]
      /\ Head(s) = s[1]
  BY HeadTailProperties, LenProperties, EmptySeq
<1> HIDE DEF t
<1>2. ASSUME NEW i \in DOMAIN s PROVE s[i] \in {Head(s)} \cup Elements(t)
  <2>1. CASE i = 1
    BY <1>1, <2>1
  <2>2. CASE i # 1
    <3>1. i - 1 \in DOMAIN t /\ t[i - 1] = s[i]
      BY <1>1, <2>2
    <3>2. QED
      BY <3>1 DEF Elements
  <2>3. QED
    BY <2>1, <2>2
<1>3. ASSUME NEW i \in DOMAIN t PROVE t[i] \in Elements(s)
  <2>1. i + 1 \in DOMAIN s /\ t[i] = s[i + 1]
    BY <1>1
  <2>2. QED
    BY <2>1 DEF Elements
<1>4. Head(s) \in Elements(s)
  <2>1. 1 \in DOMAIN s
    BY <1>1
  <2>2. QED
    BY <1>1, <2>1 DEF Elements
<1>5. QED
  BY <1>2, <1>3, <1>4 DEF t, Elements

\* A functor of another kind at the head of the mainLoop's queue may go without
\* changing which removals are under way.
LEMMA OtherFunctorRuns ==
    ASSUME TypeOK, NEW l \in Loops, NEW op, op # "remove", CanRun(l, op),
           queue' = Popped(l), closing' = closing
    PROVE  \A c \in Conns : Removing(c)' <=> Removing(c)
<1>1. queue \in [Loops -> Seq(Functors)] /\ Main \in Loops
  BY LoopType DEF TypeOK
<1>2. CASE l # Main
  <2>1. queue'[Main] = queue[Main]
    BY <1>1, <1>2 DEF Popped
  <2>2. QED
    BY <2>1 DEF Removing
<1>3. CASE l = Main
  <2>1. /\ queue'[Main] = Tail(queue[Main])
        /\ queue[Main] # <<>> /\ Head(queue[Main]).op # "remove"
    BY <1>1, <1>3 DEF Popped, CanRun
  <2>2. Elements(queue[Main]) = {Head(queue[Main])} \cup Elements(queue'[Main])
    BY <1>1, <2>1, ElementsOfTail
  <2>3. \A c \in Conns : [op |-> "remove", conn |-> c] # Head(queue[Main])
    BY <2>1
  <2>4. QED
    BY <2>2, <2>3 DEF Removing
<1>4. QED
  BY <1>2, <1>3

\* What remove_connection_in_loop does to the table and to the mainLoop's queue.
LEMMA RemoveEffect ==
    ASSUME TypeOK, NEW c \in Conns, NEW q \in [Loops -> Seq(Functors)],
           remove_connection_in_loop(c, q)
    PROVE  /\ queue'[Main] = q[Main]
           /\ IF fd[c] \in DOMAIN connections /\ connections[fd[c]] = c
                THEN connections' = [g \in DOMAIN connections \ {fd[c]} |->
                                        connections[g]]
                ELSE connections' = connections
<1>1. Main \in Loops /\ loop[c] \in Loops
  BY LoopType
<1>2. \/ queue' = q
      \/ /\ loop[c] # Main
         /\ queue' = [q EXCEPT ![loop[c]] =
                         Append(@, [op |-> "notify", conn |-> c])]
  BY DEF remove_connection_in_loop
<1>3. queue'[Main] = q[Main]
  BY <1>1, <1>2
<1>4. QED
  BY <1>3 DEF remove_connection_in_loop

\* A step that leaves the table, the connections and the removals alone.
LEMMA TableUntouched ==
    ASSUME TableInv, UNCHANGED <<connections, fd, state, nconns>>,
           \A c \in Conns : Removing(c)' <=> Removing(c),
           \A f \in DOMAIN connections : connections[f] \in Conns
    PROVE  TableInv'
  BY DEF TableInv, LiveIsInTable, ClosedIsLeaving

\* Init establishes the invariant of the table.
LEMMA InitTableInv == Init => TableInv
<1> SUFFICES ASSUME Init PROVE TableInv
  OBVIOUS
<1>1. \A c \in Conns : state[c] = "none" /\ c # NoConn
  BY DEF Init, Conns
<1>2. DOMAIN connections = {}
  BY DEF Init, Nothing
<1>3. \A c \in Conns : ~Removing(c)
  <2>1. queue[Main] = <<>> /\ Elements(queue[Main]) = {}
    BY MaxThreadsIsNatural DEF Init, Loops, Elements
  <2>2. \A l \in Loops : closing[l] = NoConn
    BY DEF Init
  <2>3. QED
    BY <1>1, <2>1, <2>2 DEF Removing
<1>4. QED
  BY <1>1, <1>2, <1>3 DEF TableInv, LiveIsInTable, ClosedIsLeaving

\* Accepting: the descriptor is free, so only an entry of a closed connection
\* can be overwritten.
LEMMA AcceptKeepsTable ==
    ASSUME TypeOK, TableInv, NEW f \in Fds, handle_accept(f)
    PROVE  TableInv'
<1> DEFINE c == nconns + 1
<1>1. c \in Conns /\ nconns \in Nat /\ c > nconns /\ Main \in Loops
  BY LoopType DEF handle_accept, TypeOK
<1>2. /\ nconns' = c
      /\ fd' = [fd EXCEPT ![c] = f]
      /\ state' = [state EXCEPT ![c] = "kConnected"]
      /\ connections' = [g \in DOMAIN connections \cup {f} |->
                            IF g = f THEN c ELSE connections[g]]
      /\ closing' = closing
      /\ f \notin OpenFds
  BY DEF handle_accept, LowestFree
<1>3. queue'[Main] = queue[Main]
  <2>1. queue \in [Loops -> Seq(Functors)]
    BY DEF TypeOK
  <2>2. \/ queue' = queue
        \/ /\ next_loop # Main
           /\ queue' = [queue EXCEPT ![next_loop] =
                           Append(@, [op |-> "establish", conn |-> c])]
    BY DEF handle_accept
  <2>3. QED
    BY <1>1, <2>1, <2>2, LoopType
<1>4. \A d \in Conns : Removing(d)' <=> Removing(d)
  BY <1>2, <1>3 DEF Removing
<1>5. state[c] = "none"
  BY <1>1 DEF TableInv
<1> HIDE DEF c
<1>6. /\ fd'[c] = f /\ state'[c] = "kConnected"
      /\ \A d \in Conns \ {c} : fd'[d] = fd[d] /\ state'[d] = state[d]
  BY <1>1, <1>2 DEF TypeOK
<1>7. \A g \in DOMAIN connections : connections[g] \in Conns \ {c}
  BY <1>5 DEF TypeOK, TableInv
<1>8. LiveIsInTable'
  <2> SUFFICES ASSUME NEW d \in Conns, state'[d] = "kConnected"
               PROVE  fd'[d] \in DOMAIN connections' /\ connections'[fd'[d]] = d
    BY DEF LiveIsInTable
  <2>1. CASE d = c
    BY <1>2, <1>6, <2>1
  <2>2. CASE d # c
    <3>1. fd[d] # f /\ fd'[d] = fd[d] /\ state[d] = "kConnected"
      BY <1>2, <1>6, <2>2 DEF OpenFds
    <3>2. fd[d] \in DOMAIN connections /\ connections[fd[d]] = d
      BY <3>1 DEF TableInv, LiveIsInTable
    <3>3. QED
      BY <1>2, <3>1, <3>2
  <2>3. QED
    BY <2>1, <2>2
<1>9. ASSUME NEW g \in DOMAIN connections', NEW d \in Conns, connections'[g] = d
      PROVE  /\ fd'[d] = g
             /\ state'[d] # "none"
             /\ state'[d] = "kDisconnected" => Removing(d)'
  <2>1. CASE g = f
    BY <1>2, <1>6, <1>9, <2>1
  <2>2. CASE g # f
    <3>1. g \in DOMAIN connections /\ connections[g] = d
      BY <1>2, <1>9, <2>2
    <3>2. /\ fd[d] = g /\ state[d] # "none"
          /\ state[d] = "kDisconnected" => Removing(d)
      BY <3>1 DEF TableInv, ClosedIsLeaving
    <3>3. QED
      BY <1>4, <1>6, <1>7, <3>1, <3>2
  <2>3. QED
    BY <2>1, <2>2
<1>10. \A d \in Conns : Removing(d)' => state'[d] = "kDisconnected"
  BY <1>4, <1>5, <1>6 DEF TableInv
<1>11. \A d \in Conns : d > nconns' => state'[d] = "none"
  <2> SUFFICES ASSUME NEW d \in Conns, d > nconns' PROVE state'[d] = "none"
    OBVIOUS
  <2>1. d # c /\ d > nconns
    BY <1>1, <1>2 DEF Conns
  <2>2. QED
    BY <1>6, <2>1 DEF TableInv
<1>12. \A g \in DOMAIN connections' : connections'[g] \in Conns
  BY <1>1, <1>2, <1>7
<1>13. ClosedIsLeaving'
  BY <1>9 DEF ClosedIsLeaving
<1>14. QED
  BY <1>8, <1>9, <1>10, <1>11, <1>12, <1>13 DEF TableInv

\* Closing: on the mainLoop the entry goes at once, on a subLoop the removal is
\* under way.
LEMMA CloseKeepsTable ==
    ASSUME TypeOK, TableInv, NEW c \in Conns, close(c)
    PROVE  TableInv'
<1>1. /\ state[c] = "kConnected"
      /\ fd[c] \in DOMAIN connections /\ connections[fd[c]] = c
  BY DEF close, TableInv, LiveIsInTable
<1>2. /\ state'[c] = "kDisconnected"
      /\ \A d \in Conns \ {c} : state'[d] = state[d]
      /\ UNCHANGED <<fd, nconns>>
  BY DEF close, TypeOK
<1>3. \A d \in Conns : d > nconns' => state'[d] = "none"
  BY <1>1, <1>2 DEF TableInv
<1>4. \A g \in DOMAIN connections : connections[g] \in Conns
  BY DEF TypeOK
<1>5. CASE loop[c] = Main
  <2>1. queue \in [Loops -> Seq(Functors)] /\ closing' = closing
    BY <1>5 DEF close, TypeOK
  <2>2. remove_connection_in_loop(c, queue)
    BY <1>5 DEF close
  <2>3. /\ queue'[Main] = queue[Main]
        /\ connections' = [g \in DOMAIN connections \ {fd[c]} |-> connections[g]]
    BY <1>1, <2>1, <2>2, RemoveEffect
  <2>4. \A d \in Conns : Removing(d)' <=> Removing(d)
    BY <2>1, <2>3 DEF Removing
  <2>5. \A g \in DOMAIN connections' :
            /\ g \in DOMAIN connections /\ connections'[g] = connections[g]
            /\ connections[g] # c
    BY <2>3 DEF TableInv
  <2>6. LiveIsInTable'
    <3> SUFFICES ASSUME NEW d \in Conns, state'[d] = "kConnected"
                 PROVE  fd[d] \in DOMAIN connections' /\ connections'[fd[d]] = d
      BY <1>2 DEF LiveIsInTable
    <3>1. d # c /\ state[d] = "kConnected"
      BY <1>2
    <3>2. fd[d] \in DOMAIN connections /\ connections[fd[d]] = d
      BY <3>1 DEF TableInv, LiveIsInTable
    <3>3. fd[d] # fd[c]
      BY <1>1, <3>1, <3>2
    <3>4. QED
      BY <2>3, <3>2, <3>3
  <2>7. QED
    BY <1>2, <1>3, <1>4, <2>4, <2>5, <2>6 DEF TableInv, ClosedIsLeaving
<1>6. CASE loop[c] # Main
  <2>1. /\ closing' = [closing EXCEPT ![loop[c]] = c]
        /\ closing[loop[c]] = NoConn
        /\ UNCHANGED <<connections, queue>>
        /\ loop[c] \in Loops /\ closing \in [Loops -> Conns \cup {NoConn}]
    BY <1>6, LoopType DEF close, TypeOK
  <2>2. Removing(c)'
    BY <2>1 DEF Removing
  <2>3. \A d \in Conns \ {c} : Removing(d)' <=> Removing(d)
    <3>1. \A d \in Conns : d # NoConn
      BY DEF Conns
    <3>2. QED
      BY <2>1, <3>1 DEF Removing
  <2>4. LiveIsInTable'
    BY <1>2, <2>1 DEF TableInv, LiveIsInTable
  <2>5. ClosedIsLeaving'
    <3> SUFFICES ASSUME NEW g \in DOMAIN connections, NEW d \in Conns,
                        connections[g] = d, state'[d] = "kDisconnected"
                 PROVE  Removing(d)'
      BY <2>1 DEF ClosedIsLeaving
    <3>1. QED
      BY <1>2, <2>2, <2>3 DEF TableInv, ClosedIsLeaving
  <2>6. \A g \in DOMAIN connections :
            fd[connections[g]] = g /\ state'[connections[g]] # "none"
    BY <1>2, <1>4 DEF TableInv
  <2>7. \A d \in Conns : Removing(d)' => state'[d] = "kDisconnected"
    BY <1>2, <2>3 DEF TableInv
  <2>8. QED
    BY <1>2, <1>3, <2>1, <2>4, <2>5, <2>6, <2>7 DEF TableInv
<1>7. QED
  BY <1>5, <1>6

\* Removing: an entry that is another connection's stays, and what stays and is
\* closed has a removal of its own.
LEMMA RemoveKeepsTable ==
    ASSUME TypeOK, TableInv, RunRemove
    PROVE  TableInv'
<1> DEFINE c == Head(queue[Main]).conn
<1>1. /\ Main \in Loops /\ queue[Main] # <<>> /\ Head(queue[Main]).op = "remove"
      /\ queue \in [Loops -> Seq(Functors)]
      /\ UNCHANGED <<fd, state, nconns, closing>>
  BY LoopType DEF RunRemove, CanRun, TypeOK
<1>2. /\ Popped(Main) \in [Loops -> Seq(Functors)] /\ c \in Conns
      /\ Head(queue[Main]) \in Functors
  BY <1>1, PopType
<1>3. remove_connection_in_loop(c, Popped(Main))
  BY DEF RunRemove
<1>4. Head(queue[Main]) = [op |-> "remove", conn |-> c]
  BY <1>1, <1>2 DEF Functors
<1> HIDE DEF c
<1>5. /\ queue'[Main] = Tail(queue[Main])
      /\ IF fd[c] \in DOMAIN connections /\ connections[fd[c]] = c
           THEN connections' = [g \in DOMAIN connections \ {fd[c]} |->
                                   connections[g]]
           ELSE connections' = connections
  <2>1. Popped(Main)[Main] = Tail(queue[Main])
    BY <1>1 DEF Popped
  <2>2. QED
    BY <1>2, <1>3, <2>1, RemoveEffect
<1>6. Elements(queue[Main]) = {Head(queue[Main])} \cup Elements(queue'[Main])
  BY <1>1, <1>5, ElementsOfTail
<1>7. /\ Removing(c)
      /\ \A d \in Conns : Removing(d)' => Removing(d)
      /\ \A d \in Conns \ {c} : Removing(d) => Removing(d)'
  <2>1. \A d \in Conns \ {c} : [op |-> "remove", conn |-> d] # Head(queue[Main])
    <3> SUFFICES ASSUME NEW d \in Conns \ {c},
                        [op |-> "remove", conn |-> d] = Head(queue[Main])
                 PROVE  FALSE
      OBVIOUS
    <3>1. [op |-> "remove", conn |-> d].conn = [op |-> "remove", conn |-> c].conn
      BY <1>4
    <3>2. QED
      BY <3>1
  <2>2. QED
    BY <1>1, <1>4, <1>6, <2>1 DEF Removing
<1>8. state[c] = "kDisconnected"
  BY <1>2, <1>7 DEF TableInv
<1>9. \A g \in DOMAIN connections' :
          /\ g \in DOMAIN connections /\ connections'[g] = connections[g]
          /\ connections[g] \in Conns \ {c}
  <2> SUFFICES ASSUME NEW g \in DOMAIN connections'
               PROVE  /\ g \in DOMAIN connections /\ connections'[g] = connections[g]
                      /\ connections[g] \in Conns \ {c}
    OBVIOUS
  <2>1. g \in DOMAIN connections /\ connections'[g] = connections[g]
    BY <1>5
  <2>2. connections[g] \in Conns /\ fd[connections[g]] = g
    BY <2>1 DEF TypeOK, TableInv
  <2>3. connections[g] # c
    BY <1>5, <2>1, <2>2
  <2>4. QED
    BY <2>1, <2>2, <2>3
<1>10. LiveIsInTable'
  <2> SUFFICES ASSUME NEW d \in Conns, state[d] = "kConnected"
               PROVE  fd[d] \in DOMAIN connections' /\ connections'[fd[d]] = d
    BY <1>1 DEF LiveIsInTable
  <2>1. d # c /\ fd[d] \in DOMAIN connections /\ connections[fd[d]] = d
    BY <1>8 DEF TableInv, LiveIsInTable
  <2>2. QED
    BY <1>5, <2>1
<1>11. ClosedIsLeaving'
  <2> SUFFICES ASSUME NEW g \in DOMAIN connections', NEW d \in Conns,
                      connections'[g] = d, state[d] = "kDisconnected"
               PROVE  Removing(d)'
    BY <1>1 DEF ClosedIsLeaving
  <2>1. g \in DOMAIN connections /\ connections[g] = d /\ d \in Conns \ {c}
    BY <1>9
  <2>2. Removing(d)
    BY <2>1 DEF TableInv, ClosedIsLeaving
  <2>3. QED
    BY <1>7, <2>1, <2>2
<1>12. QED
  BY <1>1, <1>7, <1>9, <1>10, <1>11 DEF TableInv

\* Every step keeps the invariant of the table.
LEMMA NextTableInv == TypeOK /\ TableInv /\ [Next]_vars => TableInv'
<1> SUFFICES ASSUME TypeOK, TableInv, [Next]_vars PROVE TableInv'
  OBVIOUS
<1> DEFINE Same == /\ UNCHANGED <<connections, fd, state, nconns>>
                   /\ \A c \in Conns : Removing(c)' <=> Removing(c)
<1>1. ASSUME Same PROVE TableInv'
  BY <1>1, TableUntouched DEF TypeOK
<1>2. ASSUME NEW f \in Fds, handle_accept(f) PROVE TableInv'
  BY <1>2, AcceptKeepsTable
<1>3. ASSUME NEW c \in Conns, close(c) PROVE TableInv'
  BY <1>3, CloseKeepsTable
<1>4. ASSUME NEW l \in Loops, EpollReports(l) PROVE Same
  BY <1>4 DEF EpollReports, Removing
<1>5. ASSUME NEW l \in Loops, handle_event(l) PROVE Same
  BY <1>5 DEF handle_event, Removing
<1>6. ASSUME NEW l \in Loops, close_cb(l) PROVE Same
  <2> DEFINE c == closing[l]
  <2>1. /\ c \in Conns /\ Main \in Loops
        /\ queue[Main] \in Seq(Functors) /\ queue \in [Loops -> Seq(Functors)]
        /\ closing \in [Loops -> Conns \cup {NoConn}]
    BY <1>6, LoopType DEF close_cb, TypeOK
  <2>2. /\ closing' = [closing EXCEPT ![l] = NoConn]
        /\ queue'[Main] = Append(queue[Main], [op |-> "remove", conn |-> c])
        /\ UNCHANGED <<connections, fd, state, nconns>>
    BY <1>6, <2>1 DEF close_cb
  <2>3. Elements(queue'[Main]) =
            Elements(queue[Main]) \cup {[op |-> "remove", conn |-> c]}
    BY <2>1, <2>2, FunctorType, ElementsOfAppend
  <2>4. ASSUME NEW d \in Conns PROVE Removing(d)' <=> Removing(d)
    <3>1. d # NoConn
      BY DEF Conns
    <3>2. CASE d = c
      BY <2>3, <3>2 DEF Removing
    <3>3. CASE d # c
      <4>1. [op |-> "remove", conn |-> d] # [op |-> "remove", conn |-> c]
        <5> SUFFICES ASSUME [op |-> "remove", conn |-> d]
                              = [op |-> "remove", conn |-> c]
                     PROVE  FALSE
          OBVIOUS
        <5>1. [op |-> "remove", conn |-> d].conn = [op |-> "remove", conn |-> c].conn
          OBVIOUS
        <5>2. QED
          BY <3>3, <5>1
      <4>2. (\E k \in Loops : closing'[k] = d) <=> (\E k \in Loops : closing[k] = d)
        BY <2>1, <2>2, <3>1, <3>3
      <4>3. QED
        BY <2>3, <4>1, <4>2 DEF Removing
    <3>4. QED
      BY <3>2, <3>3
  <2>5. QED
    BY <2>2, <2>4
<1>7. ASSUME NEW l \in Loops, RunEstablish(l) PROVE Same
  <2>1. CanRun(l, "establish") /\ queue' = Popped(l) /\ closing' = closing
    BY <1>7 DEF RunEstablish
  <2>2. \A c \in Conns : Removing(c)' <=> Removing(c)
    BY <2>1, OtherFunctorRuns
  <2>3. QED
    BY <1>7, <2>2 DEF RunEstablish
<1>8. CASE RunRemove
  BY <1>8, RemoveKeepsTable
<1>9. ASSUME NEW l \in Loops, RunNotify(l) PROVE Same
  <2>1. CanRun(l, "notify") /\ queue' = Popped(l) /\ closing' = closing
    BY <1>9 DEF RunNotify
  <2>2. \A c \in Conns : Removing(c)' <=> Removing(c)
    BY <2>1, OtherFunctorRuns
  <2>3. QED
    BY <1>9, <2>2 DEF RunNotify
<1>10. CASE UNCHANGED vars
  <2>1. Same
    BY <1>10 DEF vars, Removing
  <2>2. QED
    BY <1>1, <2>1
<1> HIDE DEF Same
<1>11. QED
  BY <1>1, <1>2, <1>3, <1>4, <1>5, <1>6, <1>7, <1>8, <1>9, <1>10
     DEF Next, RunFunctor

\* The invariant of the table holds for ever.
THEOREM TableIsRight == SafeSpec => []TableInv
<1>1. Init => TypeOK /\ TableInv
  BY InitTypeOK, InitTableInv
<1>2. TypeOK /\ TableInv /\ [Next]_vars => (TypeOK /\ TableInv)'
  BY NextTypeOK, NextTableInv
<1>3. QED
  BY <1>1, <1>2, PTL DEF SafeSpec

\* A removal that arrives late never takes the entry of a connection that has
\* been given the same descriptor since (remove_connection_in_loop's comparison).
THEOREM LiveStaysInTable == SafeSpec => []LiveIsInTable
<1>1. TableInv => LiveIsInTable
  BY DEF TableInv
<1>2. QED
  BY <1>1, TableIsRight, PTL

\* No closed connection is kept in the table for good: its removal is under way.
THEOREM ClosedAlwaysLeaves == SafeSpec => []ClosedIsLeaving
<1>1. TableInv => ClosedIsLeaving
  BY DEF TableInv
<1>2. QED
  BY <1>1, TableIsRight, PTL

-----------------------------------------------------------------------------
(* The channels of a batch.                                                *)

InTable(c) == fd[c] \in DOMAIN connections /\ connections[fd[c]] = c

NotifyQueued(l, c) == [op |-> "notify", conn |-> c] \in Elements(queue[l])

\* Why a subLoop's batch holds no dangling Channel: the connection leaves the table
\* for a functor that this very loop must run, and it runs none before the batch is
\* over.
BatchInv ==
    \A l \in Loops \ {Main} : \A c \in batch[l] :
        /\ loop[c] = l /\ state[c] # "none"
        /\ InTable(c) \/ NotifyQueued(l, c) \/ c \in replaced

\* A step that neither adds to batches nor takes an entry or a functor that keeps one
\* of their channels.
LEMMA BatchUntouched ==
    ASSUME BatchInv,
           \A l \in Loops \ {Main} : batch'[l] \subseteq batch[l],
           \A l \in Loops \ {Main} : \A c \in batch'[l] :
               /\ loop'[c] = loop[c]
               /\ state[c] # "none" => state'[c] # "none"
               /\ InTable(c) => InTable(c)' \/ NotifyQueued(l, c)' \/ c \in replaced'
               /\ NotifyQueued(l, c) => NotifyQueued(l, c)',
           replaced \subseteq replaced'
    PROVE  BatchInv'
<1> SUFFICES ASSUME NEW l \in Loops \ {Main}, NEW c \in batch'[l]
             PROVE  /\ loop'[c] = l /\ state'[c] # "none"
                    /\ InTable(c)' \/ NotifyQueued(l, c)' \/ c \in replaced'
  BY DEF BatchInv
<1>1. /\ c \in batch[l] /\ loop[c] = l /\ state[c] # "none"
      /\ InTable(c) \/ NotifyQueued(l, c) \/ c \in replaced
  BY DEF BatchInv
<1> QED
  BY <1>1

\* Posting to any loop takes no functor away.
LEMMA PostKeepsNotify ==
    ASSUME NEW q \in [Loops -> Seq(Functors)], NEW k \in Loops, NEW o \in Functors,
           NEW l \in Loops
    PROVE  Elements(q[l]) \subseteq Elements([q EXCEPT ![k] = Append(@, o)][l])
<1>1. CASE k # l
  <2>1. [q EXCEPT ![k] = Append(@, o)][l] = q[l]
    BY <1>1
  <2> QED
    BY <2>1
<1>2. CASE k = l
  <2>1. [q EXCEPT ![k] = Append(@, o)][l] = Append(q[l], o) /\ q[l] \in Seq(Functors)
    BY <1>2
  <2> QED
    BY <2>1, ElementsOfAppend
<1> QED
  BY <1>1, <1>2

\* remove_connection_in_loop, run by the mainLoop: whoever leaves the table has its
\* notification queued, if its loop is a subLoop.
LEMMA RemoveHandsOver ==
    ASSUME TypeOK, NEW d \in Conns, NEW q \in [Loops -> Seq(Functors)],
           remove_connection_in_loop(d, q), UNCHANGED fd,
           \A k \in Loops \ {Main} : q[k] = queue[k],
           NEW l \in Loops \ {Main}, NEW c \in Conns, loop[c] = l
    PROVE  /\ InTable(c) => InTable(c)' \/ NotifyQueued(l, c)'
           /\ NotifyQueued(l, c) => NotifyQueued(l, c)'
<1> DEFINE o == [op |-> "notify", conn |-> d]
<1>1. o \in Functors /\ loop[d] \in Loops /\ q[l] = queue[l]
  BY FunctorType, LoopType
<1>2. \/ queue' = q
      \/ queue' = [q EXCEPT ![loop[d]] = Append(@, o)]
  BY DEF remove_connection_in_loop
<1>3. Elements(queue[l]) \subseteq Elements(queue'[l])
  <2>1. CASE queue' = q
    BY <1>1, <2>1
  <2>2. CASE queue' = [q EXCEPT ![loop[d]] = Append(@, o)]
    <3>1. Elements(q[l]) \subseteq Elements([q EXCEPT ![loop[d]] = Append(@, o)][l])
      BY <1>1, PostKeepsNotify
    <3> QED
      BY <1>1, <2>2, <3>1
  <2> QED
    BY <1>2, <2>1, <2>2
<1>4. ASSUME InTable(c) PROVE InTable(c)' \/ NotifyQueued(l, c)'
  <2>1. CASE d = c
    <3>1. queue' = [q EXCEPT ![l] = Append(@, o)]
      BY <1>4, <2>1 DEF InTable, remove_connection_in_loop
    <3>2. queue'[l] = Append(q[l], o) /\ q[l] \in Seq(Functors)
      BY <3>1
    <3>3. o \in Elements(queue'[l])
      BY <1>1, <3>2, ElementsOfAppend
    <3> QED
      BY <2>1, <3>3 DEF NotifyQueued
  <2>2. CASE d # c
    <3>1. IF fd[d] \in DOMAIN connections /\ connections[fd[d]] = d
            THEN connections' = [g \in DOMAIN connections \ {fd[d]} |-> connections[g]]
            ELSE connections' = connections
      BY RemoveEffect
    <3>2. fd[d] \in DOMAIN connections /\ connections[fd[d]] = d => fd[d] # fd[c]
      BY <1>4, <2>2 DEF InTable
    <3> QED
      BY <1>4, <3>1, <3>2 DEF InTable
  <2> QED
    BY <2>1, <2>2
<1> QED
  BY <1>3, <1>4 DEF NotifyQueued

LEMMA AcceptKeepsBatch ==
    ASSUME TypeOK, TableInv, BatchInv, NEW f \in Fds, handle_accept(f)
    PROVE  BatchInv'
<1> DEFINE n == nconns + 1
           o == [op |-> "establish", conn |-> n]
<1>1. n \in Conns /\ state[n] = "none"
  BY DEF handle_accept, TypeOK, TableInv
<1>2. /\ fd' = [fd EXCEPT ![n] = f]
      /\ loop' = [loop EXCEPT ![n] = next_loop]
      /\ state' = [state EXCEPT ![n] = "kConnected"]
      /\ connections' = [g \in DOMAIN connections \cup {f} |->
                            IF g = f THEN n ELSE connections[g]]
      /\ replaced' = replaced \cup {connections[g] : g \in DOMAIN connections \cap {f}}
      /\ batch' = batch
      /\ \/ queue' = queue
         \/ queue' = [queue EXCEPT ![next_loop] = Append(@, o)]
  BY DEF handle_accept
<1>3. o \in Functors /\ next_loop \in Loops /\ queue \in [Loops -> Seq(Functors)]
  BY <1>1, FunctorType, LoopType DEF TypeOK
<1> HIDE DEF n
<1>4. ASSUME NEW l \in Loops \ {Main}, NEW c \in batch'[l]
      PROVE  /\ loop'[c] = loop[c]
             /\ state[c] # "none" => state'[c] # "none"
             /\ InTable(c) => InTable(c)' \/ NotifyQueued(l, c)' \/ c \in replaced'
             /\ NotifyQueued(l, c) => NotifyQueued(l, c)'
  <2>1. c \in Conns /\ state[c] # "none" /\ c # n
    BY <1>1, <1>2, <1>4 DEF BatchInv, TypeOK
  <2>2. loop'[c] = loop[c] /\ state'[c] = state[c] /\ fd'[c] = fd[c]
    BY <1>1, <1>2, <2>1 DEF TypeOK
  <2>3. Elements(queue[l]) \subseteq Elements(queue'[l])
    BY <1>2, <1>3, PostKeepsNotify
  <2>4. ASSUME InTable(c) PROVE InTable(c)' \/ c \in replaced'
    <3>1. CASE fd[c] = f
      BY <1>2, <2>4, <3>1 DEF InTable
    <3>2. CASE fd[c] # f
      BY <1>2, <2>2, <2>4, <3>2 DEF InTable
    <3> QED
      BY <3>1, <3>2
  <2> QED
    BY <2>2, <2>3, <2>4 DEF NotifyQueued
<1> QED
  BY <1>2, <1>4, BatchUntouched

LEMMA CloseKeepsBatch ==
    ASSUME TypeOK, TableInv, BatchInv, NEW d \in Conns, close(d)
    PROVE  BatchInv'
<1>1. /\ state' = [state EXCEPT ![d] = "kDisconnected"]
      /\ UNCHANGED <<fd, loop, batch, replaced>>
  BY DEF close
<1>2. ASSUME NEW l \in Loops \ {Main}, NEW c \in batch'[l]
      PROVE  /\ loop'[c] = loop[c]
             /\ state[c] # "none" => state'[c] # "none"
             /\ InTable(c) => InTable(c)' \/ NotifyQueued(l, c)' \/ c \in replaced'
             /\ NotifyQueued(l, c) => NotifyQueued(l, c)'
  <2>1. c \in Conns /\ loop[c] = l
    BY <1>1, <1>2 DEF BatchInv, TypeOK
  <2>2. state[c] # "none" => state'[c] # "none"
    BY <1>1, <2>1 DEF TypeOK
  <2>3. CASE loop[d] = Main
    <3>1. remove_connection_in_loop(d, queue) /\ queue \in [Loops -> Seq(Functors)]
      BY <2>3 DEF close, TypeOK
    <3>2. /\ InTable(c) => InTable(c)' \/ NotifyQueued(l, c)'
          /\ NotifyQueued(l, c) => NotifyQueued(l, c)'
      BY <1>1, <2>1, <3>1, RemoveHandsOver
    <3> QED
      BY <1>1, <2>2, <3>2
  <2>4. CASE loop[d] # Main
    <3>1. UNCHANGED <<connections, queue>>
      BY <2>4 DEF close
    <3> QED
      BY <1>1, <2>2, <3>1 DEF InTable, NotifyQueued
  <2> QED
    BY <2>3, <2>4
<1> QED
  BY <1>1, <1>2, BatchUntouched

\* epoll_wait reports only registered channels, of connections that are in the table.
LEMMA ReportKeepsBatch ==
    ASSUME TypeOK, TableInv, BatchInv, NEW k \in Loops, EpollReports(k)
    PROVE  BatchInv'
<1>1. UNCHANGED <<loop, state, fd, connections, queue, replaced>>
  BY DEF EpollReports
<1>2. PICK b \in SUBSET {c \in started : loop[c] = k /\ state[c] = "kConnected"} :
         batch' = [batch EXCEPT ![k] = b]
  BY DEF EpollReports
<1> SUFFICES ASSUME NEW l \in Loops \ {Main}, NEW c \in batch'[l]
             PROVE  /\ loop'[c] = l /\ state'[c] # "none"
                    /\ InTable(c)' \/ NotifyQueued(l, c)' \/ c \in replaced'
  BY DEF BatchInv
<1>3. CASE l = k
  <2>1. c \in Conns /\ loop[c] = l /\ state[c] = "kConnected"
    BY <1>2, <1>3 DEF TypeOK
  <2>2. InTable(c)
    BY <2>1 DEF TableInv, LiveIsInTable, InTable
  <2> QED
    BY <1>1, <2>1, <2>2 DEF InTable
<1>4. CASE l # k
  <2>1. c \in batch[l]
    BY <1>2, <1>4 DEF TypeOK
  <2> QED
    BY <1>1, <2>1 DEF BatchInv, InTable, NotifyQueued
<1> QED
  BY <1>3, <1>4

\* A functor of a loop runs only between batches.
LEMMA FunctorKeepsBatch ==
    ASSUME TypeOK, BatchInv, NEW k \in Loops, batch[k] = {}, queue' = Popped(k),
           UNCHANGED <<loop, state, fd, connections, batch, replaced>>
    PROVE  BatchInv'
<1>1. ASSUME NEW l \in Loops \ {Main}, NEW c \in batch'[l]
      PROVE  queue'[l] = queue[l]
  <2>1. l # k
    BY <1>1
  <2> QED
    BY <2>1 DEF Popped, TypeOK
<1> QED
  BY <1>1, BatchUntouched DEF InTable, NotifyQueued

LEMMA NextBatchInv == TypeOK /\ TableInv /\ BatchInv /\ [Next]_vars => BatchInv'
<1> SUFFICES ASSUME TypeOK, TableInv, BatchInv, [Next]_vars PROVE BatchInv'
  OBVIOUS
<1>1. ASSUME NEW f \in Fds, handle_accept(f) PROVE BatchInv'
  BY <1>1, AcceptKeepsBatch
<1>2. ASSUME NEW c \in Conns, close(c) PROVE BatchInv'
  BY <1>2, CloseKeepsBatch
<1>3. ASSUME NEW k \in Loops, EpollReports(k) PROVE BatchInv'
  BY <1>3, ReportKeepsBatch
<1>4. ASSUME NEW k \in Loops, handle_event(k) PROVE BatchInv'
  <2>1. /\ \A l \in Loops \ {Main} : batch'[l] \subseteq batch[l]
        /\ UNCHANGED <<loop, state, fd, connections, queue, replaced>>
    BY <1>4 DEF handle_event, TypeOK
  <2> QED
    BY <2>1, BatchUntouched DEF InTable, NotifyQueued
<1>5. ASSUME NEW k \in Loops, close_cb(k) PROVE BatchInv'
  <2>1. /\ UNCHANGED <<loop, state, fd, connections, batch, replaced>>
        /\ queue' = [queue EXCEPT ![Main] =
                        Append(@, [op |-> "remove", conn |-> closing[k]])]
    BY <1>5 DEF close_cb
  <2>2. \A l \in Loops \ {Main} : queue'[l] = queue[l]
    BY <2>1 DEF TypeOK
  <2> QED
    BY <2>1, <2>2, BatchUntouched DEF InTable, NotifyQueued
<1>6. ASSUME NEW k \in Loops, RunEstablish(k) PROVE BatchInv'
  BY <1>6, FunctorKeepsBatch DEF RunEstablish, CanRun
<1>7. CASE RunRemove
  <2> DEFINE d == Head(queue[Main]).conn
  <2>1. /\ UNCHANGED <<loop, state, fd, batch, replaced>> /\ queue[Main] # <<>>
        /\ remove_connection_in_loop(d, Popped(Main))
    BY <1>7 DEF RunRemove, CanRun
  <2>2. d \in Conns /\ Popped(Main) \in [Loops -> Seq(Functors)]
    BY <2>1, PopType, LoopType
  <2>3. \A l \in Loops \ {Main} : Popped(Main)[l] = queue[l]
    BY DEF Popped, TypeOK
  <2> HIDE DEF d
  <2>4. ASSUME NEW l \in Loops \ {Main}, NEW c \in batch'[l]
        PROVE  /\ InTable(c) => InTable(c)' \/ NotifyQueued(l, c)'
               /\ NotifyQueued(l, c) => NotifyQueued(l, c)'
    <3>1. c \in Conns /\ loop[c] = l
      BY <2>1, <2>4 DEF BatchInv, TypeOK
    <3> QED
      BY <2>1, <2>2, <2>3, <3>1, RemoveHandsOver
  <2> QED
    BY <2>1, <2>4, BatchUntouched
<1>8. ASSUME NEW k \in Loops, RunNotify(k) PROVE BatchInv'
  BY <1>8, FunctorKeepsBatch DEF RunNotify, CanRun
<1>9. CASE UNCHANGED vars
  BY <1>9 DEF vars, BatchInv, InTable, NotifyQueued
<1> QED
  BY <1>1, <1>2, <1>3, <1>4, <1>5, <1>6, <1>7, <1>8, <1>9 DEF Next, RunFunctor

\* EventLoop::loop dispatches raw Channel pointers: on a subLoop each of them
\* belongs to a connection that somebody still holds, unless accept has overwritten
\* its entry in connections_.
THEOREM BatchOutlived == SafeSpec => []SubLoopBatchIsAlive
<1>1. Init => TypeOK /\ TableInv /\ BatchInv
  <2>1. Init => BatchInv
    BY DEF Init, BatchInv
  <2> QED
    BY <2>1, InitTypeOK, InitTableInv
<1>2. TypeOK /\ TableInv /\ BatchInv /\ [Next]_vars => (TypeOK /\ TableInv /\ BatchInv)'
  BY NextTypeOK, NextTableInv, NextBatchInv
<1>3. TypeOK /\ BatchInv => SubLoopBatchIsAlive
  <2> SUFFICES ASSUME TypeOK, BatchInv, NEW l \in Loops \ {Main}, NEW c \in batch[l],
                      c \notin replaced
               PROVE  Alive(c)
    BY DEF SubLoopBatchIsAlive
  <2>1. CASE InTable(c)
    BY <2>1 DEF InTable, Alive
  <2>2. CASE NotifyQueued(l, c)
    <3>1. [op |-> "notify", conn |-> c].conn = c
      OBVIOUS
    <3> QED
      BY <2>2, <3>1 DEF NotifyQueued, Alive
  <2> QED
    BY <2>1, <2>2 DEF BatchInv
<1> QED
  BY <1>1, <1>2, <1>3, PTL DEF SafeSpec

=============================================================================
