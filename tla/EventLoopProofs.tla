--------------------------- MODULE EventLoopProofs ---------------------------
(***************************************************************************)
(* What holds of EventLoop for any number of threads, functors and         *)
(* channels: type correctness, no lost wakeup, and that it implements the  *)
(* safety part of TaskExecutor.                                            *)
(***************************************************************************)
EXTENDS EventLoop, SequenceTheorems, TLAPS

-----------------------------------------------------------------------------
(* Type correctness.                                                       *)

\* An element of a sequence over S is an element of S.
LEMMA ElementsInSet ==
    ASSUME NEW S, NEW s \in Seq(S)
    PROVE  Elements(s) \subseteq S
  BY ElementOfSeq, LenProperties DEF Elements

\* Init establishes the types.
LEMMA InitTypeOK == Init => TypeOK
<1> SUFFICES ASSUME Init PROVE TypeOK
  OBVIOUS
<1> USE DEF Init
<1>1. /\ lpc \in LoopPc
      /\ tpc \in [Threads -> ThreadPc]
  BY DEF LoopPc, ThreadPc
<1>2. quit \in BOOLEAN /\ calling \in BOOLEAN
  OBVIOUS
<1>3. pending \in Seq(Functors) /\ functors \in Seq(Functors)
        /\ executed \in Seq(Functors)
  BY EmptySeq
<1>4. QED
  BY <1>1, <1>2, <1>3 DEF TypeOK

\* Every step of the loop thread, of user code, of a signal, of the kernel and
\* of a foreign thread keeps the types.
LEMMA NextTypeOK == TypeOK /\ [Next]_vars => TypeOK'
<1> SUFFICES ASSUME TypeOK, [Next]_vars PROVE TypeOK'
  OBVIOUS
<1> USE DEF TypeOK
<1>1. CASE StartLoop
  BY <1>1 DEF StartLoop, LoopPc
<1>2. CASE TestQuit
  BY <1>2 DEF TestQuit, LoopPc
<1>3. CASE EpollBlock
  BY <1>3 DEF EpollBlock, LoopPc
<1>4. CASE EpollReturn
  BY <1>4 DEF EpollReturn, Reportable, LoopPc
<1>5. CASE HandleWakeup
  BY <1>5 DEF HandleWakeup
<1>6. ASSUME NEW c \in Channels, DispatchIo(c) PROVE TypeOK'
  BY <1>6 DEF DispatchIo, LoopPc
<1>7. CASE CallbackReturn
  BY <1>7 DEF CallbackReturn, LoopPc
<1>8. CASE SwapFunctors
  BY <1>8 DEF SwapFunctors, LoopPc
<1>9. CASE CallFunctor
  BY <1>9, HeadTailProperties DEF CallFunctor, LoopPc
<1>10. CASE FunctorReturn
  BY <1>10 DEF FunctorReturn, LoopPc
<1>11. CASE FunctorsDone
  BY <1>11 DEF FunctorsDone, LoopPc
<1>12. ASSUME NEW f \in Functors, QueueOnLoopThread(f) PROVE TypeOK'
  BY <1>12 DEF QueueOnLoopThread, WriteEventfd
<1>13. ASSUME NEW f \in Functors, RunOnLoopThread(f) PROVE TypeOK'
  BY <1>13 DEF RunOnLoopThread
<1>14. CASE QuitOnLoopThread
  BY <1>14 DEF QuitOnLoopThread
<1>15. CASE SignalQuit
  BY <1>15 DEF SignalQuit, LoopPc
<1>16. ASSUME NEW c \in Channels, IoArrives(c) PROVE TypeOK'
  BY <1>16 DEF IoArrives
<1>17. ASSUME NEW t \in Threads, NEW f \in Functors, QueueFromThread(t, f)
       PROVE  TypeOK'
  BY <1>17 DEF QueueFromThread, ThreadPc
<1>18. ASSUME NEW t \in Threads, QuitFromThread(t) PROVE TypeOK'
  BY <1>18, ElementsInSet DEF QuitFromThread, ThreadPc
<1>19. ASSUME NEW t \in Threads, WakeupFromThread(t) PROVE TypeOK'
  BY <1>19 DEF WakeupFromThread, WriteEventfd, ThreadPc
<1>20. CASE UNCHANGED vars
  BY <1>20 DEF vars
<1>21. QED
  BY <1>1, <1>2, <1>3, <1>4, <1>5, <1>6, <1>7, <1>8, <1>9, <1>10, <1>11,
     <1>12, <1>13, <1>14, <1>15, <1>16, <1>17, <1>18, <1>19, <1>20
  DEF Next, LoopStep, UserCode

\* event_loop.h's variables keep their types whatever the threads do.
THEOREM TypeCorrect == SafeSpec => []TypeOK
  BY InitTypeOK, NextTypeOK, PTL DEF SafeSpec

-----------------------------------------------------------------------------
(* No lost wakeup.                                                         *)

\* Init establishes LoopInv.
LEMMA InitLoopInv == Init => LoopInv
<1> SUFFICES ASSUME Init PROVE LoopInv
  OBVIOUS
<1>1. Elements(pending) \subseteq early
  BY DEF Init, Elements
<1>2. QED
  BY <1>1 DEF Init, LoopInv

\* LoopInv is inductive.  The steps that matter: handle_wakeup clears the
\* counter, but inside the dispatch phase; epoll_wait takes an edge off the
\* ready list, but into the batch; a functor queued by a functor, or by a
\* foreign thread, brings its own write of the eventfd.
LEMMA NextLoopInv == TypeOK /\ LoopInv /\ [Next]_vars => LoopInv'
<1> SUFFICES ASSUME TypeOK, LoopInv, [Next]_vars PROVE LoopInv'
  OBVIOUS
<1> USE DEF LoopInv, TypeOK, Elements
<1>1. CASE StartLoop
  BY <1>1 DEF StartLoop
<1>2. CASE TestQuit
  BY <1>2 DEF TestQuit
<1>3. CASE EpollBlock
  BY <1>3 DEF EpollBlock
<1>4. CASE EpollReturn
  BY <1>4 DEF EpollReturn, Reportable, Readable
<1>5. CASE HandleWakeup
  BY <1>5 DEF HandleWakeup
<1>6. ASSUME NEW c \in Channels, DispatchIo(c) PROVE LoopInv'
  BY <1>6 DEF DispatchIo
<1>7. CASE CallbackReturn
  BY <1>7 DEF CallbackReturn
<1>8. CASE SwapFunctors
  BY <1>8 DEF SwapFunctors
<1>9. CASE CallFunctor
  BY <1>9 DEF CallFunctor
<1>10. CASE FunctorReturn
  BY <1>10 DEF FunctorReturn
<1>11. CASE FunctorsDone
  BY <1>11 DEF FunctorsDone
<1>12. ASSUME NEW f \in Functors, QueueOnLoopThread(f) PROVE LoopInv'
  BY <1>12 DEF QueueOnLoopThread, WriteEventfd, InUserCode
<1>13. ASSUME NEW f \in Functors, RunOnLoopThread(f) PROVE LoopInv'
  BY <1>13 DEF RunOnLoopThread
<1>14. CASE QuitOnLoopThread
  BY <1>14 DEF QuitOnLoopThread
<1>15. CASE SignalQuit
  BY <1>15 DEF SignalQuit
<1>16. ASSUME NEW c \in Channels, IoArrives(c) PROVE LoopInv'
  BY <1>16 DEF IoArrives
<1>17. ASSUME NEW t \in Threads, NEW f \in Functors, QueueFromThread(t, f)
       PROVE  LoopInv'
  BY <1>17 DEF QueueFromThread
<1>18. ASSUME NEW t \in Threads, QuitFromThread(t) PROVE LoopInv'
  BY <1>18 DEF QuitFromThread
<1>19. ASSUME NEW t \in Threads, WakeupFromThread(t) PROVE LoopInv'
  BY <1>19 DEF WakeupFromThread, WriteEventfd
<1>20. CASE UNCHANGED vars
  BY <1>20 DEF vars
<1>21. QED
  BY <1>1, <1>2, <1>3, <1>4, <1>5, <1>6, <1>7, <1>8, <1>9, <1>10, <1>11,
     <1>12, <1>13, <1>14, <1>15, <1>16, <1>17, <1>18, <1>19, <1>20
  DEF Next, LoopStep, UserCode

\* LoopInv holds in every reachable state.
LEMMA LoopInvIsInvariant == SafeSpec => [](TypeOK /\ LoopInv)
<1>1. Init => TypeOK /\ LoopInv
  BY InitTypeOK, InitLoopInv
<1>2. TypeOK /\ LoopInv /\ [Next]_vars => (TypeOK /\ LoopInv)'
  BY NextTypeOK, NextLoopInv
<1>3. QED
  BY <1>1, <1>2, PTL DEF SafeSpec

\* queue_in_loop never loses a wakeup: with a functor queued that was posted by
\* another thread, or by code the loop runs, the loop thread is asleep in
\* epoll_wait, or about to sleep, only if epoll is going to report the wakeup
\* channel or a thread is about to write the eventfd.  Only functors that the
\* owner thread queued before loop() have nobody to wake the loop for them.
THEOREM WakeupNotLost == SafeSpec => []NoLostWakeup
<1>1. TypeOK /\ LoopInv => NoLostWakeup
  BY DEF TypeOK, LoopInv, NoLostWakeup, Reportable, Readable
<1>2. QED
  BY <1>1, LoopInvIsInvariant, PTL

-----------------------------------------------------------------------------
(* EventLoop implements TaskExecutor.                                      *)

\* What a concatenation contains.
LEMMA ElementsOfConcat ==
    ASSUME NEW S, NEW s \in Seq(S), NEW t \in Seq(S)
    PROVE  TE!Elements(s \o t) = Elements(s) \cup Elements(t)
<1> DEFINE st == s \o t
<1>1. /\ st \in Seq(S)
      /\ Len(st) = Len(s) + Len(t)
      /\ \A i \in 1 .. Len(s) + Len(t) :
            st[i] = IF i <= Len(s) THEN s[i] ELSE t[i - Len(s)]
  BY ConcatProperties
<1>2. /\ DOMAIN s = 1 .. Len(s) /\ Len(s) \in Nat
      /\ DOMAIN t = 1 .. Len(t) /\ Len(t) \in Nat
      /\ DOMAIN st = 1 .. Len(st)
  BY <1>1, LenProperties
<1> HIDE DEF st
<1>3. ASSUME NEW i \in DOMAIN st PROVE st[i] \in Elements(s) \cup Elements(t)
  <2>1. CASE i <= Len(s)
    BY <1>1, <1>2, <2>1 DEF Elements
  <2>2. CASE ~(i <= Len(s))
    <3>1. i - Len(s) \in DOMAIN t /\ st[i] = t[i - Len(s)]
      BY <1>1, <1>2, <2>2
    <3>2. QED
      BY <3>1 DEF Elements
  <2>3. QED
    BY <2>1, <2>2
<1>4. ASSUME NEW i \in DOMAIN s PROVE \E j \in DOMAIN st : st[j] = s[i]
  BY <1>1, <1>2
<1>5. ASSUME NEW i \in DOMAIN t PROVE \E j \in DOMAIN st : st[j] = t[i]
  <2>1. /\ i + Len(s) \in DOMAIN st
        /\ ~(i + Len(s) <= Len(s))
        /\ (i + Len(s)) - Len(s) = i
    BY <1>1, <1>2
  <2>2. st[i + Len(s)] = t[i]
    BY <1>1, <1>2, <2>1
  <2>3. QED
    BY <2>1, <2>2
<1>6. {st[i] : i \in DOMAIN st} = Elements(s) \cup Elements(t)
  BY <1>3, <1>4, <1>5 DEF Elements
<1>7. QED
  BY <1>6 DEF TE!Elements, st

\* Appending to the second part appends to the whole.
LEMMA AppendToConcat ==
    ASSUME NEW S, NEW s \in Seq(S), NEW t \in Seq(S), NEW e \in S
    PROVE  s \o Append(t, e) = Append(s \o t, e)
<1>1. <<e>> \in Seq(S)
  OBVIOUS
<1>2. Append(t, e) = t \o <<e>> /\ s \o t \in Seq(S)
  BY AppendIsConcat, ConcatProperties
<1>3. (s \o t) \o <<e>> = s \o (t \o <<e>>)
  BY <1>1, ConcatAssociative
<1>4. QED
  BY <1>2, <1>3, AppendIsConcat

\* Taking the head of a non-empty first part takes the head of the whole.
LEMMA HeadOfConcat ==
    ASSUME NEW S, NEW s \in Seq(S), NEW t \in Seq(S), s # <<>>
    PROVE  /\ s \o t # <<>>
           /\ Head(s \o t) = Head(s)
           /\ Tail(s \o t) = Tail(s) \o t
<1> DEFINE st == s \o t
<1>1. /\ st \in Seq(S)
      /\ Len(st) = Len(s) + Len(t)
      /\ \A i \in 1 .. Len(s) + Len(t) :
            st[i] = IF i <= Len(s) THEN s[i] ELSE t[i - Len(s)]
  BY ConcatProperties
<1>2. Len(s) \in Nat \ {0} /\ Len(t) \in Nat
  BY EmptySeq, LenProperties
<1> HIDE DEF st
<1>3. st # <<>>
  BY <1>1, <1>2, EmptySeq
<1>4. st[1] = s[1]
  BY <1>1, <1>2
<1>5. Head(st) = Head(s)
  BY <1>4
<1>6. /\ Tail(s) \in Seq(S) /\ Len(Tail(s)) = Len(s) - 1
      /\ \A i \in 1 .. Len(Tail(s)) : Tail(s)[i] = s[i + 1]
      /\ Tail(st) \in Seq(S) /\ Len(Tail(st)) = Len(st) - 1
      /\ \A i \in 1 .. Len(Tail(st)) : Tail(st)[i] = st[i + 1]
  BY <1>1, <1>3, HeadTailProperties
<1> DEFINE ts == Tail(s)
           u == ts \o t
<1>7. /\ u \in Seq(S)
      /\ Len(u) = Len(ts) + Len(t)
      /\ \A i \in 1 .. Len(ts) + Len(t) :
            u[i] = IF i <= Len(ts) THEN ts[i] ELSE t[i - Len(ts)]
  BY <1>6, ConcatProperties
<1>8. Len(Tail(st)) = Len(u)
  BY <1>1, <1>2, <1>6, <1>7
<1>9. ASSUME NEW i \in 1 .. Len(u) PROVE Tail(st)[i] = u[i]
  <2> HIDE DEF u
  <2>1. i \in 1 .. Len(s) + Len(t) - 1 /\ Tail(st)[i] = st[i + 1]
    BY <1>1, <1>2, <1>6, <1>7, <1>8
  <2>2. CASE i <= Len(s) - 1
    BY <1>1, <1>2, <1>6, <1>7, <2>1, <2>2
  <2>3. CASE ~(i <= Len(s) - 1)
    <3>1. st[i + 1] = t[(i + 1) - Len(s)]
      BY <1>1, <1>2, <2>1, <2>3
    <3>2. u[i] = t[i - (Len(s) - 1)]
      BY <1>2, <1>6, <1>7, <2>1, <2>3
    <3>3. (i + 1) - Len(s) = i - (Len(s) - 1)
      BY <1>2, <2>1
    <3>4. QED
      BY <2>1, <3>1, <3>2, <3>3
  <2>4. QED
    BY <2>2, <2>3
<1>10. Tail(st) = u
  <2> HIDE DEF u
  <2>1. QED
    BY <1>6, <1>7, <1>8, <1>9, SeqEqual
<1>11. QED
  BY <1>3, <1>5, <1>10 DEF st

\* A functor not yet posted to the loop is not yet posted to the executor.
LEMMA FreshIsFresh ==
    ASSUME TypeOK, NEW f
    PROVE  Fresh(f) => TE!Fresh(f)
<1>1. TE!Elements(functors \o pending) = Elements(functors) \cup Elements(pending)
  BY ElementsOfConcat DEF TypeOK
<1>2. TE!Elements(executed) = Elements(executed)
  BY DEF TE!Elements, Elements
<1>3. QED
  BY <1>1, <1>2 DEF Fresh, TE!Fresh

\* A post appends to the executor's queue, from whichever thread it comes.
LEMMA PostRefines ==
    ASSUME TypeOK, NEW f \in Functors, Fresh(f),
           pending' = Append(pending, f),
           UNCHANGED <<lpc, functors, executed, inline>>
    PROVE  /\ UNCHANGED early => TE!Post(f)
           /\ executed = <<>> /\ early' = early \cup {f} => TE!PostEarly(f)
<1>1. (functors \o pending)' = Append(functors \o pending, f)
  BY AppendToConcat DEF TypeOK
<1>2. QED
  BY <1>1, FreshIsFresh DEF TE!Post, TE!PostEarly

\* Init establishes the executor's initial state.
LEMMA InitRefines == Init => TE!Init
<1> SUFFICES ASSUME Init PROVE TE!Init
  OBVIOUS
<1>1. functors \o pending = <<>>
  BY ConcatEmptySeq, EmptySeq DEF Init
<1>2. QED
  BY <1>1 DEF Init, TE!Init

\* Every step of the event loop is a step of the executor or leaves it alone.
LEMMA NextRefines ==
    TypeOK /\ LoopInv /\ [Next]_vars => [TE!Next]_(TE!vars)
<1> SUFFICES ASSUME TypeOK, LoopInv, [Next]_vars
             PROVE  TE!Next \/ UNCHANGED TE!vars
  BY DEF TE!vars
<1> DEFINE Idle == UNCHANGED <<lpc, pending, functors, executed, inline, early>>
<1>1. Idle => UNCHANGED TE!vars
  BY DEF TE!vars
<1>2. CASE StartLoop
  BY <1>2 DEF StartLoop, TE!vars
<1>3. CASE TestQuit
  <2>1. CASE quit
    BY <1>3, <2>1 DEF TestQuit, TE!Stop, TE!Next
  <2>2. CASE ~quit
    BY <1>3, <2>2 DEF TestQuit, TE!vars
  <2>3. QED
    BY <2>1, <2>2
<1>4. CASE EpollBlock
  BY <1>4 DEF EpollBlock, TE!vars
<1>5. CASE EpollReturn
  BY <1>5 DEF EpollReturn, TE!vars
<1>6. CASE HandleWakeup
  BY <1>1, <1>6 DEF HandleWakeup
<1>7. ASSUME NEW c \in Channels, DispatchIo(c) PROVE UNCHANGED TE!vars
  BY <1>7 DEF DispatchIo, TE!vars
<1>8. CASE CallbackReturn
  BY <1>8 DEF CallbackReturn, TE!vars
<1>9. CASE SwapFunctors
  <2>1. functors = <<>>
    BY <1>9 DEF SwapFunctors, LoopInv
  <2>2. (functors \o pending)' = functors \o pending
    BY <1>9, <2>1, ConcatEmptySeq DEF SwapFunctors, TypeOK
  <2>3. QED
    BY <1>9, <2>2 DEF SwapFunctors, TE!vars
<1>10. CASE CallFunctor
  <2>1. /\ functors \o pending # <<>>
        /\ Head(functors \o pending) = Head(functors)
        /\ Tail(functors \o pending) = (functors \o pending)'
    BY <1>10, HeadOfConcat DEF CallFunctor, TypeOK
  <2>2. TE!Run
    BY <1>10, <2>1 DEF CallFunctor, TE!Run
  <2>3. QED
    BY <2>2 DEF TE!Next
<1>11. CASE FunctorReturn
  BY <1>11 DEF FunctorReturn, TE!vars
<1>12. CASE FunctorsDone
  BY <1>12 DEF FunctorsDone, TE!vars
<1>13. ASSUME NEW f \in Functors, QueueOnLoopThread(f) PROVE TE!Next
  <2>1. CASE lpc = "pre"
    <3>1. executed = <<>> /\ early' = early \cup {f}
      BY <1>13, <2>1 DEF QueueOnLoopThread, LoopInv
    <3>2. TE!PostEarly(f)
      BY <1>13, <3>1, PostRefines DEF QueueOnLoopThread
    <3>3. QED
      BY <3>2 DEF TE!Next
  <2>2. CASE lpc # "pre"
    <3>1. TE!Post(f)
      BY <1>13, <2>2, PostRefines DEF QueueOnLoopThread
    <3>2. QED
      BY <3>1 DEF TE!Next
  <2>3. QED
    BY <2>1, <2>2
<1>14. ASSUME NEW f \in Functors, RunOnLoopThread(f) PROVE TE!Next
  <2>1. TE!RunNow(f)
    BY <1>14, FreshIsFresh DEF RunOnLoopThread, InUserCode, TE!RunNow
  <2>2. QED
    BY <2>1 DEF TE!Next
<1>15. CASE QuitOnLoopThread
  BY <1>1, <1>15 DEF QuitOnLoopThread
<1>16. CASE SignalQuit
  BY <1>16 DEF SignalQuit, TE!vars
<1>17. ASSUME NEW c \in Channels, IoArrives(c) PROVE UNCHANGED TE!vars
  BY <1>1, <1>17 DEF IoArrives
<1>18. ASSUME NEW t \in Threads, NEW f \in Functors, QueueFromThread(t, f)
       PROVE  TE!Next
  BY <1>18, PostRefines DEF QueueFromThread, TE!Next
<1>19. ASSUME NEW t \in Threads, QuitFromThread(t) PROVE UNCHANGED TE!vars
  BY <1>1, <1>19 DEF QuitFromThread
<1>20. ASSUME NEW t \in Threads, WakeupFromThread(t) PROVE UNCHANGED TE!vars
  BY <1>1, <1>20 DEF WakeupFromThread
<1>21. CASE UNCHANGED vars
  BY <1>1, <1>21 DEF vars
<1>22. QED
  BY <1>2, <1>3, <1>4, <1>5, <1>6, <1>7, <1>8, <1>9, <1>10, <1>11, <1>12,
     <1>13, <1>14, <1>15, <1>16, <1>17, <1>18, <1>19, <1>20, <1>21
  DEF Next, LoopStep, UserCode

\* The event loop runs every posted functor at most once, in the order of
\* posting, and none after loop() has returned, for any number of threads.
THEOREM RefinesTaskExecutor == SafeSpec => ImplementsTaskExecutorSafely
  BY InitRefines, NextRefines, LoopInvIsInvariant, PTL
  DEF SafeSpec, ImplementsTaskExecutorSafely, TE!SafeSpec

=============================================================================
