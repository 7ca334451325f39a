--------------------------- MODULE LogSenderProofs ---------------------------
(***************************************************************************)
(* What holds of a LogSender for any number of threads, every option, and  *)
(* any number of messages and failed connections: types, that a sender     *)
(* that holds back is always going to be told to go on, and that every     *)
(* message stays in one place and every drop is counted or reported.       *)
(***************************************************************************)
EXTENDS LogSender, SequenceTheorems, WellFoundedInduction, FiniteSetTheorems, TLAPS

Kinds == {"start", "stop", "wake", "high_water", "write_complete"}

-----------------------------------------------------------------------------
(* The invariant.                                                          *)

QueueType ==
    /\ queue \in MsgSeq /\ Len(queue) <= queue_capacity
    /\ has_pending \in BOOLEAN /\ dropped \in Nat

CallerType ==
    /\ tpc \in [Threads -> {"idle", "push", "wake"}]
    /\ g_instance \in BOOLEAN
    /\ opc \in {"created", "starting", "running", "closing", "waiting", "stopped",
                "destroyed"}
    /\ refused \subseteq Nat /\ pushed \in Nat

\* tick_timer_id_ names a timer that is set, so cancelling it leaves no fewer than none.
TickType ==
    /\ started \in BOOLEAN /\ stopped \in BOOLEAN
    /\ ticks \in Nat /\ tick_timer_id \in BOOLEAN
    /\ tick_timer_id => ticks > 0

ConnType ==
    /\ client \in {"idle", "trying", "up", "gone"}
    /\ paused \in BOOLEAN
    /\ out \in MsgSeq /\ wire \in MsgSeq /\ lost \in MsgSeq /\ discarded \in MsgSeq
    /\ losses \in Nat

HasStart(fs) == \E i \in DOMAIN fs : fs[i] = "start"
HasComplete(fs) == \E i \in DOMAIN fs : fs[i] = "write_complete"
StartsOnce(fs) == \A i, j \in DOMAIN fs : fs[i] = "start" /\ fs[j] = "start" => i = j

\* Behind every high_water among the functors fs comes a write_complete, if the
\* buffer o is empty.
Answered(fs, o) ==
    \A i \in DOMAIN fs : fs[i] = "high_water" =>
        o # <<>> \/ \E j \in DOMAIN fs : j > i /\ fs[j] = "write_complete"

\* The client is started once, before it has a connection.
Begin ==
    /\ StartsOnce(functors)
    /\ HasStart(functors) => client \in {"idle", "gone"}
    /\ opc = "created" => client \in {"idle", "gone"} /\ ~HasStart(functors)

\* The buffer is a connection's; a high_water that ran or is about to run is
\* answered by bytes that wait or by a write_complete posted after it.
Lift ==
    /\ client # "up" => out = <<>>
    /\ client = "up" => Answered(functors, out)
    /\ client = "up" /\ paused => out # <<>> \/ HasComplete(functors)

SenderInv ==
    /\ QueueType /\ CallerType /\ TickType /\ ConnType
    /\ functors \in Seq(Kinds)
    /\ fault \in {"none", "null_connection", "destroyed"}
    /\ Begin /\ Lift

-----------------------------------------------------------------------------
(* Functors.                                                               *)

\* The functors after the first is taken.
LEMMA Taken ==
    ASSUME NEW fs \in Seq(Kinds), fs # <<>>, NEW o
    PROVE  /\ Tail(fs) \in Seq(Kinds)
           /\ HasStart(Tail(fs)) => HasStart(fs)
           /\ StartsOnce(fs) => StartsOnce(Tail(fs))
           /\ StartsOnce(fs) /\ fs[1] = "start" => ~HasStart(Tail(fs))
           /\ fs[1] = "start" => HasStart(fs)
           /\ Answered(fs, o) => Answered(Tail(fs), o)
           /\ fs[1] # "write_complete" /\ HasComplete(fs) => HasComplete(Tail(fs))
           /\ fs[1] = "high_water" /\ Answered(fs, o) => o # <<>> \/ HasComplete(Tail(fs))
<1> DEFINE t == Tail(fs)
<1>1. /\ t \in Seq(Kinds) /\ Len(fs) \in Nat \ {0}
      /\ DOMAIN fs = 1 .. Len(fs) /\ DOMAIN t = 1 .. Len(fs) - 1
      /\ \A i \in 1 .. Len(fs) - 1 : t[i] = fs[i + 1]
  BY HeadTailProperties, LenProperties, EmptySeq
<1> HIDE DEF t
<1>2. \A i \in DOMAIN t : i + 1 \in DOMAIN fs /\ t[i] = fs[i + 1] /\ i + 1 # 1 /\ i \in Int
  BY <1>1
<1>3. 1 \in DOMAIN fs
  BY <1>1
<1>4. \A j \in DOMAIN fs : j = 1 \/ (j - 1 \in DOMAIN t /\ t[j - 1] = fs[j])
  <2> SUFFICES ASSUME NEW j \in DOMAIN fs, j # 1
               PROVE  j - 1 \in DOMAIN t /\ t[j - 1] = fs[j]
    OBVIOUS
  <2>1. j - 1 \in 1 .. Len(fs) - 1 /\ (j - 1) + 1 = j
    BY <1>1
  <2> QED
    BY <1>1, <2>1
<1>5. HasStart(t) => HasStart(fs)
  BY <1>2 DEF HasStart
<1>6. StartsOnce(fs) => StartsOnce(t)
  <2> SUFFICES ASSUME StartsOnce(fs), NEW i \in DOMAIN t, NEW j \in DOMAIN t,
                      t[i] = "start", t[j] = "start"
               PROVE  i = j
    BY DEF StartsOnce
  <2>1. i + 1 = j + 1
    BY <1>2 DEF StartsOnce
  <2> QED
    BY <1>2, <2>1
<1>7. StartsOnce(fs) /\ fs[1] = "start" => ~HasStart(t)
  BY <1>2, <1>3 DEF StartsOnce, HasStart
<1>8. fs[1] = "start" => HasStart(fs)
  BY <1>3 DEF HasStart
<1>9. Answered(fs, o) => Answered(t, o)
  <2> SUFFICES ASSUME Answered(fs, o), NEW i \in DOMAIN t, t[i] = "high_water", o = <<>>
               PROVE  \E j \in DOMAIN t : j > i /\ t[j] = "write_complete"
    BY DEF Answered
  <2>1. PICK j \in DOMAIN fs : j > i + 1 /\ fs[j] = "write_complete"
    BY <1>2 DEF Answered
  <2>2. j - 1 \in DOMAIN t /\ t[j - 1] = fs[j]
    BY <1>1, <1>4, <2>1
  <2>3. j - 1 > i
    BY <1>1, <2>1
  <2> QED
    BY <2>1, <2>2, <2>3
<1>10. fs[1] # "write_complete" /\ HasComplete(fs) => HasComplete(t)
  BY <1>4 DEF HasComplete
<1>11. fs[1] = "high_water" /\ Answered(fs, o) => o # <<>> \/ HasComplete(t)
  <2> SUFFICES ASSUME fs[1] = "high_water", Answered(fs, o), o = <<>> PROVE HasComplete(t)
    OBVIOUS
  <2>1. PICK j \in DOMAIN fs : j > 1 /\ fs[j] = "write_complete"
    BY <1>3 DEF Answered
  <2>2. j # 1
    BY <2>1
  <2> QED
    BY <1>4, <2>1, <2>2 DEF HasComplete
<1> QED
  BY <1>1, <1>5, <1>6, <1>7, <1>8, <1>9, <1>10, <1>11 DEF t

\* The functors after one is posted.
LEMMA Posted ==
    ASSUME NEW fs \in Seq(Kinds), NEW f \in Kinds, NEW o
    PROVE  /\ Append(fs, f) \in Seq(Kinds)
           /\ f # "start" /\ HasStart(Append(fs, f)) => HasStart(fs)
           /\ f # "start" /\ StartsOnce(fs) => StartsOnce(Append(fs, f))
           /\ ~HasStart(fs) => StartsOnce(Append(fs, f))
           /\ HasComplete(fs) => HasComplete(Append(fs, f))
           /\ f # "high_water" /\ Answered(fs, o) => Answered(Append(fs, f), o)
           /\ f = "write_complete" => HasComplete(Append(fs, f)) /\ Answered(Append(fs, f), o)
<1> DEFINE t == Append(fs, f)
<1>1. /\ t \in Seq(Kinds) /\ Len(fs) \in Nat
      /\ DOMAIN fs = 1 .. Len(fs) /\ DOMAIN t = 1 .. Len(fs) + 1
      /\ \A i \in 1 .. Len(fs) : t[i] = fs[i]
      /\ t[Len(fs) + 1] = f
  BY AppendProperties, LenProperties
<1> DEFINE m == Len(fs) + 1
<1>2. /\ m \in DOMAIN t /\ t[m] = f
      /\ \A i \in DOMAIN fs : i \in DOMAIN t /\ t[i] = fs[i] /\ m > i
      /\ \A i \in DOMAIN t : i = m \/ i \in DOMAIN fs
  BY <1>1
<1> HIDE DEF t, m
<1>3. f # "start" /\ HasStart(t) => HasStart(fs)
  BY <1>2 DEF HasStart
<1>4. f # "start" /\ StartsOnce(fs) => StartsOnce(t)
  BY <1>2 DEF StartsOnce
<1>5. ~HasStart(fs) => StartsOnce(t)
  BY <1>2 DEF HasStart, StartsOnce
<1>6. HasComplete(fs) => HasComplete(t)
  BY <1>2 DEF HasComplete
<1>7. f # "high_water" /\ Answered(fs, o) => Answered(t, o)
  <2> SUFFICES ASSUME f # "high_water", Answered(fs, o), NEW i \in DOMAIN t,
                      t[i] = "high_water", o = <<>>
               PROVE  \E j \in DOMAIN t : j > i /\ t[j] = "write_complete"
    BY DEF Answered
  <2>1. i \in DOMAIN fs /\ fs[i] = "high_water"
    BY <1>2
  <2>2. PICK j \in DOMAIN fs : j > i /\ fs[j] = "write_complete"
    BY <2>1 DEF Answered
  <2> QED
    BY <1>2, <2>2
<1>8. f = "write_complete" => HasComplete(t) /\ Answered(t, o)
  <2> SUFFICES ASSUME f = "write_complete" PROVE HasComplete(t) /\ Answered(t, o)
    OBVIOUS
  <2>1. HasComplete(t)
    BY <1>2 DEF HasComplete
  <2>2. ASSUME NEW i \in DOMAIN t, t[i] = "high_water"
        PROVE  \E j \in DOMAIN t : j > i /\ t[j] = "write_complete"
    <3>1. i \in DOMAIN fs
      BY <1>2, <2>2
    <3> QED
      BY <1>2, <3>1
  <2> QED
    BY <2>1, <2>2 DEF Answered
<1> QED
  BY <1>1, <1>3, <1>4, <1>5, <1>6, <1>7, <1>8 DEF t

\* Bytes that wait answer everything.
LEMMA BytesAnswer ==
    ASSUME NEW fs, NEW o, NEW p
    PROVE  /\ o # <<>> => Answered(fs, o)
           /\ (o # <<>> => p # <<>>) /\ Answered(fs, o) => Answered(fs, p)
  BY DEF Answered

-----------------------------------------------------------------------------
(* Messages.                                                               *)

\* The parts of a sequence of messages.
LEMMA Pieces ==
    ASSUME NEW s \in MsgSeq, NEW k \in Nat
    PROVE  /\ SubSeq(s, k + 1, Len(s)) \in MsgSeq
           /\ Len(SubSeq(s, k + 1, Len(s))) = IF k < Len(s) THEN Len(s) - k ELSE 0
           /\ k <= Len(s) => SubSeq(s, 1, k) \in MsgSeq
<1> DEFINE S == [kind : {"item", "dropped"}, n : Nat]
<1> HIDE DEF S
<1>1. s \in Seq(S) /\ MsgSeq = Seq(S)
  BY DEF MsgSeq, S
<1>2. Len(s) \in Nat /\ \A i \in 1 .. Len(s) : s[i] \in S
  BY <1>1, ElementOfSeq, LenProperties
<1>3. \A i \in k + 1 .. Len(s) : s[i] \in S
  BY <1>2
<1>4. /\ SubSeq(s, k + 1, Len(s)) \in Seq(S)
      /\ Len(SubSeq(s, k + 1, Len(s))) =
           IF k + 1 <= Len(s) THEN Len(s) - (k + 1) + 1 ELSE 0
  BY <1>2, <1>3, SubSeqProperties
<1>5. k <= Len(s) => SubSeq(s, 1, k) \in Seq(S)
  <2> SUFFICES ASSUME k <= Len(s) PROVE SubSeq(s, 1, k) \in Seq(S)
    OBVIOUS
  <2>1. \A i \in 1 .. k : s[i] \in S
    BY <1>2
  <2> QED
    BY <2>1, SubSeqProperties
<1> QED
  BY <1>1, <1>2, <1>4, <1>5

\* Joining sequences of messages.
LEMMA Joined ==
    ASSUME NEW s \in MsgSeq, NEW t \in MsgSeq
    PROVE  /\ s \o t \in MsgSeq
           /\ s # <<>> => s \o t # <<>>
           /\ <<>> \in MsgSeq /\ Len(s) \in Nat
<1> DEFINE S == [kind : {"item", "dropped"}, n : Nat]
<1> HIDE DEF S
<1>1. s \in Seq(S) /\ t \in Seq(S) /\ MsgSeq = Seq(S)
  BY DEF MsgSeq, S
<1>2. s \o t \in Seq(S) /\ Len(s \o t) = Len(s) + Len(t) /\ Len(s) \in Nat /\ Len(t) \in Nat
  BY <1>1, ConcatProperties, LenProperties
<1>3. s # <<>> => s \o t # <<>>
  BY <1>1, <1>2, EmptySeq
<1> QED
  BY <1>1, <1>2, <1>3, EmptySeq

LEMMA BatchType ==
    ASSUME QueueType
    PROVE  Batch \in MsgSeq
<1>1. queue \in MsgSeq /\ dropped \in Nat /\ max_batch \in Nat
  BY OptionsArePositive DEF QueueType
<1> DEFINE k == IF Len(queue) < max_batch THEN Len(queue) ELSE max_batch
           r == IF dropped > 0 THEN <<LogDropped(dropped)>> ELSE <<>>
<1>2. k \in Nat /\ k <= Len(queue)
  BY <1>1, Joined
<1> HIDE DEF k
<1>3. SubSeq(queue, 1, k) \in MsgSeq
  BY <1>1, <1>2, Pieces
<1>4. r \in MsgSeq
  <2> DEFINE S == [kind : {"item", "dropped"}, n : Nat]
  <2>1. LogDropped(dropped) \in S
    BY <1>1 DEF LogDropped
  <2>2. MsgSeq = Seq(S)
    BY DEF MsgSeq
  <2> HIDE DEF S
  <2> QED
    BY <2>1, <2>2
<1>5. r \o SubSeq(queue, 1, k) \in MsgSeq
  BY <1>3, <1>4, Joined
<1> QED
  BY <1>5 DEF Batch, k

LEMMA DrainKeeps ==
    ASSUME QueueType, Drain
    PROVE  QueueType'
<1>1. /\ queue \in MsgSeq /\ Len(queue) <= queue_capacity /\ max_batch \in Nat
      /\ Len(queue) \in Nat /\ queue_capacity \in Nat
  BY Joined, OptionsArePositive DEF QueueType
<1>2. queue' = SubSeq(queue, max_batch + 1, Len(queue)) /\ dropped' = 0
  BY DEF Drain
<1>3. /\ queue' \in MsgSeq
      /\ Len(queue') = IF max_batch < Len(queue) THEN Len(queue) - max_batch ELSE 0
  BY <1>1, <1>2, Pieces
<1>4. Len(queue') <= queue_capacity
  BY <1>1, <1>3
<1>5. has_pending' \in BOOLEAN
  BY DEF Drain, QueueType
<1> QED
  BY <1>2, <1>3, <1>4, <1>5 DEF QueueType
-----------------------------------------------------------------------------
(* Steps that leave a part alone.                                          *)

LEMMA QueueFrame == QueueType /\ UNCHANGED queueVars => QueueType'
  BY DEF QueueType, queueVars

LEMMA CallerFrame == CallerType /\ UNCHANGED callerVars => CallerType'
  BY DEF CallerType, callerVars

LEMMA TickFrame == TickType /\ UNCHANGED tickVars => TickType'
  BY DEF TickType, tickVars

LEMMA ConnFrame == ConnType /\ UNCHANGED connVars => ConnType'
  BY DEF ConnType, connVars

\* A step that does not touch the connection, and takes or posts a functor that is
\* not one of the connection's.
LEMMA ConnectionLeftAlone ==
    ASSUME SenderInv, UNCHANGED connVars,
           \/ functors' = functors
           \/ functors # <<>> /\ functors[1] \in {"wake", "stop"} /\ functors' = Tail(functors)
           \/ \E f \in {"wake", "stop"} : functors' = Append(functors, f),
           opc' = "created" => opc = "created"
    PROVE  functors' \in Seq(Kinds) /\ Begin' /\ Lift' /\ ConnType'
<1>1. /\ functors \in Seq(Kinds) /\ UNCHANGED <<client, paused, out>>
  BY DEF SenderInv, connVars
<1>2. /\ functors' \in Seq(Kinds)
      /\ HasStart(functors') => HasStart(functors)
      /\ StartsOnce(functors) => StartsOnce(functors')
      /\ Answered(functors, out) => Answered(functors', out)
      /\ HasComplete(functors) => HasComplete(functors')
  <2>1. CASE functors' = functors
    BY <1>1, <2>1
  <2>2. CASE functors # <<>> /\ functors[1] \in {"wake", "stop"} /\ functors' = Tail(functors)
    BY <1>1, <2>2, Taken
  <2>3. ASSUME NEW f \in {"wake", "stop"}, functors' = Append(functors, f)
        PROVE  /\ functors' \in Seq(Kinds)
               /\ HasStart(functors') => HasStart(functors)
               /\ StartsOnce(functors) => StartsOnce(functors')
               /\ Answered(functors, out) => Answered(functors', out)
               /\ HasComplete(functors) => HasComplete(functors')
    <3>1. f \in Kinds
      BY DEF Kinds
    <3> QED
      BY <1>1, <2>3, <3>1, Posted
  <2> QED
    BY <2>1, <2>2, <2>3
<1>3. Begin'
  BY <1>1, <1>2 DEF SenderInv, Begin
<1>4. Lift'
  BY <1>1, <1>2 DEF SenderInv, Lift
<1>5. ConnType'
  BY ConnFrame DEF SenderInv
<1> QED
  BY <1>2, <1>3, <1>4, <1>5

-----------------------------------------------------------------------------
(* The threads that log, and the owner.                                    *)

LEMMA CallersKeep ==
    ASSUME SenderInv, NEW t \in Threads, Log(t) \/ push(t) \/ PostWake(t)
    PROVE  SenderInv'
<1>1. TickType' /\ fault' \in {"none", "null_connection", "destroyed"}
  <2>1. UNCHANGED tickVars /\ fault' = fault
    BY DEF Log, push, PostWake
  <2> QED
    BY <2>1, TickFrame DEF SenderInv
<1>2. functors' \in Seq(Kinds) /\ Begin' /\ Lift' /\ ConnType'
  <2>1. /\ UNCHANGED connVars /\ opc' = opc
        /\ functors' = functors \/ functors' = Append(functors, "wake")
    BY DEF Log, push, PostWake
  <2> QED
    BY <2>1, ConnectionLeftAlone
<1>3. CASE Log(t) \/ PostWake(t)
  <2>1. QueueType'
    <3>1. UNCHANGED queueVars
      BY <1>3 DEF Log, PostWake
    <3> QED
      BY <3>1, QueueFrame DEF SenderInv
  <2>2. CallerType'
    BY <1>3 DEF SenderInv, CallerType, Log, PostWake
  <2> QED
    BY <1>1, <1>2, <2>1, <2>2 DEF SenderInv
<1>4. CASE push(t)
  <2>1. pushed \in Nat /\ pushed' = pushed + 1 /\ pushed' \in Nat
    BY <1>4 DEF SenderInv, CallerType, push
  <2>2. tpc' \in [Threads -> {"idle", "push", "wake"}]
    <3>1. \/ tpc' = [tpc EXCEPT ![t] = "idle"]
          \/ tpc' = [tpc EXCEPT ![t] = "wake"]
      BY <1>4 DEF push
    <3> QED
      BY <3>1 DEF SenderInv, CallerType
  <2>3. CallerType'
    BY <1>4, <2>1, <2>2 DEF SenderInv, CallerType, push
  <2>4. CASE /\ dropped' = dropped + 1 /\ UNCHANGED <<queue, has_pending>>
    <3>1. dropped' \in Nat
      BY <2>4 DEF SenderInv, QueueType
    <3>2. QueueType'
      BY <2>4, <3>1 DEF SenderInv, QueueType
    <3> QED
      BY <1>1, <1>2, <2>3, <3>2 DEF SenderInv
  <2>5. CASE /\ Len(queue) < queue_capacity /\ queue' = Append(queue, Item(pushed'))
             /\ has_pending' = TRUE /\ dropped' = dropped
    <3> DEFINE S == [kind : {"item", "dropped"}, n : Nat]
    <3>1. Item(pushed') \in S
      BY <2>1 DEF Item
    <3>2. MsgSeq = Seq(S)
      BY DEF MsgSeq
    <3> HIDE DEF S
    <3>3. queue \in Seq(S) /\ Len(queue) \in Nat /\ queue_capacity \in Nat
      BY <3>2, OptionsArePositive, LenProperties DEF SenderInv, QueueType
    <3>4. queue' \in Seq(S) /\ Len(queue') = Len(queue) + 1
      BY <2>5, <3>1, <3>3, AppendProperties
    <3>5. Len(queue') <= queue_capacity
      BY <2>5, <3>3, <3>4
    <3>6. QueueType'
      BY <2>5, <3>2, <3>4, <3>5 DEF SenderInv, QueueType
    <3> QED
      BY <1>1, <1>2, <2>3, <3>6 DEF SenderInv
  <2> QED
    BY <1>4, <2>4, <2>5 DEF push
<1> QED
  BY <1>3, <1>4

LEMMA OwnerKeeps ==
    ASSUME SenderInv, start \/ set_global \/ stop \/ Destroy
    PROVE  SenderInv'
<1>1. /\ UNCHANGED queueVars /\ UNCHANGED tickVars /\ UNCHANGED connVars
      /\ fault' = fault /\ UNCHANGED <<tpc, refused, pushed>>
      /\ opc' \in {"starting", "running", "closing", "waiting", "destroyed"}
      /\ g_instance' \in {g_instance, TRUE, FALSE}
  BY DEF start, set_global, stop, Destroy, Owner
<1>2. QueueType' /\ TickType' /\ CallerType' /\ ConnType'
  BY <1>1, QueueFrame, TickFrame, ConnFrame DEF SenderInv, CallerType
<1>3. CASE start
  <2>1. opc = "created" /\ functors' = Append(functors, "start") /\ UNCHANGED <<client, out>>
    BY <1>1, <1>3 DEF start, Owner, connVars
  <2>2. client \in {"idle", "gone"} /\ ~HasStart(functors) /\ functors \in Seq(Kinds)
    BY <2>1 DEF SenderInv, Begin
  <2>3. functors' \in Seq(Kinds) /\ StartsOnce(functors')
    BY <2>1, <2>2, Posted DEF Kinds
  <2>4. Begin' /\ Lift'
    BY <1>1, <2>1, <2>2, <2>3 DEF SenderInv, Begin, Lift
  <2> QED
    BY <1>1, <1>2, <2>3, <2>4 DEF SenderInv
<1>4. CASE set_global \/ stop \/ Destroy
  <2>1. functors' = functors \/ functors' = Append(functors, "stop")
    BY <1>4 DEF set_global, stop, Destroy
  <2>2. functors' \in Seq(Kinds) /\ Begin' /\ Lift'
    BY <1>1, <2>1, ConnectionLeftAlone
  <2> QED
    BY <1>1, <1>2, <2>2 DEF SenderInv
<1> QED
  BY <1>3, <1>4

-----------------------------------------------------------------------------
(* Ticks.                                                                  *)

\* Functors of a tick: the ones there, less the wake that runs it.
TickFunctors(fs) ==
    \/ fs = functors
    \/ functors # <<>> /\ functors[1] = "wake" /\ fs = Tail(functors)

LEMMA TickFunctorsFacts ==
    ASSUME SenderInv, NEW fs, TickFunctors(fs)
    PROVE  /\ fs \in Seq(Kinds)
           /\ HasStart(fs) => HasStart(functors)
           /\ StartsOnce(fs)
           /\ Answered(functors, out) => Answered(fs, out)
           /\ HasComplete(functors) => HasComplete(fs)
<1>1. functors \in Seq(Kinds) /\ StartsOnce(functors)
  BY DEF SenderInv, Begin
<1>2. CASE fs = functors
  BY <1>1, <1>2
<1>3. CASE functors # <<>> /\ functors[1] = "wake" /\ fs = Tail(functors)
  BY <1>1, <1>3, Taken
<1> QED
  BY <1>2, <1>3 DEF TickFunctors

\* send_batch: what is not written waits, so the high_water it may post is answered.
LEMMA SendSomeKeeps ==
    ASSUME SenderInv, connected, NEW fs, TickFunctors(fs), NEW b \in MsgSeq,
           SendSome(b, fs), opc' = opc
    PROVE  /\ functors' \in Seq(Kinds) /\ Begin' /\ Lift' /\ ConnType'
           /\ fault' \in {"none", "null_connection", "destroyed"}
<1>1. PICK k \in 0 .. Len(b) :
        /\ wire' = wire \o SubSeq(b, 1, k)
        /\ out' = out \o SubSeq(b, k + 1, Len(b))
        /\ functors' = IF Len(out) < high_water_mark /\ Len(out') >= high_water_mark
                       THEN Append(fs, "high_water") ELSE fs
        /\ UNCHANGED <<client, paused, lost, discarded, losses, fault>>
  BY DEF SendSome
<1>2. k \in Nat /\ k <= Len(b)
  BY Joined
<1>3. /\ out \in MsgSeq /\ wire \in MsgSeq
      /\ SubSeq(b, 1, k) \in MsgSeq /\ SubSeq(b, k + 1, Len(b)) \in MsgSeq
  BY <1>2, Pieces DEF SenderInv, ConnType
<1>4. /\ out' \in MsgSeq /\ wire' \in MsgSeq
      /\ out # <<>> => out' # <<>>
  BY <1>1, <1>3, Joined
<1>5. ConnType'
  BY <1>1, <1>4 DEF SenderInv, ConnType
<1>6. /\ fs \in Seq(Kinds)
      /\ HasStart(fs) => HasStart(functors)
      /\ StartsOnce(fs)
      /\ Answered(functors, out) => Answered(fs, out)
      /\ HasComplete(functors) => HasComplete(fs)
  BY TickFunctorsFacts
<1>7. client = "up" /\ client' = "up" /\ Answered(functors, out)
  BY <1>1 DEF connected, SenderInv, Lift
<1>8. Answered(fs, out')
  BY <1>4, <1>6, <1>7, BytesAnswer
<1>9. /\ functors' \in Seq(Kinds)
      /\ HasStart(functors') => HasStart(fs)
      /\ StartsOnce(functors')
      /\ Answered(functors', out')
      /\ HasComplete(fs) => HasComplete(functors')
  <2>1. CASE Len(out) < high_water_mark /\ Len(out') >= high_water_mark
    <3>1. functors' = Append(fs, "high_water")
      BY <1>1, <2>1
    <3>2. out' # <<>>
      <4>1. Len(<<>>) = 0 /\ high_water_mark > 0 /\ high_water_mark \in Nat
        BY OptionsArePositive
      <4>2. Len(out') \in Nat
        BY <1>4, Joined
      <4> QED
        BY <2>1, <4>1, <4>2
    <3>3. Answered(functors', out')
      BY <3>2, BytesAnswer
    <3>4. /\ functors' \in Seq(Kinds)
          /\ HasStart(functors') => HasStart(fs)
          /\ StartsOnce(functors')
          /\ HasComplete(fs) => HasComplete(functors')
      <4>1. "high_water" \in Kinds
        BY DEF Kinds
      <4> QED
        BY <1>6, <3>1, <4>1, Posted
    <3> QED
      BY <3>3, <3>4
  <2>2. CASE ~(Len(out) < high_water_mark /\ Len(out') >= high_water_mark)
    BY <1>1, <1>6, <1>8, <2>2
  <2> QED
    BY <2>1, <2>2
<1>10. Begin'
  BY <1>1, <1>6, <1>7, <1>9 DEF SenderInv, Begin
<1>11. Lift'
  BY <1>1, <1>4, <1>6, <1>7, <1>9 DEF SenderInv, Lift
<1> QED
  BY <1>1, <1>5, <1>9, <1>10, <1>11 DEF SenderInv

\* A write that fails ends the connection and with it the wait.
LEMMA SendFailsKeeps ==
    ASSUME SenderInv, connected, NEW fs, TickFunctors(fs), NEW b \in MsgSeq,
           SendFails(b, fs), opc' = opc
    PROVE  /\ functors' \in Seq(Kinds) /\ Begin' /\ Lift' /\ ConnType'
           /\ fault' \in {"none", "null_connection", "destroyed"}
<1>1. PICK k \in 0 .. Len(b) - 1 :
        /\ wire' = wire \o SubSeq(b, 1, k)
        /\ ConnectionFails(SubSeq(b, k + 1, Len(b)))
        /\ fault' = IF k + 1 < Len(b) THEN "null_connection" ELSE "none"
        /\ functors' = fs
        /\ UNCHANGED discarded
  BY DEF SendFails
<1>2. k \in Nat /\ k <= Len(b)
  BY Joined
<1>3. /\ lost \in MsgSeq /\ wire \in MsgSeq /\ <<>> \in MsgSeq
      /\ SubSeq(b, 1, k) \in MsgSeq /\ SubSeq(b, k + 1, Len(b)) \in MsgSeq
  BY <1>2, Pieces, Joined DEF SenderInv, ConnType
<1>4. /\ client' = "trying" /\ paused' = FALSE /\ out' = <<>>
      /\ lost' = lost \o SubSeq(b, k + 1, Len(b)) /\ losses' = losses + 1
  BY <1>1 DEF ConnectionFails
<1>5. wire' \in MsgSeq /\ lost' \in MsgSeq
  BY <1>1, <1>3, <1>4, Joined
<1>6. ConnType'
  <2>1. losses' \in Nat
    BY <1>4 DEF SenderInv, ConnType
  <2> QED
    BY <1>1, <1>3, <1>4, <1>5, <2>1 DEF SenderInv, ConnType
<1>7. /\ fs \in Seq(Kinds) /\ StartsOnce(fs)
      /\ HasStart(fs) => HasStart(functors)
  BY TickFunctorsFacts
<1>8. ~HasStart(functors) /\ opc # "created"
  BY DEF SenderInv, Begin, connected
<1>9. Begin' /\ Lift'
  BY <1>1, <1>4, <1>7, <1>8 DEF Begin, Lift
<1> QED
  BY <1>1, <1>6, <1>7, <1>9

LEMMA OnTickKeeps ==
    ASSUME SenderInv, NEW ts \in Nat, NEW fs, TickFunctors(fs), on_tick(ts, fs),
           UNCHANGED <<started, stopped>>, UNCHANGED callerVars
    PROVE  SenderInv'
<1>1. ticks' = ts + 1 /\ tick_timer_id' = TRUE /\ opc' = opc
  BY DEF on_tick, schedule_next_tick, callerVars
<1>2. TickType' /\ CallerType'
  BY <1>1, CallerFrame DEF SenderInv, TickType
<1>3. CASE connected /\ ~paused /\ do_drain_and_send(fs)
  <2>1. Drain /\ (SendSome(Batch, fs) \/ SendFails(Batch, fs))
    BY <1>3 DEF do_drain_and_send
  <2>2. Batch \in MsgSeq /\ QueueType'
    BY <2>1, BatchType, DrainKeeps DEF SenderInv
  <2>3. /\ functors' \in Seq(Kinds) /\ Begin' /\ Lift' /\ ConnType'
        /\ fault' \in {"none", "null_connection", "destroyed"}
    BY <1>1, <1>3, <2>1, <2>2, SendSomeKeeps, SendFailsKeeps
  <2> QED
    BY <1>2, <2>2, <2>3 DEF SenderInv
<1>4. CASE functors' = fs /\ UNCHANGED queueVars /\ UNCHANGED connVars /\ fault' = fault
  <2>1. functors' \in Seq(Kinds) /\ Begin' /\ Lift' /\ ConnType'
    BY <1>1, <1>4, ConnectionLeftAlone DEF TickFunctors
  <2>2. QueueType'
    BY <1>4, QueueFrame DEF SenderInv
  <2> QED
    BY <1>2, <1>4, <2>1, <2>2 DEF SenderInv
<1> QED
  BY <1>3, <1>4 DEF on_tick

LEMMA TickTimerKeeps ==
    ASSUME SenderInv, TickTimer
    PROVE  SenderInv'
<1>1. ticks \in Nat /\ ticks > 0 /\ UNCHANGED <<started, stopped>> /\ UNCHANGED callerVars
  BY DEF TickTimer, SenderInv, TickType
<1>2. CASE /\ ticks' = ticks - 1 /\ tick_timer_id' = FALSE /\ UNCHANGED queueVars
           /\ functors' = functors /\ UNCHANGED connVars /\ fault' = fault
  <2>1. TickType'
    <3>1. ticks' \in Nat
      BY <1>1, <1>2
    <3> QED
      BY <1>1, <1>2, <3>1 DEF SenderInv, TickType
  <2>2. functors' \in Seq(Kinds) /\ Begin' /\ Lift' /\ ConnType'
    BY <1>1, <1>2, ConnectionLeftAlone DEF callerVars
  <2> QED
    BY <1>1, <1>2, <2>1, <2>2, QueueFrame, CallerFrame DEF SenderInv
<1>3. CASE on_tick(ticks - 1, functors)
  <2>1. ticks - 1 \in Nat /\ TickFunctors(functors)
    BY <1>1 DEF TickFunctors
  <2> QED
    BY <1>1, <1>3, <2>1, OnTickKeeps
<1> QED
  BY <1>2, <1>3 DEF TickTimer

LEMMA WakeKeeps ==
    ASSUME SenderInv, Wake
    PROVE  SenderInv'
<1>1. /\ functors # <<>> /\ functors[1] = "wake"
      /\ UNCHANGED <<started, stopped>> /\ UNCHANGED callerVars
  BY DEF Wake, Running
<1>2. CASE /\ functors' = Tail(functors) /\ UNCHANGED queueVars
           /\ UNCHANGED <<ticks, tick_timer_id>> /\ UNCHANGED connVars /\ fault' = fault
  <2>1. TickType'
    BY <1>1, <1>2 DEF SenderInv, TickType
  <2>2. functors' \in Seq(Kinds) /\ Begin' /\ Lift' /\ ConnType'
    BY <1>1, <1>2, ConnectionLeftAlone DEF callerVars
  <2> QED
    BY <1>1, <1>2, <2>1, <2>2, QueueFrame, CallerFrame DEF SenderInv
<1>3. CASE on_tick(ticks, Tail(functors))
  <2>1. ticks \in Nat /\ TickFunctors(Tail(functors))
    BY <1>1 DEF TickFunctors, SenderInv, TickType
  <2> QED
    BY <1>1, <1>3, <2>1, OnTickKeeps
<1> QED
  BY <1>2, <1>3 DEF Wake

-----------------------------------------------------------------------------
(* The other functors.                                                     *)

LEMMA StartInLoopKeeps ==
    ASSUME SenderInv, start_in_loop
    PROVE  SenderInv'
<1>1. /\ functors # <<>> /\ functors[1] = "start" /\ functors' = Tail(functors)
      /\ started' = TRUE /\ client' = "trying" /\ ticks' = ticks + 1 /\ tick_timer_id' = TRUE
      /\ UNCHANGED queueVars /\ UNCHANGED callerVars
      /\ UNCHANGED <<stopped, paused, out, wire, lost, discarded, losses, fault>>
  BY DEF start_in_loop, Running, schedule_next_tick
<1>2. /\ functors' \in Seq(Kinds) /\ StartsOnce(functors') /\ ~HasStart(functors')
      /\ HasStart(functors)
  BY <1>1, Taken DEF SenderInv, Begin
<1>3. client \in {"idle", "gone"} /\ opc # "created" /\ opc' = opc
  BY <1>1, <1>2 DEF SenderInv, Begin, callerVars
<1>4. Begin' /\ Lift'
  BY <1>1, <1>2, <1>3 DEF SenderInv, Begin, Lift
<1>5. TickType' /\ ConnType'
  BY <1>1 DEF SenderInv, TickType, ConnType
<1> QED
  BY <1>1, <1>2, <1>4, <1>5, QueueFrame, CallerFrame DEF SenderInv

\* on_high_water finds its answer on its way, on_write_complete is it.
LEMMA CallbacksKeep ==
    ASSUME SenderInv, on_high_water \/ on_write_complete
    PROVE  SenderInv'
<1>1. /\ functors # <<>> /\ functors' = Tail(functors)
      /\ \/ functors[1] = "high_water" /\ paused' = TRUE
         \/ functors[1] = "write_complete" /\ paused' = FALSE
      /\ UNCHANGED queueVars /\ UNCHANGED callerVars /\ UNCHANGED tickVars
      /\ UNCHANGED <<client, out, wire, lost, discarded, losses, fault>>
  BY DEF on_high_water, on_write_complete, Running
<1>2. functors \in Seq(Kinds) /\ opc' = opc
  BY <1>1 DEF SenderInv, callerVars
<1>3. /\ functors' \in Seq(Kinds)
      /\ HasStart(functors') => HasStart(functors)
      /\ StartsOnce(functors) => StartsOnce(functors')
      /\ Answered(functors, out) => Answered(functors', out)
      /\ functors[1] = "high_water" /\ Answered(functors, out)
           => out # <<>> \/ HasComplete(functors')
  BY <1>1, <1>2, Taken
<1>4. Begin'
  BY <1>1, <1>2, <1>3 DEF SenderInv, Begin
<1>5. Lift'
  BY <1>1, <1>3 DEF SenderInv, Lift
<1>6. ConnType'
  BY <1>1 DEF SenderInv, ConnType
<1> QED
  BY <1>1, <1>3, <1>4, <1>5, <1>6, QueueFrame, CallerFrame, TickFrame DEF SenderInv

LEMMA StopInLoopKeeps ==
    ASSUME SenderInv, stop_in_loop
    PROVE  SenderInv'
<1>1. /\ functors # <<>> /\ functors[1] = "stop" /\ functors' = Tail(functors)
      /\ stopped' = TRUE /\ ticks' = (IF tick_timer_id THEN ticks - 1 ELSE ticks)
      /\ tick_timer_id' = FALSE /\ opc' = "stopped"
      /\ UNCHANGED <<tpc, g_instance, refused, pushed, started>>
  BY DEF stop_in_loop, Running
<1>2. Batch \in MsgSeq
  BY BatchType DEF SenderInv
<1>3. /\ out \in MsgSeq /\ wire \in MsgSeq /\ lost \in MsgSeq /\ discarded \in MsgSeq
      /\ <<>> \in MsgSeq /\ Len(Batch) \in Nat
  BY <1>2, Joined DEF SenderInv, ConnType
<1>4. ASSUME NEW k \in 0 .. Len(Batch)
      PROVE  SubSeq(Batch, 1, k) \in MsgSeq /\ SubSeq(Batch, k + 1, Len(Batch)) \in MsgSeq
  <2>1. k \in Nat /\ k <= Len(Batch)
    BY <1>3
  <2> QED
    BY <1>2, <2>1, Pieces
<1>5. /\ client' = "gone" /\ paused' = FALSE /\ out' = <<>>
      /\ QueueType'
      /\ wire' \in MsgSeq /\ lost' \in MsgSeq /\ discarded' \in MsgSeq /\ losses' \in Nat
      /\ fault' \in {"none", "null_connection", "destroyed"}
  <2>1. CASE /\ Disconnect(<<>>)
             /\ UNCHANGED <<queueVars, wire, lost, losses, fault>>
    <3>1. discarded' = discarded \o <<>> /\ discarded' \in MsgSeq
      BY <1>3, <2>1, Joined DEF Disconnect
    <3>2. QueueType'
      BY <2>1, QueueFrame DEF SenderInv
    <3> QED
      BY <1>3, <2>1, <3>1, <3>2 DEF Disconnect, SenderInv, ConnType
  <2>2. ASSUME Drain, UNCHANGED <<lost, losses, fault>>, NEW k \in 0 .. Len(Batch),
               wire' = wire \o SubSeq(Batch, 1, k),
               Disconnect(out \o SubSeq(Batch, k + 1, Len(Batch)))
        PROVE  <1>5!:
    <3>1. out \o SubSeq(Batch, k + 1, Len(Batch)) \in MsgSeq
      BY <1>3, <1>4, Joined
    <3>2. wire' \in MsgSeq /\ discarded' \in MsgSeq
      BY <1>3, <1>4, <2>2, <3>1, Joined DEF Disconnect
    <3>3. QueueType'
      BY <2>2, DrainKeeps DEF SenderInv
    <3> QED
      BY <1>3, <2>2, <3>2, <3>3 DEF Disconnect, SenderInv, ConnType
  <2>3. ASSUME Drain, losses' = losses + 1, Disconnect(<<>>), NEW k \in 0 .. Len(Batch) - 1,
               wire' = wire \o SubSeq(Batch, 1, k),
               lost' = lost \o SubSeq(Batch, k + 1, Len(Batch)),
               fault' = IF k + 1 < Len(Batch) THEN "null_connection" ELSE "none"
        PROVE  <1>5!:
    <3>1. k \in 0 .. Len(Batch)
      BY <1>3
    <3>2. wire' \in MsgSeq /\ lost' \in MsgSeq /\ discarded' \in MsgSeq
      BY <1>3, <1>4, <2>3, <3>1, Joined DEF Disconnect
    <3>3. QueueType'
      BY <2>3, DrainKeeps DEF SenderInv
    <3> QED
      BY <1>3, <2>3, <3>2, <3>3 DEF Disconnect, SenderInv, ConnType
  <2> QED
    BY <2>1, <2>2, <2>3 DEF stop_in_loop
<1>6. /\ functors' \in Seq(Kinds)
      /\ HasStart(functors') => HasStart(functors)
      /\ StartsOnce(functors')
  BY <1>1, Taken DEF SenderInv, Begin
<1>7. Begin' /\ Lift'
  BY <1>1, <1>5, <1>6 DEF Begin, Lift
<1>8. TickType' /\ CallerType' /\ ConnType'
  <2>1. ticks' \in Nat
    BY <1>1 DEF SenderInv, TickType
  <2>2. TickType'
    BY <1>1, <2>1 DEF SenderInv, TickType
  <2>3. CallerType'
    BY <1>1 DEF SenderInv, CallerType
  <2>4. ConnType'
    BY <1>3, <1>5 DEF ConnType
  <2> QED
    BY <2>2, <2>3, <2>4
<1> QED
  BY <1>5, <1>6, <1>7, <1>8 DEF SenderInv

-----------------------------------------------------------------------------
(* The connection.                                                         *)

\* A reconnection finds neither a pause nor a callback of the connection before.
LEMMA ConnectedKeeps ==
    ASSUME SenderInv, Connected
    PROVE  SenderInv'
<1>1. /\ client = "trying" /\ client' = "up" /\ paused' = FALSE
      /\ \A i \in DOMAIN functors : functors[i] \notin {"high_water", "write_complete"}
      /\ UNCHANGED queueVars /\ UNCHANGED callerVars /\ UNCHANGED tickVars
      /\ UNCHANGED <<functors, out, wire, lost, discarded, losses, fault>>
  BY DEF Connected
<1>2. Answered(functors, out)
  BY <1>1 DEF Answered
<1>3. Begin' /\ Lift'
  BY <1>1, <1>2 DEF SenderInv, Begin, Lift, callerVars
<1>4. ConnType'
  BY <1>1 DEF SenderInv, ConnType
<1> QED
  BY <1>1, <1>3, <1>4, QueueFrame, CallerFrame, TickFrame DEF SenderInv

\* handle_write: the write that empties the buffer posts the answer.
LEMMA HandleWriteKeeps ==
    ASSUME SenderInv, handle_write
    PROVE  SenderInv'
<1>1. /\ client = "up" /\ out # <<>>
      /\ UNCHANGED queueVars /\ UNCHANGED callerVars /\ UNCHANGED tickVars
      /\ UNCHANGED <<client, paused, lost, discarded, losses, fault>>
  BY DEF handle_write, connected
<1>2. PICK k \in 1 .. Len(out) :
        /\ wire' = wire \o SubSeq(out, 1, k)
        /\ out' = SubSeq(out, k + 1, Len(out))
        /\ functors' = IF k = Len(out) THEN Append(functors, "write_complete")
                       ELSE functors
  BY DEF handle_write
<1>3. out \in MsgSeq /\ wire \in MsgSeq /\ Len(out) \in Nat /\ k \in Nat /\ k <= Len(out)
  BY Joined DEF SenderInv, ConnType
<1>4. /\ SubSeq(out, 1, k) \in MsgSeq /\ out' \in MsgSeq
      /\ Len(out') = IF k < Len(out) THEN Len(out) - k ELSE 0
  BY <1>2, <1>3, Pieces
<1>5. wire' \in MsgSeq
  BY <1>2, <1>3, <1>4, Joined
<1>6. ConnType'
  BY <1>1, <1>4, <1>5 DEF SenderInv, ConnType
<1>7. functors \in Seq(Kinds) /\ ~HasStart(functors) /\ StartsOnce(functors) /\ opc # "created"
  BY <1>1 DEF SenderInv, Begin
<1>8. /\ functors' \in Seq(Kinds) /\ ~HasStart(functors') /\ StartsOnce(functors')
      /\ Answered(functors', out')
      /\ out' # <<>> \/ HasComplete(functors')
  <2>1. CASE k = Len(out)
    <3>1. functors' = Append(functors, "write_complete") /\ "write_complete" \in Kinds
      BY <1>2, <2>1 DEF Kinds
    <3> QED
      BY <1>7, <3>1, Posted
  <2>2. CASE k # Len(out)
    <3>1. functors' = functors
      BY <1>2, <2>2
    <3>2. out' # <<>>
      <4>1. Len(out') # 0 /\ Len(<<>>) = 0
        BY <1>3, <1>4, <2>2
      <4> QED
        BY <4>1
    <3> QED
      BY <1>7, <3>1, <3>2, BytesAnswer
  <2> QED
    BY <2>1, <2>2
<1>9. Begin' /\ Lift'
  BY <1>1, <1>7, <1>8 DEF Begin, Lift, callerVars
<1> QED
  BY <1>1, <1>6, <1>8, <1>9, QueueFrame, CallerFrame, TickFrame DEF SenderInv

LEMMA DisconnectedKeeps ==
    ASSUME SenderInv, Disconnected
    PROVE  SenderInv'
<1>1. /\ client = "up" /\ client' = "trying" /\ paused' = FALSE /\ out' = <<>>
      /\ lost' = lost \o out /\ losses' = losses + 1
      /\ UNCHANGED queueVars /\ UNCHANGED callerVars /\ UNCHANGED tickVars
      /\ UNCHANGED <<functors, wire, discarded, fault>>
  BY DEF Disconnected, ConnectionFails, connected
<1>2. lost' \in MsgSeq /\ <<>> \in MsgSeq
  BY <1>1, Joined DEF SenderInv, ConnType
<1>3. ConnType'
  <2>1. losses' \in Nat
    BY <1>1 DEF SenderInv, ConnType
  <2> QED
    BY <1>1, <1>2, <2>1 DEF SenderInv, ConnType
<1>4. Begin' /\ Lift'
  BY <1>1 DEF SenderInv, Begin, Lift, callerVars
<1> QED
  BY <1>1, <1>3, <1>4, QueueFrame, CallerFrame, TickFrame DEF SenderInv

-----------------------------------------------------------------------------
(* The theorems.                                                           *)

LEMMA InitSenderInv == Init => SenderInv
<1> SUFFICES ASSUME Init PROVE SenderInv
  OBVIOUS
<1>1. <<>> \in MsgSeq /\ <<>> \in Seq(Kinds) /\ Len(<<>>) = 0 /\ DOMAIN <<>> = {}
  BY EmptySeq DEF MsgSeq
<1>2. QueueType
  <2>1. queue = <<>> /\ has_pending = FALSE /\ dropped = 0
    BY DEF Init
  <2>2. Len(queue) <= queue_capacity
    BY <1>1, <2>1, OptionsArePositive
  <2> QED
    BY <1>1, <2>1, <2>2 DEF QueueType
<1>3. CallerType /\ TickType
  BY DEF Init, CallerType, TickType
<1>4. ConnType
  BY <1>1 DEF Init, ConnType
<1>5. Begin /\ Lift
  <2>1. functors = <<>> /\ DOMAIN functors = {}
    BY <1>1 DEF Init
  <2>2. ~HasStart(functors) /\ StartsOnce(functors)
    BY <2>1 DEF HasStart, StartsOnce
  <2> QED
    BY <2>2 DEF Init, Begin, Lift
<1> QED
  BY <1>1, <1>2, <1>3, <1>4, <1>5 DEF Init, SenderInv

LEMMA NextSenderInv ==
    ASSUME SenderInv, [Next]_vars
    PROVE  SenderInv'
<1>1. ASSUME NEW t \in Threads, Log(t) \/ push(t) \/ PostWake(t) PROVE SenderInv'
  BY <1>1, CallersKeep
<1>2. CASE start \/ set_global \/ stop \/ Destroy
  BY <1>2, OwnerKeeps
<1>3. CASE TickTimer \/ start_in_loop \/ Wake \/ on_high_water \/ on_write_complete
           \/ stop_in_loop
  BY <1>3, TickTimerKeeps, StartInLoopKeeps, WakeKeeps, CallbacksKeep, StopInLoopKeeps
<1>4. CASE Connected \/ handle_write \/ Disconnected
  BY <1>4, ConnectedKeeps, HandleWriteKeeps, DisconnectedKeeps
<1>5. CASE UseAfterDestroy \/ UNCHANGED vars
  <2>1. /\ UNCHANGED queueVars /\ UNCHANGED callerVars /\ UNCHANGED tickVars
        /\ UNCHANGED connVars /\ functors' = functors
        /\ fault' \in {fault, "destroyed"}
    BY <1>5 DEF UseAfterDestroy, vars
  <2>2. functors' \in Seq(Kinds) /\ Begin' /\ Lift' /\ ConnType'
    BY <2>1, ConnectionLeftAlone DEF callerVars
  <2> QED
    BY <2>1, <2>2, QueueFrame, CallerFrame, TickFrame DEF SenderInv
<1> QED
  BY <1>1, <1>2, <1>3, <1>4, <1>5 DEF Next

\* The inductive invariant: the types, one start() before any connection, and
\* every pause answered.
THEOREM SenderIsRight == Spec => []SenderInv
<1>1. SenderInv /\ [Next]_vars => SenderInv'
  BY NextSenderInv
<1> QED
  BY <1>1, InitSenderInv, PTL DEF Spec

\* The members of LogSender and its queue keep their types; in particular stop()
\* never cancels a tick timer that is not set.
THEOREM TypeCorrect == Spec => []TypeOK
<1>1. SenderInv => TypeOK
  BY DEF SenderInv, QueueType, CallerType, TickType, ConnType, Kinds, TypeOK
<1> QED
  BY <1>1, SenderIsRight, PTL

\* LogSender::on_high_water and on_write_complete: while paused_ holds the sender
\* back on a connection, that connection has bytes to write or has posted the
\* callback that lifts it.
THEOREM PauseEnds == Spec => []PausedIsLifted
<1>1. SenderInv => PausedIsLifted
  BY DEF SenderInv, Lift, HasComplete, PausedIsLifted, connected, ToSet
<1> QED
  BY <1>1, SenderIsRight, PTL

-----------------------------------------------------------------------------
(* Induction, for sets of numbers.                                         *)

\* Every set of numbers that has one has a least one.
LEMMA LeastNumber ==
  ASSUME NEW T \in SUBSET Nat, T # {}
  PROVE  \E m \in T : \A k \in T : m <= k
<1> DEFINE R == OpToRel(<, Nat)
<1>1. IsWellFoundedOn(R, Nat)
  BY NatLessThanWellFounded
<1>2. \A i, j \in Nat : <<i, j>> \in R <=> i < j
  BY DEF OpToRel
<1> HIDE DEF R
<1>3. PICK m \in T : \A k \in T : <<k, m>> \notin R
  BY <1>1, WFMin
<1>4. \A k \in T : k \in Nat /\ m \in Nat /\ ~(k < m)
  BY <1>2, <1>3
<1> QED
  BY <1>4

\* What holds of 0, and of n + 1 when it holds of n, holds of every number.
LEMMA Induction ==
  ASSUME NEW T, 0 \in T, \A n \in Nat : n \in T => n + 1 \in T
  PROVE  Nat \subseteq T
<1> DEFINE U == {n \in Nat : n \notin T}
<1>1. CASE U # {}
  <2>1. PICK m \in U : \A k \in U : m <= k
    <3>1. U \in SUBSET Nat
      OBVIOUS
    <3> QED
      BY <1>1, <3>1, LeastNumber
  <2>2. m - 1 \in Nat /\ m - 1 \notin U
    BY <2>1
  <2> QED
    BY <2>2
<1> QED
  BY <1>1

-----------------------------------------------------------------------------
(* The drops that are reported.                                            *)

\* What FoldLeft's recursive function gives for a set of positions.
Added(s, g, t) == IF t = {} THEN 0 ELSE g[t \ {Max(t)}] + Drops(s[Max(t)])
Adds(s, D, g) == g = [t \in SUBSET D |-> Added(s, g, t)]

\* The drops that the first k messages report.
Upto(s, k) == (CHOOSE g : Adds(s, DOMAIN s, g))[1 .. k]

\* The step of a fold over a sequence takes the last of its positions.
LEMMA MaxOfInterval ==
  ASSUME NEW k \in Nat, NEW t \in SUBSET (1 .. k + 1), k + 1 \in t
  PROVE  Max(t) = k + 1
<1>1. \A y \in t : k + 1 >= y
  OBVIOUS
<1>2. \A x \in t : (\A y \in t : x >= y) => x = k + 1
  OBVIOUS
<1> QED
  BY <1>1, <1>2 DEF Max

\* There is a function that adds up the drops, so FoldLeft's is one.
LEMMA AddsExists ==
  ASSUME NEW s, NEW n \in Nat
  PROVE  \E g : Adds(s, 1 .. n, g)
<1> DEFINE K == {k \in Nat : \E g : Adds(s, 1 .. k, g)}
<1>1. 0 \in K
  <2> DEFINE h == [t \in SUBSET (1 .. 0) |-> 0]
  <2>1. 1 .. 0 = {}
    OBVIOUS
  <2>2. h = [t \in SUBSET (1 .. 0) |-> Added(s, h, t)]
    BY <2>1 DEF Added
  <2> QED
    BY <2>2 DEF Adds
<1>2. ASSUME NEW k \in Nat, k \in K PROVE k + 1 \in K
  <2>1. PICK g : Adds(s, 1 .. k, g)
    BY <1>2
  <2> DEFINE h == [t \in SUBSET (1 .. k + 1) |->
                      IF k + 1 \in t THEN g[t \ {k + 1}] + Drops(s[k + 1]) ELSE g[t]]
  <2>2. ASSUME NEW t \in SUBSET (1 .. k + 1) PROVE h[t] = Added(s, h, t)
    <3>1. CASE k + 1 \in t
      <4>1. Max(t) = k + 1 /\ t # {}
        BY <3>1, MaxOfInterval
      <4>2. t \ {k + 1} \in SUBSET (1 .. k + 1) /\ k + 1 \notin t \ {k + 1}
        OBVIOUS
      <4>3. h[t \ {k + 1}] = g[t \ {k + 1}]
        BY <4>2
      <4> QED
        BY <3>1, <4>1, <4>3 DEF Added
    <3>2. CASE k + 1 \notin t
      <4>1. t \in SUBSET (1 .. k)
        <5>1. \A i \in t : i \in 1 .. k
          BY <3>2
        <5> QED
          BY <5>1
      <4>2. t \ {Max(t)} \in SUBSET (1 .. k + 1) /\ k + 1 \notin t \ {Max(t)}
        BY <3>2
      <4>3. h[t] = g[t] /\ h[t \ {Max(t)}] = g[t \ {Max(t)}]
        BY <3>2, <4>2
      <4>4. g[t] = Added(s, g, t)
        BY <2>1, <4>1 DEF Adds
      <4> QED
        BY <4>3, <4>4 DEF Added
    <3> QED
      BY <3>1, <3>2
  <2> HIDE DEF h
  <2>3. h = [t \in SUBSET (1 .. k + 1) |-> h[t]]
    BY DEF h
  <2>4. Adds(s, 1 .. k + 1, h)
    BY <2>2, <2>3 DEF Adds
  <2> QED
    BY <2>4
<1> HIDE DEF K
<1>3. n \in K
  BY <1>1, <1>2, Induction
<1> QED
  BY <1>3 DEF K

\* Reported(s) adds up the drops of s, one message at a time.
LEMMA UptoIs ==
  ASSUME NEW S, NEW s \in Seq(S)
  PROVE  /\ Reported(s) = Upto(s, Len(s))
         /\ Upto(s, 0) = 0
         /\ \A k \in 0 .. Len(s) - 1 : Upto(s, k + 1) = Upto(s, k) + Drops(s[k + 1])
<1> DEFINE g == CHOOSE h : Adds(s, DOMAIN s, h)
<1>1. DOMAIN s = 1 .. Len(s) /\ Len(s) \in Nat
  OBVIOUS
<1>2. Adds(s, DOMAIN s, g)
  BY <1>1, AddsExists
<1>3. Reported(s) = g[DOMAIN s]
  BY DEF Reported, FoldLeft, MapThenFoldSet, Adds, Added
<1> HIDE DEF g
<1>4. g[1 .. 0] = 0
  <2>1. 1 .. 0 = {} /\ {} \in SUBSET (DOMAIN s)
    OBVIOUS
  <2> QED
    BY <1>2, <2>1 DEF Adds, Added
<1>5. ASSUME NEW k \in 0 .. Len(s) - 1
      PROVE  g[1 .. k + 1] = g[1 .. k] + Drops(s[k + 1])
  <2>1. 1 .. k + 1 \in SUBSET (DOMAIN s) /\ 1 .. k + 1 # {} /\ k \in Nat
    <3>1. k \in Nat /\ k + 1 \in 1 .. k + 1 /\ k + 1 <= Len(s)
      BY <1>1
    <3>2. \A i \in 1 .. k + 1 : i \in 1 .. Len(s)
      BY <1>1, <3>1
    <3> QED
      BY <1>1, <3>1, <3>2
  <2>2. Max(1 .. k + 1) = k + 1
    BY <2>1, MaxOfInterval
  <2>3. (1 .. k + 1) \ {k + 1} = 1 .. k
    BY <2>1
  <2>4. g[1 .. k + 1] = Added(s, g, 1 .. k + 1)
    BY <1>2, <2>1 DEF Adds
  <2> QED
    BY <2>1, <2>2, <2>3, <2>4 DEF Added
<1> QED
  BY <1>1, <1>3, <1>4, <1>5 DEF Upto, g

Msgs == [kind : {"item", "dropped"}, n : Nat]

\* What is at a position of a sequence of messages.
LEMMA MsgAt ==
  ASSUME NEW s \in MsgSeq
  PROVE  /\ Len(s) \in Nat /\ DOMAIN s = 1 .. Len(s)
         /\ \A i \in 1 .. Len(s) : s[i] \in Msgs /\ Drops(s[i]) \in Nat /\ s[i].n \in Nat
<1>1. s \in Seq(Msgs)
  BY DEF MsgSeq, Msgs
<1>2. Len(s) \in Nat /\ DOMAIN s = 1 .. Len(s) /\ \A i \in 1 .. Len(s) : s[i] \in Msgs
  BY <1>1
<1>3. ASSUME NEW m \in Msgs PROVE Drops(m) \in Nat /\ m.n \in Nat
  BY DEF Msgs, Drops
<1> QED
  BY <1>2, <1>3

\* Drops are counted in numbers.
LEMMA UptoType ==
  ASSUME NEW s \in MsgSeq, NEW k \in 0 .. Len(s)
  PROVE  Upto(s, k) \in Nat
<1> DEFINE K == {i \in Nat : i <= Len(s) => Upto(s, i) \in Nat}
<1>1. s \in Seq(Msgs) /\ Len(s) \in Nat
  BY DEF MsgSeq, Msgs
<1>2. 0 \in K
  BY <1>1, UptoIs
<1>3. ASSUME NEW i \in Nat, i \in K PROVE i + 1 \in K
  <2> SUFFICES ASSUME i + 1 <= Len(s) PROVE Upto(s, i + 1) \in Nat
    OBVIOUS
  <2>1. i \in 0 .. Len(s) - 1 /\ i <= Len(s) /\ Drops(s[i + 1]) \in Nat
    <3>1. i \in 0 .. Len(s) - 1 /\ i <= Len(s) /\ i + 1 \in 1 .. Len(s)
      BY <1>1
    <3> QED
      BY <3>1, MsgAt
  <2>2. Upto(s, i + 1) = Upto(s, i) + Drops(s[i + 1])
    BY <1>1, <2>1, UptoIs
  <2>3. Upto(s, i) \in Nat
    BY <1>3, <2>1
  <2> QED
    BY <2>1, <2>2, <2>3
<1> HIDE DEF K
<1>4. Nat \subseteq K
  BY <1>2, <1>3, Induction
<1> QED
  BY <1>1, <1>4 DEF K

\* The same for a whole sequence.
LEMMA ReportedType ==
  ASSUME NEW s \in MsgSeq
  PROVE  Reported(s) \in Nat
<1>1. Len(s) \in 0 .. Len(s)
  BY DEF MsgSeq
<1> QED
  BY <1>1, UptoType, UptoIs DEF MsgSeq

\* Two sequences together report what each reports.
LEMMA ReportedConcat ==
  ASSUME NEW s \in MsgSeq, NEW t \in MsgSeq
  PROVE  s \o t \in MsgSeq /\ Reported(s \o t) = Reported(s) + Reported(t)
<1> DEFINE c == s \o t
           m == Len(s)
           n == Len(t)
<1>1. /\ c \in MsgSeq /\ Len(c) = m + n /\ m \in Nat /\ n \in Nat
      /\ \A i \in 1 .. m : c[i] = s[i]
      /\ \A i \in 1 .. n : c[m + i] = t[i]
  <2>1. c \in MsgSeq /\ Len(c) = m + n /\ m \in Nat /\ n \in Nat
    BY ConcatProperties DEF MsgSeq
  <2>2. \A i \in 1 .. m + n : c[i] = IF i <= m THEN s[i] ELSE t[i - m]
    BY ConcatProperties DEF MsgSeq
  <2>3. ASSUME NEW i \in 1 .. n PROVE c[m + i] = t[i]
    <3>1. m + i \in 1 .. m + n /\ ~(m + i <= m) /\ (m + i) - m = i
      BY <2>1
    <3> QED
      BY <2>2, <3>1
  <2> QED
    BY <2>1, <2>2, <2>3
<1> HIDE DEF c
<1>2. \A k \in Nat : k <= m => Upto(c, k) = Upto(s, k)
  <2> DEFINE K == {k \in Nat : k <= m => Upto(c, k) = Upto(s, k)}
  <2>1. 0 \in K
    BY <1>1, UptoIs DEF MsgSeq
  <2>2. ASSUME NEW k \in Nat, k \in K PROVE k + 1 \in K
    <3> SUFFICES ASSUME k + 1 <= m PROVE Upto(c, k + 1) = Upto(s, k + 1)
      OBVIOUS
    <3>1. k \in 0 .. m - 1 /\ k \in 0 .. Len(c) - 1 /\ k + 1 \in 1 .. m /\ k <= m
      BY <1>1
    <3>2. c[k + 1] = s[k + 1]
      BY <1>1, <3>1
    <3>3. /\ Upto(c, k + 1) = Upto(c, k) + Drops(c[k + 1])
          /\ Upto(s, k + 1) = Upto(s, k) + Drops(s[k + 1])
      BY <1>1, <3>1, UptoIs DEF MsgSeq
    <3>4. Upto(c, k) = Upto(s, k)
      BY <2>2, <3>1
    <3> QED
      BY <3>2, <3>3, <3>4
  <2> HIDE DEF K
  <2>3. Nat \subseteq K
    BY <2>1, <2>2, Induction
  <2> QED
    BY <2>3 DEF K
<1>3. \A k \in Nat : k <= n => Upto(c, m + k) = Upto(c, m) + Upto(t, k)
  <2> DEFINE K == {k \in Nat : k <= n => Upto(c, m + k) = Upto(c, m) + Upto(t, k)}
  <2>1. 0 \in K
    <3>1. Upto(c, m) \in Nat /\ m + 0 = m
      BY <1>1, UptoType
    <3>2. Upto(t, 0) = 0
      BY UptoIs DEF MsgSeq
    <3> QED
      BY <3>1, <3>2
  <2>2. ASSUME NEW k \in Nat, k \in K PROVE k + 1 \in K
    <3> SUFFICES ASSUME k + 1 <= n
                 PROVE  Upto(c, m + (k + 1)) = Upto(c, m) + Upto(t, k + 1)
      OBVIOUS
    <3>1. /\ k \in 0 .. n - 1 /\ m + k \in 0 .. Len(c) - 1 /\ k + 1 \in 1 .. n /\ k <= n
          /\ m + (k + 1) = (m + k) + 1
      BY <1>1
    <3>2. c[(m + k) + 1] = t[k + 1]
      BY <1>1, <3>1
    <3>3. /\ Upto(c, (m + k) + 1) = Upto(c, m + k) + Drops(c[(m + k) + 1])
          /\ Upto(t, k + 1) = Upto(t, k) + Drops(t[k + 1])
      BY <1>1, <3>1, UptoIs DEF MsgSeq
    <3>4. Upto(c, m + k) = Upto(c, m) + Upto(t, k)
      BY <2>2, <3>1
    <3>5. Upto(c, m) \in Nat /\ Upto(t, k) \in Nat /\ Drops(t[k + 1]) \in Nat
      <4>1. m \in 0 .. Len(c) /\ k \in 0 .. Len(t)
        BY <1>1, <3>1
      <4>2. Drops(t[k + 1]) \in Nat
        BY <3>1, MsgAt
      <4> QED
        BY <1>1, <4>1, <4>2, UptoType
    <3> QED
      BY <3>1, <3>2, <3>3, <3>4, <3>5
  <2> HIDE DEF K
  <2>3. Nat \subseteq K
    BY <2>1, <2>2, Induction
  <2> QED
    BY <2>3 DEF K
<1>4. /\ Reported(c) = Upto(c, m + n) /\ Reported(s) = Upto(s, m) /\ Reported(t) = Upto(t, n)
  BY <1>1, UptoIs DEF MsgSeq
<1>5. m <= m /\ n <= n
  BY <1>1
<1> QED
  BY <1>1, <1>2, <1>3, <1>4, <1>5 DEF c

\* A report in a message of its own.
LEMMA ReportedOne ==
  Reported(<<>>) = 0 /\ \A m \in Msgs : Reported(<<m>>) = Drops(m)
<1>1. Reported(<<>>) = 0
  <2>1. <<>> \in Seq(Msgs) /\ Len(<<>>) = 0
    OBVIOUS
  <2> QED
    BY <2>1, UptoIs
<1>2. ASSUME NEW m \in Msgs PROVE Reported(<<m>>) = Drops(m)
  <2>1. <<m>> \in Seq(Msgs) /\ Len(<<m>>) = 1 /\ <<m>>[1] = m
    OBVIOUS
  <2>2. /\ Reported(<<m>>) = Upto(<<m>>, 1) /\ Upto(<<m>>, 0) = 0
        /\ Upto(<<m>>, 0 + 1) = Upto(<<m>>, 0) + Drops(<<m>>[0 + 1])
    <3>1. 0 \in 0 .. Len(<<m>>) - 1
      BY <2>1
    <3> QED
      BY <2>1, <3>1, UptoIs
  <2>3. 0 + 1 = 1 /\ Drops(m) \in Nat
    BY DEF Msgs, Drops
  <2> QED
    BY <2>1, <2>2, <2>3
<1> QED
  BY <1>1, <1>2

-----------------------------------------------------------------------------
(* Sequences of messages put together.                                     *)

\* Concatenation of messages.
LEMMA MsgSeqs ==
  /\ <<>> \in MsgSeq
  /\ \A x \in MsgSeq : x \o <<>> = x /\ <<>> \o x = x /\ Len(x) \in Nat
  /\ \A x, y \in MsgSeq : x \o y \in MsgSeq
  /\ \A x, y, z \in MsgSeq : (x \o y) \o z = x \o (y \o z)
<1>1. MsgSeq = Seq(Msgs)
  BY DEF MsgSeq, Msgs
<1>2. \A x \in Seq(Msgs) : x \o <<>> = x /\ <<>> \o x = x
  BY ConcatEmptySeq
<1>3. \A x, y \in Seq(Msgs) : x \o y \in Seq(Msgs)
  BY ConcatProperties
<1>4. \A x, y, z \in Seq(Msgs) : (x \o y) \o z = x \o (y \o z)
  BY ConcatAssociative
<1>5. <<>> \in Seq(Msgs) /\ \A x \in Seq(Msgs) : Len(x) \in Nat
  OBVIOUS
<1> QED
  BY <1>1, <1>2, <1>3, <1>4, <1>5

\* A sequence in two.
LEMMA SplitAt ==
  ASSUME NEW s \in MsgSeq, NEW k \in 0 .. Len(s)
  PROVE  /\ SubSeq(s, 1, k) \in MsgSeq /\ SubSeq(s, k + 1, Len(s)) \in MsgSeq
         /\ s = SubSeq(s, 1, k) \o SubSeq(s, k + 1, Len(s))
<1>1. s \in Seq(Msgs) /\ Len(s) \in Nat /\ k \in Nat /\ k <= Len(s)
  BY DEF MsgSeq, Msgs
<1>2. 1 \in 1 .. Len(s) + 1 /\ k \in 1 - 1 .. Len(s) /\ Len(s) \in k .. Len(s)
  BY <1>1
<1>3. SubSeq(s, 1, k) \o SubSeq(s, k + 1, Len(s)) = SubSeq(s, 1, Len(s))
  BY <1>1, <1>2, ConcatAdjacentSubSeq
<1>4. SubSeq(s, 1, Len(s)) = s
  BY <1>1, SubSeqFull
<1> QED
  BY <1>1, <1>3, <1>4, Pieces

\* Where the messages of s \o t come from.
LEMMA Positions ==
  ASSUME NEW s \in MsgSeq, NEW t \in MsgSeq
  PROVE  /\ \A i \in DOMAIN s : i \in DOMAIN (s \o t) /\ (s \o t)[i] = s[i]
         /\ \A i \in DOMAIN t : Len(s) + i \in DOMAIN (s \o t) /\ (s \o t)[Len(s) + i] = t[i]
         /\ \A i \in DOMAIN (s \o t) :
              i \in DOMAIN s \/ (i - Len(s) \in DOMAIN t /\ (s \o t)[i] = t[i - Len(s)])
         /\ \A i \in DOMAIN s : i \in Nat /\ i <= Len(s)
         /\ \A i \in DOMAIN t : i \in Nat /\ i >= 1
         /\ DOMAIN (s \o t) \subseteq Nat
         /\ Len(s) \in Nat
<1> DEFINE c == s \o t
           m == Len(s)
           n == Len(t)
<1>1. /\ s \in Seq(Msgs) /\ t \in Seq(Msgs) /\ m \in Nat /\ n \in Nat
      /\ DOMAIN s = 1 .. m /\ DOMAIN t = 1 .. n
  BY DEF MsgSeq, Msgs
<1>2. /\ c \in Seq(Msgs) /\ Len(c) = m + n
      /\ \A i \in 1 .. m + n : c[i] = IF i <= m THEN s[i] ELSE t[i - m]
  BY <1>1, ConcatProperties
<1>3. DOMAIN c = 1 .. m + n
  BY <1>2
<1> HIDE DEF c, m, n
<1>4. ASSUME NEW i \in DOMAIN s PROVE i \in DOMAIN c /\ c[i] = s[i] /\ i \in Nat /\ i <= m
  <2>1. i \in 1 .. m + n /\ i <= m /\ i \in Nat
    BY <1>1
  <2> QED
    BY <1>2, <1>3, <2>1
<1>5. ASSUME NEW i \in DOMAIN t PROVE m + i \in DOMAIN c /\ c[m + i] = t[i] /\ i \in Nat /\ i >= 1
  <2>1. m + i \in 1 .. m + n /\ ~(m + i <= m) /\ (m + i) - m = i /\ i \in Nat /\ i >= 1
    BY <1>1
  <2> QED
    BY <1>2, <1>3, <2>1
<1>6. ASSUME NEW i \in DOMAIN c, i \notin DOMAIN s
      PROVE  i - m \in DOMAIN t /\ c[i] = t[i - m]
  <2>1. i \in 1 .. m + n /\ ~(i <= m) /\ i - m \in 1 .. n
    BY <1>1, <1>3, <1>6
  <2> QED
    BY <1>1, <1>2, <2>1
<1>7. DOMAIN c \subseteq Nat
  BY <1>1, <1>3
<1> QED
  BY <1>1, <1>4, <1>5, <1>6, <1>7 DEF c, m

\* Logged messages are numbered.
LEMMA ItemsType ==
  ASSUME NEW s \in MsgSeq
  PROVE  Items(s) \subseteq Nat
<1>1. \A i \in DOMAIN s : s[i].n \in Nat
  BY MsgAt
<1> QED
  BY <1>1 DEF Items

\* The logged messages of two sequences together.
LEMMA ItemsConcat ==
  ASSUME NEW s \in MsgSeq, NEW t \in MsgSeq
  PROVE  Items(s \o t) = Items(s) \cup Items(t)
<1>1. ASSUME NEW x \in Items(s \o t) PROVE x \in Items(s) \cup Items(t)
  <2>1. PICK i \in DOMAIN (s \o t) : (s \o t)[i].kind = "item" /\ x = (s \o t)[i].n
    BY DEF Items
  <2>2. CASE i \in DOMAIN s
    <3>1. (s \o t)[i] = s[i]
      BY <2>2, Positions
    <3> QED
      BY <2>1, <2>2, <3>1 DEF Items
  <2>3. CASE i - Len(s) \in DOMAIN t /\ (s \o t)[i] = t[i - Len(s)]
    BY <2>1, <2>3 DEF Items
  <2> QED
    BY <2>2, <2>3, Positions
<1>2. ASSUME NEW x \in Items(s) PROVE x \in Items(s \o t)
  <2>1. PICK i \in DOMAIN s : s[i].kind = "item" /\ x = s[i].n
    BY DEF Items
  <2>2. i \in DOMAIN (s \o t) /\ (s \o t)[i] = s[i]
    BY Positions
  <2> QED
    BY <2>1, <2>2 DEF Items
<1>3. ASSUME NEW x \in Items(t) PROVE x \in Items(s \o t)
  <2>1. PICK i \in DOMAIN t : t[i].kind = "item" /\ x = t[i].n
    BY DEF Items
  <2>2. Len(s) + i \in DOMAIN (s \o t) /\ (s \o t)[Len(s) + i] = t[i]
    BY Positions
  <2> QED
    BY <2>1, <2>2 DEF Items
<1> QED
  BY <1>1, <1>2, <1>3

\* All of one set of numbers below all of another.
Below(A, B) == \A a \in A, b \in B : a < b

\* Two sequences together are in order when each is and the second is newer.
LEMMA InOrderConcat ==
  ASSUME NEW s \in MsgSeq, NEW t \in MsgSeq
  PROVE  InOrder(s \o t) <=> InOrder(s) /\ InOrder(t) /\ Below(Items(s), Items(t))
<1> DEFINE c == s \o t
           m == Len(s)
<1>1. /\ \A i \in DOMAIN s : i \in DOMAIN c /\ c[i] = s[i] /\ i \in Nat /\ i <= m
      /\ \A i \in DOMAIN t : m + i \in DOMAIN c /\ c[m + i] = t[i] /\ i \in Nat /\ i >= 1
      /\ \A i \in DOMAIN c :
           i \in DOMAIN s \/ (i - m \in DOMAIN t /\ c[i] = t[i - m])
      /\ DOMAIN c \subseteq Nat /\ m \in Nat
  BY Positions
<1> HIDE DEF c, m
<1>2. ASSUME InOrder(c) PROVE InOrder(s) /\ InOrder(t) /\ Below(Items(s), Items(t))
  <2>1. InOrder(s)
    BY <1>1, <1>2 DEF InOrder
  <2>2. InOrder(t)
    <3> SUFFICES ASSUME NEW i \in DOMAIN t, NEW j \in DOMAIN t, i < j,
                        t[i].kind = "item", t[j].kind = "item"
                 PROVE  t[i].n < t[j].n
      BY DEF InOrder
    <3>1. m + i < m + j
      BY <1>1
    <3>2. /\ m + i \in DOMAIN c /\ m + j \in DOMAIN c /\ c[m + i] = t[i] /\ c[m + j] = t[j]
      BY <1>1
    <3> QED
      BY <1>2, <3>1, <3>2 DEF InOrder
  <2>3. ASSUME NEW a \in Items(s), NEW b \in Items(t) PROVE a < b
    <3>1. PICK i \in DOMAIN s : s[i].kind = "item" /\ a = s[i].n
      BY DEF Items
    <3>2. PICK j \in DOMAIN t : t[j].kind = "item" /\ b = t[j].n
      BY DEF Items
    <3>3. i < m + j
      BY <1>1
    <3>4. i \in DOMAIN c /\ m + j \in DOMAIN c /\ c[i] = s[i] /\ c[m + j] = t[j]
      BY <1>1
    <3> QED
      BY <1>2, <3>1, <3>2, <3>3, <3>4 DEF InOrder
  <2> QED
    BY <2>1, <2>2, <2>3 DEF Below
<1>3. ASSUME InOrder(s), InOrder(t), Below(Items(s), Items(t)) PROVE InOrder(c)
  <2> SUFFICES ASSUME NEW i \in DOMAIN c, NEW j \in DOMAIN c, i < j,
                      c[i].kind = "item", c[j].kind = "item"
               PROVE  c[i].n < c[j].n
    BY DEF InOrder
  <2>1. CASE i \in DOMAIN s /\ j \in DOMAIN s
    BY <1>1, <1>3, <2>1 DEF InOrder
  <2>2. CASE i \in DOMAIN s /\ j - m \in DOMAIN t /\ c[j] = t[j - m]
    <3>1. c[i] = s[i]
      BY <1>1, <2>2
    <3>2. c[i].n \in Items(s) /\ c[j].n \in Items(t)
      BY <2>2, <3>1 DEF Items
    <3> QED
      BY <1>3, <3>2 DEF Below
  <2>3. CASE i \notin DOMAIN s /\ j \in DOMAIN s
    <3>1. i - m \in DOMAIN t
      BY <1>1, <2>3
    <3>2. i - m >= 1 /\ j <= m /\ i \in Nat /\ j \in Nat
      BY <1>1, <2>3, <3>1
    <3> QED
      BY <1>1, <3>2
  <2>4. CASE /\ i - m \in DOMAIN t /\ c[i] = t[i - m]
             /\ j - m \in DOMAIN t /\ c[j] = t[j - m]
    <3>1. i - m < j - m
      BY <1>1
    <3> QED
      BY <1>3, <2>4, <3>1 DEF InOrder
  <2> QED
    BY <1>1, <2>1, <2>2, <2>3, <2>4
<1> QED
  BY <1>2, <1>3 DEF c

\* What is in order is there once.
LEMMA OrderedOnce ==
  ASSUME NEW s \in MsgSeq, InOrder(s)
  PROVE  EachOnce(s)
<1> SUFFICES ASSUME NEW i \in DOMAIN s, NEW j \in DOMAIN s, s[i].kind = "item", s[i] = s[j]
             PROVE  i = j
  BY DEF EachOnce
<1>1. i \in Nat /\ j \in Nat /\ s[i].n \in Nat
  BY MsgAt
<1>2. ~(s[i].n < s[i].n)
  BY <1>1
<1>3. ~(i < j) /\ ~(j < i)
  BY <1>2 DEF InOrder
<1> QED
  BY <1>1, <1>3

\* Two sequences that share no message.
LEMMA OnceConcat ==
  ASSUME NEW s \in MsgSeq, NEW t \in MsgSeq, EachOnce(s), EachOnce(t),
         Items(s) \cap Items(t) = {}
  PROVE  EachOnce(s \o t)
<1> DEFINE c == s \o t
           m == Len(s)
<1>1. /\ \A i \in DOMAIN s : c[i] = s[i]
      /\ \A i \in DOMAIN c :
           i \in DOMAIN s \/ (i - m \in DOMAIN t /\ c[i] = t[i - m])
      /\ DOMAIN c \subseteq Nat /\ m \in Nat
  BY Positions
<1> HIDE DEF c, m
<1>2. /\ \A i \in DOMAIN s : s[i].kind = "item" => s[i].n \in Items(s)
      /\ \A i \in DOMAIN t : t[i].kind = "item" => t[i].n \in Items(t)
  BY DEF Items
<1> SUFFICES ASSUME NEW i \in DOMAIN c, NEW j \in DOMAIN c, c[i].kind = "item", c[i] = c[j]
             PROVE  i = j
  BY DEF EachOnce, c
<1>3. CASE i \in DOMAIN s /\ j \in DOMAIN s
  BY <1>1, <1>3 DEF EachOnce
<1>4. CASE /\ i - m \in DOMAIN t /\ c[i] = t[i - m]
           /\ j - m \in DOMAIN t /\ c[j] = t[j - m]
  <2>1. i - m = j - m
    BY <1>4 DEF EachOnce
  <2> QED
    BY <1>1, <2>1
<1>5. CASE i \in DOMAIN s /\ j - m \in DOMAIN t /\ c[j] = t[j - m]
  <2>1. s[i].n \in Items(s) /\ t[j - m].n \in Items(t) /\ s[i] = t[j - m]
    BY <1>1, <1>2, <1>5
  <2> QED
    BY <2>1
<1>6. CASE j \in DOMAIN s /\ i - m \in DOMAIN t /\ c[i] = t[i - m]
  <2>1. s[j].n \in Items(s) /\ t[i - m].n \in Items(t) /\ s[j] = t[i - m]
    BY <1>1, <1>2, <1>6
  <2> QED
    BY <2>1
<1> QED
  BY <1>1, <1>3, <1>4, <1>5, <1>6

-----------------------------------------------------------------------------
(* Where messages are.                                                     *)

\* Messages that were written (w), wait (o), were lost (l) or discarded (d): those that
\* wait come after all that ever waited, and no message went two ways.
Apart(w, o, l, d) ==
    /\ InOrder(w \o o) /\ InOrder(l \o o) /\ InOrder(d \o o)
    /\ Items(w) \cap Items(l) = {} /\ Items(w) \cap Items(d) = {}
    /\ Items(l) \cap Items(d) = {}

Held(w, o, l, d) == Items(w) \cup Items(o) \cup Items(l) \cup Items(d)
Tallied(w, o, l, d) == Reported(w) + Reported(o) + Reported(l) + Reported(d)

PlaceInv ==
    /\ Apart(wire, out \o queue, lost, discarded)
    /\ refused \subseteq 1 .. pushed
    /\ Held(wire, out \o queue, lost, discarded) = (1 .. pushed) \ refused
    /\ Tallied(wire, out \o queue, lost, discarded) + dropped = Cardinality(refused)

\* A step that adds no message and m drop reports to what waits, and takes from it.
Moved(m) ==
    /\ Apart(wire', out' \o queue', lost', discarded')
    /\ Held(wire', out' \o queue', lost', discarded')
         = Held(wire, out \o queue, lost, discarded)
    /\ Tallied(wire', out' \o queue', lost', discarded')
         = Tallied(wire, out \o queue, lost, discarded) + m

\* What waits is taken from its front: first what is written, then what is lost or
\* discarded.
LEMMA Move ==
  ASSUME NEW w \in MsgSeq, NEW l \in MsgSeq, NEW d \in MsgSeq,
         NEW p \in MsgSeq, NEW q \in MsgSeq, NEW r \in MsgSeq,
         Apart(w, (p \o q) \o r, l, d)
  PROVE  /\ Apart(w \o p, r, l \o q, d) /\ Apart(w \o p, r, l, d \o q)
         /\ Held(w \o p, r, l \o q, d) = Held(w, (p \o q) \o r, l, d)
         /\ Held(w \o p, r, l, d \o q) = Held(w, (p \o q) \o r, l, d)
         /\ Tallied(w \o p, r, l \o q, d) = Tallied(w, (p \o q) \o r, l, d)
         /\ Tallied(w \o p, r, l, d \o q) = Tallied(w, (p \o q) \o r, l, d)
<1> DEFINE o == (p \o q) \o r
<1>1. /\ p \o q \in MsgSeq /\ o \in MsgSeq /\ w \o p \in MsgSeq /\ l \o q \in MsgSeq
      /\ d \o q \in MsgSeq
  BY MsgSeqs
<1>2. /\ Items(o) = Items(p) \cup Items(q) \cup Items(r)
      /\ Items(p \o q) = Items(p) \cup Items(q)
      /\ Items(w \o p) = Items(w) \cup Items(p) /\ Items(l \o q) = Items(l) \cup Items(q)
      /\ Items(d \o q) = Items(d) \cup Items(q)
  BY <1>1, ItemsConcat
<1>3. /\ Items(w) \subseteq Nat /\ Items(l) \subseteq Nat /\ Items(d) \subseteq Nat
      /\ Items(p) \subseteq Nat /\ Items(q) \subseteq Nat /\ Items(r) \subseteq Nat
  BY ItemsType
<1>4. /\ InOrder(w) /\ InOrder(l) /\ InOrder(d) /\ InOrder(o)
      /\ Below(Items(w), Items(o)) /\ Below(Items(l), Items(o)) /\ Below(Items(d), Items(o))
  BY <1>1, InOrderConcat DEF Apart
<1>5. /\ InOrder(p) /\ InOrder(q) /\ InOrder(r)
      /\ Below(Items(p), Items(q)) /\ Below(Items(p \o q), Items(r))
  BY <1>1, <1>4, InOrderConcat
<1>6. /\ Below(Items(p), Items(r)) /\ Below(Items(q), Items(r))
      /\ Below(Items(w), Items(p)) /\ Below(Items(w), Items(q)) /\ Below(Items(w), Items(r))
      /\ Below(Items(l), Items(p)) /\ Below(Items(l), Items(q)) /\ Below(Items(l), Items(r))
      /\ Below(Items(d), Items(p)) /\ Below(Items(d), Items(q)) /\ Below(Items(d), Items(r))
  BY <1>2, <1>4, <1>5 DEF Below
<1>7. /\ InOrder((w \o p) \o r) /\ InOrder((l \o q) \o r) /\ InOrder((d \o q) \o r)
      /\ InOrder(l \o r) /\ InOrder(d \o r)
  <2>1. InOrder(w \o p) /\ InOrder(l \o q) /\ InOrder(d \o q)
    BY <1>4, <1>5, <1>6, InOrderConcat
  <2>2. /\ Below(Items(w \o p), Items(r)) /\ Below(Items(l \o q), Items(r))
        /\ Below(Items(d \o q), Items(r))
    BY <1>2, <1>6 DEF Below
  <2> QED
    BY <1>1, <1>4, <1>5, <1>6, <2>1, <2>2, InOrderConcat
<1>8. ASSUME NEW A \in SUBSET Nat, NEW B \in SUBSET Nat, Below(A, B) PROVE A \cap B = {}
  BY <1>8 DEF Below
<1>9. /\ Items(w) \cap Items(q) = {} /\ Items(l) \cap Items(p) = {}
      /\ Items(d) \cap Items(p) = {} /\ Items(d) \cap Items(q) = {}
      /\ Items(l) \cap Items(q) = {} /\ Items(p) \cap Items(q) = {}
  BY <1>3, <1>5, <1>6, <1>8
<1>10. Apart(w \o p, r, l \o q, d) /\ Apart(w \o p, r, l, d \o q)
  <2>1. /\ Items(w) \cap Items(l) = {} /\ Items(w) \cap Items(d) = {}
        /\ Items(l) \cap Items(d) = {}
    BY DEF Apart
  <2>2. /\ Items(w \o p) \cap Items(l \o q) = {} /\ Items(w \o p) \cap Items(d \o q) = {}
        /\ Items(w \o p) \cap Items(l) = {} /\ Items(w \o p) \cap Items(d) = {}
        /\ Items(l \o q) \cap Items(d) = {} /\ Items(l) \cap Items(d \o q) = {}
    BY <1>2, <1>9, <2>1
  <2> QED
    BY <1>7, <2>2 DEF Apart
<1>11. /\ Held(w \o p, r, l \o q, d) = Held(w, o, l, d)
       /\ Held(w \o p, r, l, d \o q) = Held(w, o, l, d)
  BY <1>2 DEF Held
<1>12. /\ Tallied(w \o p, r, l \o q, d) = Tallied(w, o, l, d)
       /\ Tallied(w \o p, r, l, d \o q) = Tallied(w, o, l, d)
  <2>1. /\ Reported(o) = Reported(p \o q) + Reported(r)
        /\ Reported(p \o q) = Reported(p) + Reported(q)
        /\ Reported(w \o p) = Reported(w) + Reported(p)
        /\ Reported(l \o q) = Reported(l) + Reported(q)
        /\ Reported(d \o q) = Reported(d) + Reported(q)
    BY <1>1, ReportedConcat
  <2>2. /\ Reported(w) \in Nat /\ Reported(l) \in Nat /\ Reported(d) \in Nat
        /\ Reported(p) \in Nat /\ Reported(q) \in Nat /\ Reported(r) \in Nat
    BY ReportedType
  <2> HIDE DEF o
  <2> QED
    BY <2>1, <2>2 DEF Tallied
<1> QED
  BY <1>10, <1>11, <1>12

\* A report of drops among what waits.
LEMMA ReportAdded ==
  ASSUME NEW w \in MsgSeq, NEW l \in MsgSeq, NEW d \in MsgSeq,
         NEW x \in MsgSeq, NEW m \in MsgSeq, NEW y \in MsgSeq,
         InOrder(m), Items(m) = {}, Apart(w, x \o y, l, d)
  PROVE  /\ Apart(w, x \o (m \o y), l, d)
         /\ Held(w, x \o (m \o y), l, d) = Held(w, x \o y, l, d)
         /\ Tallied(w, x \o (m \o y), l, d) = Tallied(w, x \o y, l, d) + Reported(m)
<1> DEFINE o == x \o y
           n == x \o (m \o y)
<1>1. m \o y \in MsgSeq /\ o \in MsgSeq /\ n \in MsgSeq
  BY MsgSeqs
<1>2. /\ Items(m \o y) = Items(m) \cup Items(y) /\ Items(o) = Items(x) \cup Items(y)
      /\ Items(n) = Items(x) \cup Items(m \o y)
  BY <1>1, ItemsConcat
<1>3. Items(n) = Items(o)
  BY <1>2
<1>4. /\ InOrder(w) /\ InOrder(l) /\ InOrder(d) /\ InOrder(o)
      /\ Below(Items(w), Items(o)) /\ Below(Items(l), Items(o)) /\ Below(Items(d), Items(o))
  BY <1>1, InOrderConcat DEF Apart
<1>5. InOrder(n)
  <2>1. InOrder(x) /\ InOrder(y) /\ Below(Items(x), Items(y))
    BY <1>4, InOrderConcat
  <2>2. Below(Items(m), Items(y))
    BY DEF Below
  <2>3. InOrder(m \o y)
    BY <2>1, <2>2, InOrderConcat
  <2> QED
    BY <1>1, <1>2, <2>1, <2>3, InOrderConcat
<1>6. Reported(n) = Reported(o) + Reported(m)
  <2>1. /\ Reported(n) = Reported(x) + Reported(m \o y)
        /\ Reported(m \o y) = Reported(m) + Reported(y)
        /\ Reported(o) = Reported(x) + Reported(y)
    BY <1>1, ReportedConcat
  <2>2. Reported(x) \in Nat /\ Reported(y) \in Nat /\ Reported(m) \in Nat
    BY ReportedType
  <2> HIDE DEF n, o
  <2> QED
    BY <2>1, <2>2
<1>7. /\ Reported(w) \in Nat /\ Reported(l) \in Nat /\ Reported(d) \in Nat
      /\ Reported(o) \in Nat /\ Reported(m) \in Nat
  BY <1>1, ReportedType
<1> HIDE DEF n, o
<1>8. InOrder(w \o n) /\ InOrder(l \o n) /\ InOrder(d \o n)
  BY <1>1, <1>3, <1>4, <1>5, InOrderConcat
<1>9. Apart(w, n, l, d)
  BY <1>8 DEF Apart
<1>10. Held(w, n, l, d) = Held(w, o, l, d)
  BY <1>3 DEF Held
<1>11. Tallied(w, n, l, d) = Tallied(w, o, l, d) + Reported(m)
  BY <1>6, <1>7 DEF Tallied
<1> QED
  BY <1>9, <1>10, <1>11 DEF n, o

-----------------------------------------------------------------------------
(* The steps that move messages.                                           *)

\* The sequences of PlaceInv.
LEMMA PlaceType ==
  ASSUME SenderInv
  PROVE  /\ wire \in MsgSeq /\ out \in MsgSeq /\ queue \in MsgSeq /\ lost \in MsgSeq
         /\ discarded \in MsgSeq /\ out \o queue \in MsgSeq /\ dropped \in Nat
         /\ pushed \in Nat
         /\ Tallied(wire, out \o queue, lost, discarded) \in Nat
<1>1. /\ wire \in MsgSeq /\ out \in MsgSeq /\ queue \in MsgSeq /\ lost \in MsgSeq
      /\ discarded \in MsgSeq /\ dropped \in Nat /\ pushed \in Nat
  BY DEF SenderInv, QueueType, ConnType, CallerType
<1>2. out \o queue \in MsgSeq
  BY <1>1, MsgSeqs
<1>3. /\ Reported(wire) \in Nat /\ Reported(out \o queue) \in Nat /\ Reported(lost) \in Nat
      /\ Reported(discarded) \in Nat
  BY <1>1, <1>2, ReportedType
<1> QED
  BY <1>1, <1>2, <1>3 DEF Tallied

\* Such a step keeps the places right, if the drops it reports were to be reported.
LEMMA MovedKeeps ==
  ASSUME SenderInv, PlaceInv, NEW m \in Nat, Moved(m), dropped' \in Nat, m + dropped' = dropped,
         UNCHANGED <<refused, pushed>>
  PROVE  PlaceInv'
<1>1. /\ Tallied(wire, out \o queue, lost, discarded) \in Nat
      /\ Tallied(wire, out \o queue, lost, discarded) + dropped = Cardinality(refused)
  BY PlaceType DEF PlaceInv
<1>2. Tallied(wire', out' \o queue', lost', discarded') + dropped' = Cardinality(refused)
  BY <1>1 DEF Moved
<1> QED
  BY <1>2 DEF Moved, PlaceInv

\* take_dropped() and drain(): the batch and the queue are the report and the queue.
LEMMA Drained ==
  ASSUME SenderInv, PlaceInv, Drain
  PROVE  /\ Batch \in MsgSeq /\ queue' \in MsgSeq
         /\ Apart(wire, out \o (Batch \o queue'), lost, discarded)
         /\ Held(wire, out \o (Batch \o queue'), lost, discarded)
              = Held(wire, out \o queue, lost, discarded)
         /\ Tallied(wire, out \o (Batch \o queue'), lost, discarded)
              = Tallied(wire, out \o queue, lost, discarded) + dropped
<1> DEFINE r == IF dropped > 0 THEN <<LogDropped(dropped)>> ELSE <<>>
           k == IF Len(queue) < max_batch THEN Len(queue) ELSE max_batch
           h == SubSeq(queue, 1, k)
<1>1. /\ wire \in MsgSeq /\ out \in MsgSeq /\ queue \in MsgSeq /\ lost \in MsgSeq
      /\ discarded \in MsgSeq /\ dropped \in Nat
  BY PlaceType
<1>2. Len(queue) \in Nat /\ max_batch \in Nat /\ k \in 0 .. Len(queue)
  BY <1>1, MsgSeqs, OptionsArePositive
<1>3. queue' = SubSeq(queue, k + 1, Len(queue))
  <2>1. queue' = SubSeq(queue, max_batch + 1, Len(queue))
    BY DEF Drain
  <2>2. CASE Len(queue) < max_batch
    <3>1. k = Len(queue)
      BY <2>2
    <3> HIDE DEF k
    <3>2. /\ SubSeq(queue, max_batch + 1, Len(queue)) = <<>>
          /\ SubSeq(queue, k + 1, Len(queue)) = <<>>
      BY <1>2, <2>2, <3>1, SubSeqEmpty
    <3> QED
      BY <2>1, <3>2
  <2>3. CASE ~(Len(queue) < max_batch)
    BY <2>1, <2>3
  <2> QED
    BY <2>2, <2>3
<1>4. Batch = r \o h
  BY DEF Batch
<1> HIDE DEF k
<1>5. h \in MsgSeq /\ queue' \in MsgSeq /\ queue = h \o queue'
  BY <1>1, <1>2, <1>3, SplitAt
<1> HIDE DEF h
<1>6. r \in MsgSeq /\ InOrder(r) /\ Items(r) = {} /\ Reported(r) = dropped
  <2>1. CASE dropped > 0
    <3> DEFINE m == LogDropped(dropped)
    <3>1. r = <<m>>
      BY <2>1
    <3>2. m \in Msgs /\ m.kind = "dropped" /\ m.n = dropped
      BY <1>1 DEF LogDropped, Msgs
    <3> HIDE DEF m, r
    <3>3. /\ <<m>> \in MsgSeq /\ DOMAIN <<m>> = 1 .. 1 /\ <<m>>[1] = m
      <4>1. <<m>> \in Seq(Msgs)
        BY <3>2
      <4> QED
        BY <4>1 DEF MsgSeq, Msgs
    <3>4. \A i \in DOMAIN <<m>> : <<m>>[i].kind # "item"
      BY <3>2, <3>3
    <3>5. InOrder(r) /\ Items(r) = {}
      BY <3>1, <3>4 DEF InOrder, Items
    <3>6. Reported(<<m>>) = dropped
      BY <3>2, ReportedOne DEF Drops
    <3> QED
      BY <3>1, <3>3, <3>5, <3>6
  <2>2. CASE ~(dropped > 0)
    <3>1. r = <<>> /\ dropped = 0
      BY <1>1, <2>2
    <3> HIDE DEF r
    <3>2. DOMAIN <<>> = {}
      OBVIOUS
    <3>3. InOrder(<<>>) /\ Items(<<>>) = {}
      BY <3>2 DEF InOrder, Items
    <3> QED
      BY <3>1, <3>3, ReportedOne, MsgSeqs
  <2> QED
    BY <2>1, <2>2
<1> HIDE DEF r
<1>7. Batch \in MsgSeq /\ r \o queue = Batch \o queue'
  BY <1>4, <1>5, <1>6, MsgSeqs
<1>8. Apart(wire, out \o queue, lost, discarded)
  BY DEF PlaceInv
<1>9. /\ Apart(wire, out \o (r \o queue), lost, discarded)
      /\ Held(wire, out \o (r \o queue), lost, discarded)
           = Held(wire, out \o queue, lost, discarded)
      /\ Tallied(wire, out \o (r \o queue), lost, discarded)
           = Tallied(wire, out \o queue, lost, discarded) + Reported(r)
  BY <1>1, <1>6, <1>8, ReportAdded
<1> QED
  BY <1>5, <1>6, <1>7, <1>9

\* Move, when nothing is lost or discarded.
LEMMA MoveWritten ==
  ASSUME NEW w \in MsgSeq, NEW l \in MsgSeq, NEW d \in MsgSeq, NEW p \in MsgSeq,
         NEW r \in MsgSeq, Apart(w, p \o r, l, d)
  PROVE  /\ Apart(w \o p, r, l, d)
         /\ Held(w \o p, r, l, d) = Held(w, p \o r, l, d)
         /\ Tallied(w \o p, r, l, d) = Tallied(w, p \o r, l, d)
<1>1. PICK e \in MsgSeq : p \o e = p /\ l \o e = l
  BY MsgSeqs
<1>2. Apart(w, (p \o e) \o r, l, d)
  BY <1>1
<1>3. /\ Apart(w \o p, r, l \o e, d)
      /\ Held(w \o p, r, l \o e, d) = Held(w, (p \o e) \o r, l, d)
      /\ Tallied(w \o p, r, l \o e, d) = Tallied(w, (p \o e) \o r, l, d)
  BY <1>2, Move
<1> QED
  BY <1>1, <1>3

\* Associativity by itself.
LEMMA MsgAssoc ==
  ASSUME NEW x \in MsgSeq, NEW y \in MsgSeq, NEW z \in MsgSeq
  PROVE  (x \o y) \o z = x \o (y \o z)
BY MsgSeqs

\* A round of send_batch: the first k messages of the batch are written, the others
\* wait, are lost with the connection or are discarded.
LEMMA RoundMoves ==
  ASSUME SenderInv, PlaceInv, Drain, NEW k \in 0 .. Len(Batch)
  PROVE  LET b1 == SubSeq(Batch, 1, k)
             b2 == SubSeq(Batch, k + 1, Len(Batch))
         IN  /\ out # <<>> => k = 0
             /\ wire' = wire \o b1
             /\ \/ out' = out \o b2 /\ lost' = lost /\ discarded' = discarded
                \/ out' = <<>> /\ out = <<>> /\ lost' = lost \o b2 /\ discarded' = discarded
                \/ out' = <<>> /\ lost' = lost /\ discarded' = discarded \o (out \o b2)
             => Moved(dropped)
<1> DEFINE b1 == SubSeq(Batch, 1, k)
           b2 == SubSeq(Batch, k + 1, Len(Batch))
           o == out \o (Batch \o queue')
           y == out \o b2
           z == y \o queue'
<1>1. /\ wire \in MsgSeq /\ out \in MsgSeq /\ lost \in MsgSeq /\ discarded \in MsgSeq
      /\ queue' \in MsgSeq
  BY PlaceType, Drained
<1>2. b1 \in MsgSeq /\ b2 \in MsgSeq
  BY Drained, SplitAt
<1>0. Batch = b1 \o b2
  BY Drained, SplitAt
<1>3. k = 0 => b1 = <<>>
  BY SubSeqEmpty
<1> HIDE DEF b1, b2
<1>4. y \in MsgSeq /\ z \in MsgSeq
  <2>1. y \in MsgSeq
    BY <1>1, <1>2, MsgSeqs
  <2> HIDE DEF y
  <2> QED
    BY <1>1, <2>1, MsgSeqs
<1>5. <<>> \o queue' = queue' /\ (out = <<>> => y = b2)
  BY <1>1, <1>2, MsgSeqs
<1>6. /\ Apart(wire, o, lost, discarded)
      /\ Held(wire, o, lost, discarded) = Held(wire, out \o queue, lost, discarded)
      /\ Tallied(wire, o, lost, discarded)
           = Tallied(wire, out \o queue, lost, discarded) + dropped
  BY Drained
<1>7. (out # <<>> => k = 0) => o = (b1 \o y) \o queue' /\ o = b1 \o z
  <2> DEFINE q == queue'
             x == out
  <2>1. q \in MsgSeq /\ x \in MsgSeq
    BY <1>1
  <2> HIDE DEF q, x
  <2>2. (b1 \o y) \o q = b1 \o (y \o q)
    <3>1. y \in MsgSeq
      BY <1>4
    <3> HIDE DEF y
    <3> QED
      BY <1>2, <2>1, <3>1, MsgAssoc
  <2>3. b1 \o b2 \in MsgSeq
    BY <1>2, MsgSeqs
  <2>4. x \o ((b1 \o b2) \o q) = (b1 \o (x \o b2)) \o q
        \/ ~(x = <<>> \/ b1 = <<>>)
    <3>1. CASE x = <<>>
      <4>1. x \o b2 = b2 /\ x \o ((b1 \o b2) \o q) = (b1 \o b2) \o q
        BY <1>2, <2>1, <2>3, <3>1, MsgSeqs
      <4> QED
        BY <4>1
    <3>2. CASE b1 = <<>>
      <4> DEFINE t == x \o b2
      <4>1. t \in MsgSeq
        BY <1>2, <2>1, MsgSeqs
      <4>2. x \o (b2 \o q) = t \o q
        BY <1>2, <2>1, MsgAssoc
      <4> HIDE DEF t
      <4>3. b1 \o b2 = b2 /\ b1 \o t = t
        BY <1>2, <3>2, <4>1, MsgSeqs
      <4>4. x \o ((b1 \o b2) \o q) = (b1 \o t) \o q
        BY <4>2, <4>3
      <4> QED
        BY <4>4 DEF t
    <3> QED
      BY <3>1, <3>2
  <2> QED
    BY <1>0, <1>3, <2>2, <2>4 DEF q, x
<1> HIDE DEF o, y, z
<1>9. o = b1 \o z =>
        /\ Apart(wire \o b1, z, lost, discarded)
        /\ Held(wire \o b1, z, lost, discarded) = Held(wire, o, lost, discarded)
        /\ Tallied(wire \o b1, z, lost, discarded) = Tallied(wire, o, lost, discarded)
  <2>1. Apart(wire, b1 \o z, lost, discarded) =>
          /\ Apart(wire \o b1, z, lost, discarded)
          /\ Held(wire \o b1, z, lost, discarded) = Held(wire, b1 \o z, lost, discarded)
          /\ Tallied(wire \o b1, z, lost, discarded) = Tallied(wire, b1 \o z, lost, discarded)
    <3>1. /\ wire \in MsgSeq /\ lost \in MsgSeq /\ discarded \in MsgSeq
          /\ b1 \in MsgSeq /\ z \in MsgSeq
      BY <1>1, <1>2, <1>4
    <3> QED
      BY <3>1, MoveWritten
  <2> QED
    BY <1>6, <2>1
<1>10. o = (b1 \o y) \o queue' =>
        /\ Apart(wire \o b1, queue', lost \o y, discarded)
        /\ Held(wire \o b1, queue', lost \o y, discarded) = Held(wire, o, lost, discarded)
        /\ Tallied(wire \o b1, queue', lost \o y, discarded) = Tallied(wire, o, lost, discarded)
        /\ Apart(wire \o b1, queue', lost, discarded \o y)
        /\ Held(wire \o b1, queue', lost, discarded \o y) = Held(wire, o, lost, discarded)
        /\ Tallied(wire \o b1, queue', lost, discarded \o y) = Tallied(wire, o, lost, discarded)
  <2> DEFINE q == queue'
  <2>1. /\ wire \in MsgSeq /\ lost \in MsgSeq /\ discarded \in MsgSeq
        /\ b1 \in MsgSeq /\ y \in MsgSeq /\ q \in MsgSeq
    BY <1>1, <1>2, <1>4
  <2> HIDE DEF q
  <2>2. ASSUME Apart(wire, (b1 \o y) \o q, lost, discarded)
        PROVE  /\ Apart(wire \o b1, q, lost \o y, discarded)
               /\ Apart(wire \o b1, q, lost, discarded \o y)
               /\ Held(wire \o b1, q, lost \o y, discarded)
                    = Held(wire, (b1 \o y) \o q, lost, discarded)
               /\ Held(wire \o b1, q, lost, discarded \o y)
                    = Held(wire, (b1 \o y) \o q, lost, discarded)
               /\ Tallied(wire \o b1, q, lost \o y, discarded)
                    = Tallied(wire, (b1 \o y) \o q, lost, discarded)
               /\ Tallied(wire \o b1, q, lost, discarded \o y)
                    = Tallied(wire, (b1 \o y) \o q, lost, discarded)
    BY <2>1, <2>2, Move
  <2> QED
    BY <1>6, <2>2 DEF q
<1>11. ASSUME out # <<>> => k = 0, wire' = wire \o b1,
              \/ out' = y /\ lost' = lost /\ discarded' = discarded
              \/ out' = <<>> /\ out = <<>> /\ lost' = lost \o b2 /\ discarded' = discarded
              \/ out' = <<>> /\ lost' = lost /\ discarded' = discarded \o y
       PROVE  Moved(dropped)
  <2>1. o = (b1 \o y) \o queue' /\ o = b1 \o z
    BY <1>7, <1>11
  <2>2. CASE out' = y /\ lost' = lost /\ discarded' = discarded
    BY <1>6, <1>9, <1>11, <2>1, <2>2 DEF Moved, z
  <2>3. CASE out' = <<>> /\ out = <<>> /\ lost' = lost \o b2 /\ discarded' = discarded
    BY <1>5, <1>6, <1>10, <1>11, <2>1, <2>3 DEF Moved
  <2>4. CASE out' = <<>> /\ lost' = lost /\ discarded' = discarded \o y
    BY <1>5, <1>6, <1>10, <1>11, <2>1, <2>4 DEF Moved
  <2> QED
    BY <1>11, <2>2, <2>3, <2>4
<1> QED
  BY <1>11 DEF y, b1, b2

\* A message newer than all others among what waits.
LEMMA ItemAdded ==
  ASSUME NEW w \in MsgSeq, NEW l \in MsgSeq, NEW d \in MsgSeq, NEW o \in MsgSeq,
         NEW n \in Nat, Apart(w, o, l, d), \A i \in Held(w, o, l, d) : i < n
  PROVE  /\ Apart(w, o \o <<Item(n)>>, l, d)
         /\ Held(w, o \o <<Item(n)>>, l, d) = Held(w, o, l, d) \cup {n}
         /\ Tallied(w, o \o <<Item(n)>>, l, d) = Tallied(w, o, l, d)
<1> DEFINE m == Item(n)
           c == o \o <<m>>
<1>1. m \in Msgs /\ m.kind = "item" /\ m.n = n
  BY DEF Item, Msgs
<1> HIDE DEF m
<1>2. <<m>> \in MsgSeq /\ DOMAIN <<m>> = 1 .. 1 /\ <<m>>[1] = m
  <2>1. <<m>> \in Seq(Msgs)
    BY <1>1
  <2> QED
    BY <2>1 DEF MsgSeq, Msgs
<1>3. Items(<<m>>) = {n}
  <2>1. \A i \in DOMAIN <<m>> : <<m>>[i] = m
    BY <1>2
  <2>2. 1 \in DOMAIN <<m>>
    BY <1>2
  <2> QED
    BY <1>1, <2>1, <2>2 DEF Items
<1>4. InOrder(<<m>>)
  BY <1>2 DEF InOrder
<1>5. Reported(<<m>>) = 0
  BY <1>1, ReportedOne DEF Drops
<1>6. c \in MsgSeq /\ Items(c) = Items(o) \cup {n} /\ Reported(c) = Reported(o) + 0
  BY <1>2, <1>3, <1>5, MsgSeqs, ItemsConcat, ReportedConcat
<1>7. /\ InOrder(w) /\ InOrder(l) /\ InOrder(d) /\ InOrder(o)
      /\ Below(Items(w), Items(o)) /\ Below(Items(l), Items(o)) /\ Below(Items(d), Items(o))
  BY InOrderConcat DEF Apart
<1>8. /\ Below(Items(o), {n})
      /\ Below(Items(w), Items(c)) /\ Below(Items(l), Items(c)) /\ Below(Items(d), Items(c))
  BY <1>6, <1>7 DEF Below, Held
<1>9. InOrder(c)
  BY <1>2, <1>3, <1>4, <1>7, <1>8, InOrderConcat
<1> HIDE DEF c
<1>10. Apart(w, c, l, d)
  BY <1>6, <1>7, <1>8, <1>9, InOrderConcat DEF Apart
<1>11. Held(w, c, l, d) = Held(w, o, l, d) \cup {n}
  BY <1>6 DEF Held
<1>12. Tallied(w, c, l, d) = Tallied(w, o, l, d)
  <2>1. Reported(o) \in Nat
    BY ReportedType
  <2> QED
    BY <1>6, <2>1 DEF Tallied
<1> QED
  BY <1>10, <1>11, <1>12 DEF c, m

\* push() refuses the message and counts it, or puts it behind the others.
LEMMA PushPlaces ==
  ASSUME SenderInv, PlaceInv, NEW t \in Threads, push(t)
  PROVE  PlaceInv'
<1> DEFINE o == out \o queue
           n == pushed + 1
           C == Cardinality(refused)
           T == Tallied(wire, o, lost, discarded)
<1>1. /\ wire \in MsgSeq /\ out \in MsgSeq /\ queue \in MsgSeq /\ lost \in MsgSeq
      /\ discarded \in MsgSeq /\ o \in MsgSeq /\ dropped \in Nat
      /\ pushed \in Nat /\ T \in Nat
  BY PlaceType
<1>2. /\ Apart(wire, o, lost, discarded) /\ refused \subseteq 1 .. pushed
      /\ Held(wire, o, lost, discarded) = (1 .. pushed) \ refused
      /\ T + dropped = C
  BY DEF PlaceInv
<1>3. /\ pushed' = n /\ wire' = wire /\ out' = out /\ lost' = lost
      /\ discarded' = discarded
  BY DEF push, connVars
<1>4. n \in Nat /\ n \notin 1 .. pushed /\ 1 .. n = (1 .. pushed) \cup {n}
      /\ \A i \in 1 .. pushed : i < n
  BY <1>1
<1>5. CASE /\ dropped' = dropped + 1 /\ refused' = refused \cup {n} /\ queue' = queue
  <2>1. IsFiniteSet(refused)
    <3>1. IsFiniteSet(1 .. pushed)
      BY <1>1, FS_Interval
    <3> QED
      BY <1>2, <3>1, FS_Subset
  <2>2. Cardinality(refused \cup {n}) = C + 1
    <3>1. n \notin refused
      BY <1>2, <1>4
    <3> HIDE DEF n
    <3> QED
      BY <2>1, <3>1, FS_AddElement
  <2>3. T + (dropped + 1) = C + 1
    <3> HIDE DEF T, C
    <3> QED
      BY <1>1, <1>2
  <2>4. refused \cup {n} \subseteq 1 .. n /\ (1 .. n) \ (refused \cup {n}) = (1 .. pushed) \ refused
    <3> HIDE DEF n
    <3> QED
      BY <1>2, <1>4
  <2> QED
    BY <1>2, <1>3, <1>5, <2>2, <2>3, <2>4 DEF PlaceInv
<1>6. CASE /\ queue' = Append(queue, Item(n)) /\ dropped' = dropped /\ refused' = refused
  <2> DEFINE e == <<Item(n)>>
  <2>1. e \in MsgSeq /\ Append(queue, Item(n)) = queue \o e
    <3>1. Item(n) \in Msgs
      BY <1>4 DEF Item, Msgs
    <3> DEFINE x == Item(n)
    <3> HIDE DEF x
    <3>2. queue \in Seq(Msgs)
      BY <1>1 DEF MsgSeq, Msgs
    <3>3. <<x>> \in Seq(Msgs) /\ Append(queue, x) = queue \o <<x>>
      BY <3>1, <3>2, AppendIsConcat DEF x
    <3> QED
      BY <3>3 DEF x, MsgSeq, Msgs
  <2> HIDE DEF e
  <2>2. out' \o queue' = o \o e
    <3>1. out \in MsgSeq /\ queue \in MsgSeq /\ e \in MsgSeq
      BY <1>1, <2>1
    <3>2. (out \o queue) \o e = out \o (queue \o e)
      BY <3>1, MsgAssoc
    <3> QED
      BY <1>3, <1>6, <2>1, <3>2
  <2>3. \A i \in Held(wire, o, lost, discarded) : i < n
    BY <1>2, <1>4
  <2>4. /\ Apart(wire, o \o e, lost, discarded)
        /\ Held(wire, o \o e, lost, discarded) = Held(wire, o, lost, discarded) \cup {n}
        /\ Tallied(wire, o \o e, lost, discarded) = T
    <3> HIDE DEF o, n
    <3> QED
      BY <1>1, <1>2, <1>4, <2>3, ItemAdded DEF e
  <2>5. refused \subseteq 1 .. n /\ (1 .. n) \ refused = ((1 .. pushed) \ refused) \cup {n}
    <3> HIDE DEF n
    <3> QED
      BY <1>2, <1>4
  <2> QED
    BY <1>2, <1>3, <1>6, <2>2, <2>4, <2>5 DEF PlaceInv
<1> QED
  BY <1>3, <1>5, <1>6 DEF push

\* A step that moves no message.
PlaceVars == <<wire, out, queue, lost, discarded, dropped, refused, pushed>>

LEMMA PlaceFrame == PlaceInv /\ UNCHANGED PlaceVars => PlaceInv'
BY DEF PlaceInv, PlaceVars

\* A round moves the report and the batch.
LEMMA RoundPlaces ==
  ASSUME SenderInv, PlaceInv, Drain, UNCHANGED <<refused, pushed>>,
         NEW k \in 0 .. Len(Batch), out # <<>> => k = 0,
         wire' = wire \o SubSeq(Batch, 1, k),
         LET b2 == SubSeq(Batch, k + 1, Len(Batch))
         IN  \/ out' = out \o b2 /\ lost' = lost /\ discarded' = discarded
             \/ out' = <<>> /\ out = <<>> /\ lost' = lost \o b2 /\ discarded' = discarded
             \/ out' = <<>> /\ lost' = lost /\ discarded' = discarded \o (out \o b2)
  PROVE  PlaceInv'
<1>1. Moved(dropped)
  BY RoundMoves
<1>2. dropped \in Nat /\ dropped' \in Nat /\ dropped + dropped' = dropped
  BY PlaceType DEF Drain
<1> QED
  BY <1>1, <1>2, MovedKeeps

\* on_tick moves a round, or nothing.
LEMMA OnTickPlaces ==
  ASSUME SenderInv, PlaceInv, UNCHANGED <<refused, pushed>>, NEW ts, NEW fs, on_tick(ts, fs)
  PROVE  PlaceInv'
<1>1. Batch \in MsgSeq
  BY BatchType DEF MsgSeq, SenderInv
<1>2. CASE Drain /\ SendSome(Batch, fs)
  <2>1. PICK k \in 0 .. Len(Batch) :
          /\ out # <<>> => k = 0
          /\ wire' = wire \o SubSeq(Batch, 1, k)
          /\ out' = out \o SubSeq(Batch, k + 1, Len(Batch))
          /\ lost' = lost /\ discarded' = discarded
    BY <1>2 DEF SendSome
  <2> QED
    BY <1>2, <2>1, RoundPlaces
<1>3. CASE Drain /\ SendFails(Batch, fs)
  <2>1. PICK k \in 0 .. Len(Batch) - 1 :
          /\ out = <<>>
          /\ wire' = wire \o SubSeq(Batch, 1, k)
          /\ out' = <<>> /\ lost' = lost \o SubSeq(Batch, k + 1, Len(Batch))
          /\ discarded' = discarded
    BY <1>3 DEF SendFails, ConnectionFails
  <2>2. k \in 0 .. Len(Batch)
    BY <1>1, <2>1, MsgSeqs
  <2> QED
    BY <1>3, <2>1, <2>2, RoundPlaces
<1>4. CASE UNCHANGED queueVars /\ UNCHANGED connVars
  BY <1>4, PlaceFrame DEF PlaceVars, queueVars, connVars
<1> QED
  BY <1>2, <1>3, <1>4 DEF on_tick, do_drain_and_send

\* stop_in_loop drains once; what is not written then goes with the connection.
LEMMA StopPlaces ==
  ASSUME SenderInv, PlaceInv, stop_in_loop
  PROVE  PlaceInv'
<1>1. UNCHANGED <<refused, pushed>>
  BY DEF stop_in_loop
<1>2. Batch \in MsgSeq /\ discarded \in MsgSeq
  BY PlaceType, BatchType DEF MsgSeq, SenderInv
<1>3. discarded \o <<>> = discarded
  BY <1>2, MsgSeqs
<1>4. CASE ~connected /\ Disconnect(<<>>) /\ UNCHANGED <<queueVars, wire, lost>>
  <2>1. out = <<>>
    BY <1>4 DEF SenderInv, Lift, connected
  <2> QED
    BY <1>1, <1>3, <1>4, <2>1, PlaceFrame DEF Disconnect, PlaceVars, queueVars
<1>5. CASE /\ Drain /\ UNCHANGED lost
           /\ \E k \in 0 .. Len(Batch) :
                /\ out # <<>> => k = 0
                /\ wire' = wire \o SubSeq(Batch, 1, k)
                /\ Disconnect(out \o SubSeq(Batch, k + 1, Len(Batch)))
  <2>1. PICK k \in 0 .. Len(Batch) :
          /\ out # <<>> => k = 0
          /\ wire' = wire \o SubSeq(Batch, 1, k)
          /\ out' = <<>>
          /\ discarded' = discarded \o (out \o SubSeq(Batch, k + 1, Len(Batch)))
    BY <1>5 DEF Disconnect
  <2> QED
    BY <1>1, <1>5, <2>1, RoundPlaces
<1>6. CASE /\ Drain /\ out = <<>> /\ Disconnect(<<>>)
           /\ \E k \in 0 .. Len(Batch) - 1 :
                /\ wire' = wire \o SubSeq(Batch, 1, k)
                /\ lost' = lost \o SubSeq(Batch, k + 1, Len(Batch))
  <2>1. PICK k \in 0 .. Len(Batch) - 1 :
          /\ wire' = wire \o SubSeq(Batch, 1, k)
          /\ lost' = lost \o SubSeq(Batch, k + 1, Len(Batch))
    BY <1>6
  <2>2. k \in 0 .. Len(Batch)
    BY <1>2, <2>1, MsgSeqs
  <2>3. out' = <<>> /\ discarded' = discarded
    BY <1>3, <1>6 DEF Disconnect
  <2> QED
    BY <1>1, <1>6, <2>1, <2>2, <2>3, RoundPlaces
<1> QED
  BY <1>4, <1>5, <1>6 DEF stop_in_loop

\* Connection::handle_write takes the front of the buffer.
LEMMA HandleWritePlaces ==
  ASSUME SenderInv, PlaceInv, handle_write
  PROVE  PlaceInv'
<1>1. PICK k \in 1 .. Len(out) :
        /\ wire' = wire \o SubSeq(out, 1, k)
        /\ out' = SubSeq(out, k + 1, Len(out))
  BY DEF handle_write
<1>2. /\ UNCHANGED <<queue, lost, discarded, dropped>>
      /\ UNCHANGED <<refused, pushed>>
  BY DEF handle_write, queueVars, callerVars
<1> DEFINE p == SubSeq(out, 1, k)
           q == SubSeq(out, k + 1, Len(out))
           r == q \o queue
<1>3. /\ wire \in MsgSeq /\ lost \in MsgSeq /\ discarded \in MsgSeq /\ out \in MsgSeq
      /\ queue \in MsgSeq /\ dropped \in Nat
      /\ Tallied(wire, out \o queue, lost, discarded) \in Nat
  BY PlaceType
<1>4. k \in 0 .. Len(out)
  BY <1>3, MsgSeqs
<1>5. p \in MsgSeq /\ q \in MsgSeq /\ out = p \o q
  BY <1>3, <1>4, SplitAt
<1> HIDE DEF p, q
<1>6. r \in MsgSeq /\ out \o queue = p \o r
  <2>1. q \in MsgSeq /\ queue \in MsgSeq /\ p \in MsgSeq
    BY <1>3, <1>5
  <2>2. q \o queue \in MsgSeq
    BY <2>1, MsgSeqs
  <2>3. (p \o q) \o queue = p \o (q \o queue)
    BY <2>1, MsgAssoc
  <2> QED
    BY <1>5, <2>2, <2>3
<1> HIDE DEF r
<1>7. Apart(wire, p \o r, lost, discarded)
  BY <1>6 DEF PlaceInv
<1>8. /\ Apart(wire \o p, r, lost, discarded)
      /\ Held(wire \o p, r, lost, discarded) = Held(wire, p \o r, lost, discarded)
      /\ Tallied(wire \o p, r, lost, discarded) = Tallied(wire, p \o r, lost, discarded)
  <2>1. /\ wire \in MsgSeq /\ lost \in MsgSeq /\ discarded \in MsgSeq
        /\ p \in MsgSeq /\ r \in MsgSeq
    BY <1>3, <1>5, <1>6
  <2> QED
    BY <1>7, <2>1, MoveWritten
<1>9. wire' = wire \o p /\ out' \o queue' = r
  BY <1>1, <1>2 DEF p, q, r
<1>10. Moved(0)
  BY <1>2, <1>3, <1>6, <1>8, <1>9 DEF Moved
<1> QED
  BY <1>2, <1>3, <1>10, MovedKeeps

\* The connection ends: all that it buffered is lost.
LEMMA DisconnectedPlaces ==
  ASSUME SenderInv, PlaceInv, Disconnected
  PROVE  PlaceInv'
<1>1. /\ out' = <<>> /\ lost' = lost \o out
      /\ UNCHANGED <<queue, wire, discarded, dropped>> /\ UNCHANGED <<refused, pushed>>
  BY DEF Disconnected, ConnectionFails, queueVars, callerVars
<1>2. /\ wire \in MsgSeq /\ lost \in MsgSeq /\ discarded \in MsgSeq /\ out \in MsgSeq
      /\ queue \in MsgSeq /\ dropped \in Nat
      /\ Tallied(wire, out \o queue, lost, discarded) \in Nat
  BY PlaceType
<1>3. PICK e \in MsgSeq : e = <<>>
  BY MsgSeqs
<1>4. wire \o e = wire /\ e \o out = out /\ e \o queue = queue
  BY <1>2, <1>3, MsgSeqs
<1>5. Apart(wire, (e \o out) \o queue, lost, discarded)
  BY <1>4 DEF PlaceInv
<1>6. /\ Apart(wire \o e, queue, lost \o out, discarded)
      /\ Held(wire \o e, queue, lost \o out, discarded)
           = Held(wire, (e \o out) \o queue, lost, discarded)
      /\ Tallied(wire \o e, queue, lost \o out, discarded)
           = Tallied(wire, (e \o out) \o queue, lost, discarded)
  BY <1>2, <1>5, Move
<1>7. out' \o queue' = queue
  BY <1>1, <1>3, <1>4
<1>8. Moved(0)
  BY <1>1, <1>2, <1>4, <1>6, <1>7 DEF Moved
<1> QED
  BY <1>1, <1>2, <1>8, MovedKeeps

\* Nothing is logged before start().
LEMMA InitPlaces == Init => PlaceInv
<1> SUFFICES ASSUME Init PROVE PlaceInv
  OBVIOUS
<1>1. /\ wire = <<>> /\ out = <<>> /\ queue = <<>> /\ lost = <<>> /\ discarded = <<>>
      /\ refused = {} /\ pushed = 0 /\ dropped = 0
  BY DEF Init
<1>2. <<>> \o <<>> = <<>> /\ DOMAIN <<>> = {}
  OBVIOUS
<1>3. InOrder(<<>>) /\ Items(<<>>) = {} /\ Reported(<<>>) = 0
  BY <1>2, ReportedOne DEF InOrder, Items
<1>4. out \o queue = <<>>
  BY <1>1, <1>2
<1>5. Apart(wire, out \o queue, lost, discarded)
  BY <1>1, <1>2, <1>3, <1>4 DEF Apart
<1>6. /\ Held(wire, out \o queue, lost, discarded) = {}
      /\ Tallied(wire, out \o queue, lost, discarded) = 0
  BY <1>1, <1>3, <1>4 DEF Held, Tallied
<1>7. 1 .. pushed = {} /\ Cardinality(refused) = 0
  BY <1>1, FS_EmptySet
<1> QED
  BY <1>1, <1>5, <1>6, <1>7 DEF PlaceInv

\* Every step keeps the places right.
LEMMA NextPlaces ==
  ASSUME SenderInv, PlaceInv, [Next]_vars
  PROVE  PlaceInv'
<1>1. ASSUME NEW t \in Threads, Log(t) PROVE PlaceInv'
  BY <1>1, PlaceFrame DEF Log, PlaceVars, queueVars, connVars
<1>2. ASSUME NEW t \in Threads, push(t) PROVE PlaceInv'
  BY <1>2, PushPlaces
<1>3. ASSUME NEW t \in Threads, PostWake(t) PROVE PlaceInv'
  BY <1>3, PlaceFrame DEF PostWake, PlaceVars, queueVars, connVars
<1>4. CASE start \/ set_global \/ stop \/ Destroy
  BY <1>4, PlaceFrame DEF start, set_global, stop, Destroy, Owner, PlaceVars, queueVars,
     connVars
<1>5. CASE TickTimer
  <2>1. UNCHANGED <<refused, pushed>>
    BY <1>5 DEF TickTimer, callerVars
  <2>2. CASE UNCHANGED queueVars /\ UNCHANGED connVars
    BY <2>1, <2>2, PlaceFrame DEF PlaceVars, queueVars, connVars
  <2>3. CASE on_tick(ticks - 1, functors)
    BY <2>1, <2>3, OnTickPlaces
  <2> QED
    BY <1>5, <2>2, <2>3 DEF TickTimer
<1>6. CASE Wake
  <2>1. UNCHANGED <<refused, pushed>>
    BY <1>6 DEF Wake, callerVars
  <2>2. CASE UNCHANGED queueVars /\ UNCHANGED connVars
    BY <2>1, <2>2, PlaceFrame DEF PlaceVars, queueVars, connVars
  <2>3. CASE on_tick(ticks, Tail(functors))
    BY <2>1, <2>3, OnTickPlaces
  <2> QED
    BY <1>6, <2>2, <2>3 DEF Wake
<1>7. CASE start_in_loop \/ on_high_water \/ on_write_complete \/ Connected
  BY <1>7, PlaceFrame DEF start_in_loop, on_high_water, on_write_complete, Connected,
     PlaceVars, queueVars, callerVars
<1>8. CASE stop_in_loop
  BY <1>8, StopPlaces
<1>9. CASE handle_write
  BY <1>9, HandleWritePlaces
<1>10. CASE Disconnected
  BY <1>10, DisconnectedPlaces
<1>11. CASE UseAfterDestroy
  BY <1>11, PlaceFrame DEF UseAfterDestroy, PlaceVars, queueVars, callerVars, connVars
<1>12. CASE UNCHANGED vars
  BY <1>12, PlaceFrame DEF vars, PlaceVars, queueVars, callerVars, connVars
<1> QED
  BY <1>1, <1>2, <1>3, <1>4, <1>5, <1>6, <1>7, <1>8, <1>9, <1>10, <1>11, <1>12 DEF Next

\* The places of the invariant are those of the property.
LEMMA PlacesTell ==
  ASSUME SenderInv, PlaceInv
  PROVE  NothingVanishes
<1> DEFINE o == out \o queue
           path == wire \o out \o queue
           most == path \o lost
           all == most \o discarded
<1>1. /\ wire \in MsgSeq /\ out \in MsgSeq /\ queue \in MsgSeq /\ lost \in MsgSeq
      /\ discarded \in MsgSeq /\ o \in MsgSeq
  BY PlaceType
<1>2. path = wire \o o
  BY <1>1, MsgAssoc
<1>3. Apart(wire, o, lost, discarded)
  BY DEF PlaceInv
<1> HIDE DEF o
<1>4. path \in MsgSeq /\ Items(path) = Items(wire) \cup Items(o)
      /\ Reported(path) = Reported(wire) + Reported(o)
  BY <1>1, <1>2, MsgSeqs, ItemsConcat, ReportedConcat
<1>5. InOrder(path)
  BY <1>2, <1>3 DEF Apart
<1> HIDE DEF path
<1>6. /\ most \in MsgSeq /\ Items(most) = Items(path) \cup Items(lost)
      /\ Reported(most) = Reported(path) + Reported(lost)
  BY <1>1, <1>4, MsgSeqs, ItemsConcat, ReportedConcat
<1>7. /\ InOrder(lost) /\ InOrder(discarded) /\ Below(Items(lost), Items(o))
      /\ Below(Items(discarded), Items(o))
  BY <1>1, <1>3, InOrderConcat DEF Apart
<1>8. /\ EachOnce(path) /\ EachOnce(lost) /\ EachOnce(discarded)
  BY <1>1, <1>4, <1>5, <1>7, OrderedOnce
<1>9. Items(o) \subseteq Nat /\ Items(lost) \subseteq Nat /\ Items(discarded) \subseteq Nat
  BY <1>1, ItemsType
<1>10. Items(path) \cap Items(lost) = {}
  <2>1. Items(lost) \cap Items(o) = {}
    BY <1>7, <1>9 DEF Below
  <2> QED
    BY <1>3, <1>4, <2>1 DEF Apart
<1>11. EachOnce(most)
  BY <1>1, <1>4, <1>8, <1>10, OnceConcat
<1>12. Items(most) \cap Items(discarded) = {}
  <2>1. Items(discarded) \cap Items(o) = {}
    BY <1>7, <1>9 DEF Below
  <2>2. /\ Items(wire) \cap Items(discarded) = {} /\ Items(lost) \cap Items(discarded) = {}
    BY <1>3 DEF Apart
  <2> QED
    BY <1>4, <1>6, <2>1, <2>2
<1> HIDE DEF most
<1>13. EachOnce(all)
  BY <1>1, <1>6, <1>8, <1>11, <1>12, OnceConcat
<1>14. /\ Items(all) = Items(most) \cup Items(discarded)
       /\ Reported(all) = Reported(most) + Reported(discarded)
  BY <1>1, <1>6, ItemsConcat, ReportedConcat
<1>15. Items(all) = Held(wire, o, lost, discarded)
  BY <1>4, <1>6, <1>14 DEF Held
<1>16. Reported(all) = Tallied(wire, o, lost, discarded)
  BY <1>4, <1>6, <1>14 DEF Tallied
<1> HIDE DEF all
<1>17. /\ refused \subseteq 1 .. pushed /\ Items(all) = (1 .. pushed) \ refused
       /\ Reported(all) + dropped = Cardinality(refused)
  BY <1>15, <1>16 DEF PlaceInv, o
<1> QED
  BY <1>5, <1>13, <1>17 DEF NothingVanishes, path, most, all

-----------------------------------------------------------------------------
(* Nothing vanishes.                                                       *)

\* push(), the ticks, stop_in_loop, handle_write and the end of a connection keep
\* every message in its place, in order, and every drop counted or reported.
THEOREM PlacesAreRight == Spec => [](SenderInv /\ PlaceInv)
<1>1. Init => SenderInv /\ PlaceInv
  BY InitSenderInv, InitPlaces
<1>2. (SenderInv /\ PlaceInv) /\ [Next]_vars => (SenderInv /\ PlaceInv)'
  BY NextSenderInv, NextPlaces
<1> QED
  BY <1>1, <1>2, PTL DEF Spec

\* LogSender and MPSCQueue: however ticks, writes, failures and stop() interleave, a
\* logged message is in one place, once, those that are on their way are in the
\* order of push(), and the drops that were reported or are still to be are exactly
\* those that push() refused.
THEOREM NothingIsForgotten == Spec => []NothingVanishes
<1>1. SenderInv /\ PlaceInv => NothingVanishes
  BY PlacesTell
<1> QED
  BY <1>1, PlacesAreRight, PTL

=============================================================================
