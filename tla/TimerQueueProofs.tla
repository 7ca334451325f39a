-------------------------- MODULE TimerQueueProofs ---------------------------
(***************************************************************************)
(* What holds of TimerQueue for any delays and any number of timers: every *)
(* timer is in one place, its index is exact, an expiry is on its way for  *)
(* it, and batches fire in order.                                          *)
(***************************************************************************)
EXTENDS TimerQueue, SequenceTheorems, TLAPS

USE DEF Disarmed

\* No two entries of s have the same id.
UniqueIds(s) == \A e, x \in s : e.id = x.id => e = x

\* No two functors of the queue add the same timer.
UniqueAdds ==
    \A i, j \in DOMAIN pending :
        pending[i].op = "add" /\ pending[j].op = "add"
            /\ pending[i].entry.id = pending[j].entry.id => i = j

\* The batch in progress was due when it was taken, and nothing that is in the
\* set, left there or added since, comes before any of it.
BatchComesFirst ==
    /\ lpc = "idle" => expired = {}
    /\ \A e \in expired : e.exp <= now
    /\ \A e \in expired, x \in timers : Before(e, x)

\* The set and its index agree: no iterator of the index dangles.
IndexExact ==
    /\ timers \subseteq Entry
    /\ DOMAIN index = IdsOf(timers)
    /\ \A e \in timers : index[e.id] = e

\* The timerfd goes off in time for every timer in the set.
Armed == \A e \in timers : deadline # Disarmed /\ (deadline <= e.exp \/ deadline <= now + 1)

\* EachTimerInOnePlace for five given sets and the next id.
Partition(q, t, x, f, r, n) ==
    /\ q \cup t \cup x \cup f \cup r = 1 .. n - 1
    /\ q \cap t = {} /\ q \cap x = {} /\ q \cap f = {} /\ q \cap r = {}
    /\ t \cap x = {} /\ t \cap f = {} /\ t \cap r = {}
    /\ x \cap f = {} /\ x \cap r = {}
    /\ f \cap r = {}

Places == Partition(QueuedIds, IdsOf(timers), IdsOf(expired), fired, erased, next_id)

Counters ==
    /\ now \in Nat /\ next_id \in Nat \ {0} /\ deadline \in Nat
    /\ ticks \in BOOLEAN /\ reported \in BOOLEAN
    /\ lpc \in {"idle", "expiring", "callback"}

Histories == fired \subseteq Ids /\ erased \subseteq Ids /\ cancelled \subseteq Ids

\* The inductive invariant.
TimerInv ==
    /\ Counters /\ Histories /\ IndexExact /\ expired \subseteq Entry
    /\ pending \in Seq(Adds \cup Cancels)
    /\ Places /\ UniqueIds(expired) /\ UniqueAdds /\ BatchComesFirst
    /\ lpc = "idle" /\ ~ticks /\ ~reported => Armed

-----------------------------------------------------------------------------
(* Sets and sequences.                                                     *)

LEMMA OnePlaceIsPartition ==
    EachTimerInOnePlace <=>
        Partition(QueuedIds, IdsOf(timers), IdsOf(expired), fired, erased, next_id)
<1> DEFINE places == <<QueuedIds, IdsOf(timers), IdsOf(expired), fired, erased>>
<1>1. DOMAIN places = 1 .. 5
  OBVIOUS
<1>2. 1 .. 5 = {1, 2, 3, 4, 5}
  OBVIOUS
<1>3. /\ places[1] = QueuedIds /\ places[2] = IdsOf(timers) /\ places[3] = IdsOf(expired)
      /\ places[4] = fired /\ places[5] = erased
  OBVIOUS
<1> HIDE DEF places
<1>4. UNION Elements(places) =
        QueuedIds \cup IdsOf(timers) \cup IdsOf(expired) \cup fired \cup erased
  <2>1. Elements(places) = {places[1], places[2], places[3], places[4], places[5]}
    BY <1>1, <1>2 DEF Elements
  <2> QED
    BY <1>3, <2>1
<1>5. (\A p, q \in DOMAIN places : p # q => places[p] \cap places[q] = {}) <=>
        /\ places[1] \cap places[2] = {} /\ places[1] \cap places[3] = {}
        /\ places[1] \cap places[4] = {} /\ places[1] \cap places[5] = {}
        /\ places[2] \cap places[3] = {} /\ places[2] \cap places[4] = {}
        /\ places[2] \cap places[5] = {} /\ places[3] \cap places[4] = {}
        /\ places[3] \cap places[5] = {} /\ places[4] \cap places[5] = {}
  BY <1>1, <1>2
<1> QED
  BY <1>3, <1>4, <1>5 DEF EachTimerInOnePlace, Partition, places

\* A functor is posted.
LEMMA ElementsOfAppend ==
    ASSUME NEW S, NEW s \in Seq(S), NEW x \in S
    PROVE  /\ Append(s, x) \in Seq(S)
           /\ DOMAIN s = 1 .. Len(s) /\ Len(s) \in Nat
           /\ DOMAIN Append(s, x) = 1 .. Len(s) + 1
           /\ \A i \in DOMAIN s : Append(s, x)[i] = s[i]
           /\ Append(s, x)[Len(s) + 1] = x
  BY AppendProperties, LenProperties

\* A functor is taken.
LEMMA ElementsOfTail ==
    ASSUME NEW S, NEW s \in Seq(S), s # <<>>
    PROVE  /\ Tail(s) \in Seq(S) /\ Head(s) = s[1] /\ Head(s) \in S
           /\ DOMAIN s = 1 .. Len(s) /\ Len(s) \in Nat \ {0}
           /\ DOMAIN Tail(s) = 1 .. Len(s) - 1
           /\ \A i \in DOMAIN Tail(s) : Tail(s)[i] = s[i + 1]
  BY HeadTailProperties, LenProperties, EmptySeq

\* QueuedIds, by positions.
LEMMA QueuedByPosition ==
    \A id : id \in QueuedIds <=>
        \E i \in DOMAIN pending : pending[i].op = "add" /\ pending[i].entry.id = id
  BY DEF QueuedIds, Elements

\* An add posted for a new id.
LEMMA PostAdd ==
    ASSUME pending \in Seq(Adds \cup Cancels), UniqueAdds, NEW e \in Entry, e.id \notin QueuedIds,
           pending' = Append(pending, [op |-> "add", entry |-> e])
    PROVE  /\ pending' \in Seq(Adds \cup Cancels)
           /\ QueuedIds' = QueuedIds \cup {e.id}
           /\ UniqueAdds'
<1> DEFINE o == [op |-> "add", entry |-> e]
<1>1. o \in Adds \cup Cancels /\ o.op = "add" /\ o.entry.id = e.id
  BY DEF Adds
<1> HIDE DEF o
<1>2. pending \in Seq(Adds \cup Cancels) /\ pending' = Append(pending, o)
  BY DEF o
<1>3. /\ pending' \in Seq(Adds \cup Cancels)
      /\ DOMAIN pending = 1 .. Len(pending) /\ Len(pending) \in Nat
      /\ DOMAIN pending' = 1 .. Len(pending) + 1
      /\ \A i \in DOMAIN pending : pending'[i] = pending[i]
      /\ pending'[Len(pending) + 1] = o
  BY <1>1, <1>2, ElementsOfAppend
<1>4. \A i \in DOMAIN pending' : i \in DOMAIN pending \/ i = Len(pending) + 1
  BY <1>3
<1>5. DOMAIN pending \subseteq DOMAIN pending' /\ Len(pending) + 1 \in DOMAIN pending'
  BY <1>3
<1>6. \A id : id \in QueuedIds' <=>
        \E i \in DOMAIN pending' : pending'[i].op = "add" /\ pending'[i].entry.id = id
  BY DEF QueuedIds, Elements
<1>7. \A id : id \in QueuedIds' <=> id \in QueuedIds \cup {e.id}
  BY <1>1, <1>3, <1>4, <1>5, <1>6, QueuedByPosition
<1>8. UniqueAdds'
  <2> SUFFICES ASSUME NEW i \in DOMAIN pending', NEW j \in DOMAIN pending',
                      pending'[i].op = "add", pending'[j].op = "add",
                      pending'[i].entry.id = pending'[j].entry.id
               PROVE  i = j
    BY DEF UniqueAdds
  <2>1. CASE i \in DOMAIN pending /\ j \in DOMAIN pending
    BY <1>3, <2>1 DEF UniqueAdds
  <2>2. CASE i \in DOMAIN pending /\ j = Len(pending) + 1
    BY <1>1, <1>3, <2>2, QueuedByPosition
  <2>3. CASE j \in DOMAIN pending /\ i = Len(pending) + 1
    BY <1>1, <1>3, <2>3, QueuedByPosition
  <2> QED
    BY <1>4, <2>1, <2>2, <2>3
<1> QED
  BY <1>3, <1>7, <1>8

LEMMA PostCancel ==
    ASSUME pending \in Seq(Adds \cup Cancels), UniqueAdds, NEW id \in Ids,
           pending' = Append(pending, [op |-> "cancel", id |-> id])
    PROVE  /\ pending' \in Seq(Adds \cup Cancels)
           /\ QueuedIds' = QueuedIds
           /\ UniqueAdds'
<1> DEFINE o == [op |-> "cancel", id |-> id]
<1>1. o \in Adds \cup Cancels /\ o.op # "add"
  BY DEF Cancels
<1> HIDE DEF o
<1>2. pending \in Seq(Adds \cup Cancels) /\ pending' = Append(pending, o)
  BY DEF o
<1>3. /\ pending' \in Seq(Adds \cup Cancels)
      /\ DOMAIN pending = 1 .. Len(pending) /\ Len(pending) \in Nat
      /\ DOMAIN pending' = 1 .. Len(pending) + 1
      /\ \A i \in DOMAIN pending : pending'[i] = pending[i]
      /\ pending'[Len(pending) + 1] = o
  BY <1>1, <1>2, ElementsOfAppend
<1>4. \A i \in DOMAIN pending' : i \in DOMAIN pending \/ i = Len(pending) + 1
  BY <1>3
<1>5. DOMAIN pending \subseteq DOMAIN pending'
  BY <1>3
<1>6. \A d : d \in QueuedIds' <=>
        \E i \in DOMAIN pending' : pending'[i].op = "add" /\ pending'[i].entry.id = d
  BY DEF QueuedIds, Elements
<1>7. \A d : d \in QueuedIds' <=> d \in QueuedIds
  BY <1>1, <1>3, <1>4, <1>5, <1>6, QueuedByPosition
<1>8. UniqueAdds'
  BY <1>1, <1>3, <1>4 DEF UniqueAdds
<1> QED
  BY <1>3, <1>7, <1>8

\* The functor at the head is taken: its add, if it is one, is queued no more.
LEMMA TakeHead ==
    ASSUME pending \in Seq(Adds \cup Cancels), UniqueAdds, pending # <<>>, pending' = Tail(pending)
    PROVE  /\ pending' \in Seq(Adds \cup Cancels)
           /\ Head(pending) \in Adds \cup Cancels
           /\ UniqueAdds'
           /\ Head(pending).op = "add" =>
                /\ Head(pending).entry.id \in QueuedIds
                /\ QueuedIds' = QueuedIds \ {Head(pending).entry.id}
           /\ Head(pending).op # "add" => QueuedIds' = QueuedIds
<1>1. pending \in Seq(Adds \cup Cancels)
  OBVIOUS
<1>2. /\ pending' \in Seq(Adds \cup Cancels)
      /\ Head(pending) = pending[1] /\ Head(pending) \in Adds \cup Cancels
      /\ DOMAIN pending = 1 .. Len(pending) /\ Len(pending) \in Nat \ {0}
      /\ DOMAIN pending' = 1 .. Len(pending) - 1
      /\ \A i \in DOMAIN pending' : pending'[i] = pending[i + 1]
  BY <1>1, ElementsOfTail
<1>3. 1 \in DOMAIN pending /\ \A i \in DOMAIN pending' : i + 1 \in DOMAIN pending /\ i + 1 # 1
  BY <1>2
<1>4. \A i \in DOMAIN pending : i = 1 \/ i - 1 \in DOMAIN pending'
  BY <1>2
<1>5. \A i \in DOMAIN pending : i # 1 => pending'[i - 1] = pending[i]
  BY <1>2, <1>4
<1>6. \A id : id \in QueuedIds' <=>
        \E i \in DOMAIN pending' : pending'[i].op = "add" /\ pending'[i].entry.id = id
  BY DEF QueuedIds, Elements
<1>7. \A id : id \in QueuedIds' <=>
        \E i \in DOMAIN pending : i # 1 /\ pending[i].op = "add" /\ pending[i].entry.id = id
  <2>1. ASSUME NEW id, id \in QueuedIds'
        PROVE  \E i \in DOMAIN pending :
                 i # 1 /\ pending[i].op = "add" /\ pending[i].entry.id = id
    <3>1. PICK i \in DOMAIN pending' : pending'[i].op = "add" /\ pending'[i].entry.id = id
      BY <1>6, <2>1
    <3> QED
      BY <1>2, <1>3, <3>1
  <2>2. ASSUME NEW id, NEW i \in DOMAIN pending,
               i # 1, pending[i].op = "add", pending[i].entry.id = id
        PROVE  id \in QueuedIds'
    BY <1>4, <1>5, <1>6, <2>2
  <2> QED
    BY <2>1, <2>2
<1>8. UniqueAdds'
  <2> SUFFICES ASSUME NEW i \in DOMAIN pending', NEW j \in DOMAIN pending',
                      pending'[i].op = "add", pending'[j].op = "add",
                      pending'[i].entry.id = pending'[j].entry.id
               PROVE  i = j
    BY DEF UniqueAdds
  <2>1. i + 1 = j + 1
    BY <1>2, <1>3 DEF UniqueAdds
  <2> QED
    BY <1>2, <2>1
<1>9. CASE Head(pending).op = "add"
  <2>1. \A i \in DOMAIN pending : pending[i].op = "add"
            /\ pending[i].entry.id = Head(pending).entry.id => i = 1
    BY <1>2, <1>3, <1>9 DEF UniqueAdds
  <2>2. \A id : id \in QueuedIds' <=> id \in QueuedIds \ {Head(pending).entry.id}
    BY <1>2, <1>3, <1>7, <1>9, <2>1, QueuedByPosition
  <2>3. Head(pending).entry.id \in QueuedIds
    BY <1>2, <1>3, <1>9, QueuedByPosition
  <2> QED
    BY <1>2, <1>8, <1>9, <2>2, <2>3
<1>10. CASE Head(pending).op # "add"
  <2>1. \A id : id \in QueuedIds' <=> id \in QueuedIds
    BY <1>2, <1>3, <1>7, <1>10, QueuedByPosition
  <2> QED
    BY <1>2, <1>8, <1>10, <2>1
<1> QED
  BY <1>9, <1>10

-----------------------------------------------------------------------------
(* The operations on the set, the index and the timerfd.                   *)

LEMMA TimersUnique ==
    ASSUME IndexExact
    PROVE  UniqueIds(timers)
  BY DEF IndexExact, UniqueIds

\* Entry::operator< is a strict total order.
LEMMA BeforeIsOrder ==
    /\ \A a, b \in Entry : a = b \/ Before(a, b) \/ Before(b, a)
    /\ \A a, b \in Entry : Before(a, b) => ~Before(b, a) /\ a # b /\ a.exp <= b.exp
<1>1. ASSUME NEW a \in Entry, NEW b \in Entry
      PROVE  /\ a.exp \in Nat /\ b.exp \in Nat /\ a.id \in Nat /\ b.id \in Nat
             /\ (a.exp = b.exp /\ a.id = b.id => a = b)
  BY MaxTimersIsNatural DEF Entry, Ids
<1> QED
  BY <1>1 DEF Before

\* After timerfd_settime for the earliest entry the timerfd serves every entry.
LEMMA ResetArms ==
    ASSUME now \in Nat, NEW exp \in Nat, reset_timerfd(exp)
    PROVE  /\ deadline' \in Nat /\ deadline' # Disarmed /\ ticks' = FALSE
           /\ deadline' <= exp \/ deadline' <= now + 1
           /\ deadline' > now
  BY DEF reset_timerfd, to_itimerspec

LEMMA ResetForEarliest ==
    ASSUME now \in Nat, now' = now, NEW e \in Entry, e \in timers',
           timers' \subseteq Entry, \A x \in timers' \ {e} : Before(e, x),
           reset_timerfd(e.exp)
    PROVE  deadline' \in Nat /\ ticks' = FALSE /\ Armed'
<1>1. e.exp \in Nat /\ \A x \in timers' : x.exp \in Nat
  BY DEF Entry
<1>2. \A x \in timers' : e.exp <= x.exp
  BY <1>1, BeforeIsOrder
<1>3. /\ deadline' \in Nat /\ deadline' # Disarmed /\ ticks' = FALSE
      /\ deadline' <= e.exp \/ deadline' <= now + 1
  BY <1>1, ResetArms
<1> QED
  BY <1>1, <1>2, <1>3 DEF Armed

\* What the timerfd is after an operation: armed for every timer, or left alone
\* with no timer it was not armed for.
FdServes ==
    /\ deadline' \in Nat /\ ticks' \in BOOLEAN
    /\ Armed' \/ (ticks' = ticks /\ (Armed => Armed'))

LEMMA AddEffect ==
    ASSUME now \in Nat, deadline \in Nat, ticks \in BOOLEAN, now' = now, IndexExact,
           NEW e \in Entry, e.id \notin IdsOf(timers), add_timer_in_loop(e)
    PROVE  /\ timers' = timers \cup {e}
           /\ IndexExact'
           /\ IdsOf(timers') = IdsOf(timers) \cup {e.id}
           /\ FdServes
<1>1. /\ timers' = timers \cup {e}
      /\ index' = [i \in DOMAIN index \cup {e.id} |-> IF i = e.id THEN e ELSE index[i]]
  BY DEF add_timer_in_loop
<1>2. IdsOf(timers') = IdsOf(timers) \cup {e.id}
  BY <1>1 DEF IdsOf
<1>3. IndexExact'
  <2>1. timers' \subseteq Entry /\ DOMAIN index' = IdsOf(timers')
    BY <1>1, <1>2 DEF IndexExact
  <2>2. ASSUME NEW x \in timers' PROVE index'[x.id] = x
    <3>1. CASE x = e
      BY <1>1, <3>1
    <3>2. CASE x \in timers
      <4>1. x.id \in DOMAIN index /\ x.id # e.id /\ index[x.id] = x
        BY <3>2 DEF IndexExact, IdsOf
      <4> QED
        BY <1>1, <4>1
    <3> QED
      BY <1>1, <3>1, <3>2
  <2> QED
    BY <2>1, <2>2 DEF IndexExact
<1>4. FdServes
  <2>1. CASE \A x \in timers : Before(e, x)
    <3>1. reset_timerfd(e.exp)
      BY <2>1 DEF add_timer_in_loop
    <3>2. /\ timers' \subseteq Entry /\ e \in timers'
          /\ \A x \in timers' \ {e} : Before(e, x)
      BY <1>1, <2>1 DEF IndexExact
    <3> QED
      BY <3>1, <3>2, ResetForEarliest DEF FdServes
  <2>2. CASE ~\A x \in timers : Before(e, x)
    <3>1. deadline' = deadline /\ ticks' = ticks
      BY <2>2 DEF add_timer_in_loop
    <3>2. PICK x \in timers : ~Before(e, x)
      BY <2>2
    <3>3. x \in Entry /\ x.exp \in Nat /\ e.exp \in Nat /\ x.exp <= e.exp
      BY <3>2, BeforeIsOrder DEF IndexExact, Entry
    <3>4. Armed => Armed'
      BY <1>1, <3>1, <3>3 DEF Armed
    <3> QED
      BY <3>1, <3>4 DEF FdServes
  <2> QED
    BY <2>1, <2>2
<1> QED
  BY <1>1, <1>2, <1>3, <1>4

LEMMA CancelEffect ==
    ASSUME now \in Nat, deadline \in Nat, ticks \in BOOLEAN, now' = now, IndexExact,
           erased \subseteq Ids, cancelled \subseteq Ids,
           NEW i \in Ids, cancel_in_loop(i)
    PROVE  /\ timers' \subseteq timers
           /\ IndexExact'
           /\ cancelled' \subseteq Ids
           /\ \/ IdsOf(timers') = IdsOf(timers) /\ erased' = erased
              \/ /\ i \in IdsOf(timers)
                 /\ IdsOf(timers') = IdsOf(timers) \ {i} /\ erased' = erased \cup {i}
           /\ FdServes
<1>1. cancelled' \subseteq Ids
  BY DEF cancel_in_loop
<1>2. CASE i \in DOMAIN index
  <2> DEFINE e == index[i]
  <2>1. i \in IdsOf(timers) /\ e \in timers /\ e.id = i
    BY <1>2 DEF IndexExact, IdsOf
  <2>2. /\ timers' = timers \ {e}
        /\ index' = [j \in DOMAIN index \ {i} |-> index[j]]
        /\ erased' = erased \cup {i}
    BY <1>2 DEF cancel_in_loop
  <2>3. \A x \in timers' : x \in timers /\ x.id # i
    BY <2>1, <2>2, TimersUnique DEF UniqueIds
  <2>4. IdsOf(timers') = IdsOf(timers) \ {i}
    BY <2>1, <2>2, <2>3 DEF IdsOf
  <2>5. IndexExact'
    <3>1. timers' \subseteq Entry /\ DOMAIN index' = IdsOf(timers')
      BY <2>2, <2>4 DEF IndexExact
    <3>2. \A x \in timers' : x.id \in DOMAIN index \ {i} /\ index[x.id] = x
      BY <2>3 DEF IndexExact, IdsOf
    <3> QED
      BY <2>2, <3>1, <3>2 DEF IndexExact
  <2>6. FdServes
    <3>1. CASE IsEarliest(e, timers) /\ timers' # {}
      <4>1. PICK x \in timers' : IsEarliest(x, timers') /\ reset_timerfd(x.exp)
        BY <1>2, <3>1 DEF cancel_in_loop
      <4>2. x \in Entry /\ timers' \subseteq Entry /\ \A y \in timers' \ {x} : Before(x, y)
        BY <2>5, <4>1 DEF IndexExact, IsEarliest
      <4> QED
        BY <4>1, <4>2, ResetForEarliest DEF FdServes
    <3>2. CASE ~(IsEarliest(e, timers) /\ timers' # {})
      <4>1. deadline' = deadline /\ ticks' = ticks
        BY <1>2, <3>2 DEF cancel_in_loop
      <4> QED
        BY <2>2, <4>1 DEF FdServes, Armed
    <3> QED
      BY <3>1, <3>2
  <2> QED
    BY <1>1, <2>1, <2>2, <2>4, <2>5, <2>6
<1>3. CASE i \notin DOMAIN index
  <2>1. /\ timers' = timers /\ index' = index /\ erased' = erased
        /\ deadline' = deadline /\ ticks' = ticks
    BY <1>3 DEF cancel_in_loop
  <2> QED
    BY <1>1, <2>1 DEF IndexExact, FdServes, Armed
<1> QED
  BY <1>2, <1>3

-----------------------------------------------------------------------------
(* The invariant.                                                          *)

LEMMA InitTimerInv == Init => TimerInv
<1> SUFFICES ASSUME Init PROVE TimerInv
  OBVIOUS
<1>1. /\ timers = {} /\ expired = {} /\ index = <<>> /\ pending = <<>>
      /\ fired = {} /\ erased = {} /\ cancelled = {} /\ next_id = 1 /\ lpc = "idle"
  BY DEF Init
<1>2. Counters /\ Histories
  <2>1. now \in Nat /\ next_id \in Nat \ {0} /\ deadline \in Nat
    BY DEF Init
  <2>2. ticks \in BOOLEAN /\ reported \in BOOLEAN
    BY DEF Init
  <2> QED
    BY <1>1, <2>1, <2>2 DEF Counters, Histories
<1>3. IdsOf(timers) = {} /\ IdsOf(expired) = {} /\ IndexExact
  BY <1>1 DEF IdsOf, IndexExact
<1>4. pending \in Seq(Adds \cup Cancels) /\ DOMAIN pending = {}
  BY <1>1, EmptySeq
<1>5. QueuedIds = {} /\ UniqueAdds
  BY <1>4, QueuedByPosition DEF UniqueAdds
<1>6. Places
  <2>1. 1 .. next_id - 1 = {}
    BY <1>1
  <2> QED
    BY <1>1, <1>3, <1>5, <2>1 DEF Places, Partition
<1>7. UniqueIds(expired) /\ BatchComesFirst /\ Armed
  BY <1>1 DEF UniqueIds, BatchComesFirst, Armed
<1> QED
  BY <1>1, <1>2, <1>3, <1>4, <1>5, <1>6, <1>7 DEF TimerInv

\* An id that run_after hands out is new everywhere.
LEMMA NewIdIsNew ==
    ASSUME Places, next_id \in Nat \ {0}
    PROVE  /\ next_id \notin QueuedIds \cup IdsOf(timers) \cup IdsOf(expired)
           /\ next_id \notin fired \cup erased
           /\ 1 .. (next_id + 1) - 1 = (1 .. next_id - 1) \cup {next_id}
<1>1. next_id \notin 1 .. next_id - 1
  OBVIOUS
<1>2. 1 .. (next_id + 1) - 1 = (1 .. next_id - 1) \cup {next_id}
  OBVIOUS
<1> QED
  BY <1>1, <1>2 DEF Places, Partition

\* Time passes: a deadline that was near has come.
LEMMA ClockTickKeeps ==
    ASSUME TimerInv, ClockTick
    PROVE  TimerInv'
<1> USE DEF TimerInv
<1>1. /\ now \in Nat /\ now' = now + 1 /\ deadline \in Nat
      /\ UNCHANGED <<next_id, timers, index, reported, lpc, expired, pending,
                     fired, erased, cancelled>>
  BY DEF ClockTick, Counters
<1>2. deadline' \in Nat /\ ticks' \in BOOLEAN
  <2>1. CASE deadline # Disarmed /\ deadline <= now'
    BY <2>1 DEF ClockTick
  <2>2. CASE ~(deadline # Disarmed /\ deadline <= now')
    BY <2>2 DEF ClockTick, Counters
  <2> QED
    BY <2>1, <2>2
<1>3. lpc = "idle" /\ ~ticks' /\ ~reported => Armed'
  <2> SUFFICES ASSUME lpc = "idle", ~ticks', ~reported PROVE Armed'
    OBVIOUS
  <2>1. ~(deadline # Disarmed /\ deadline <= now + 1) /\ deadline' = deadline /\ ticks' = ticks
    BY <1>1 DEF ClockTick
  <2>2. Armed
    BY <2>1
  <2>3. \A e \in timers : e.exp \in Nat
    BY DEF IndexExact, Entry
  <2> QED
    BY <1>1, <2>1, <2>2, <2>3 DEF Armed
<1>4. QueuedIds' = QueuedIds
  BY <1>1 DEF QueuedIds
<1>5. Places' /\ UniqueAdds' /\ IndexExact' /\ UniqueIds(expired)'
  BY <1>1, <1>4 DEF Places, UniqueAdds, IndexExact, UniqueIds
<1>6. BatchComesFirst'
  <2>1. \A e \in expired : e.exp \in Nat
    BY DEF Entry
  <2> QED
    BY <1>1, <2>1 DEF BatchComesFirst
<1>7. Counters' /\ Histories'
  BY <1>1, <1>2 DEF Counters, Histories
<1> QED
  BY <1>1, <1>3, <1>5, <1>6, <1>7

LEMMA EpollReportsKeeps ==
    ASSUME TimerInv, EpollReports
    PROVE  TimerInv'
<1> USE DEF TimerInv
<1>1. /\ reported' = TRUE
      /\ UNCHANGED <<now, next_id, timers, index, deadline, ticks, lpc, expired,
                     pending, fired, erased, cancelled>>
  BY DEF EpollReports
<1>2. QueuedIds' = QueuedIds
  BY <1>1 DEF QueuedIds
<1>3. Places' /\ UniqueAdds' /\ IndexExact' /\ UniqueIds(expired)' /\ BatchComesFirst'
  BY <1>1, <1>2 DEF Places, UniqueAdds, IndexExact, UniqueIds, BatchComesFirst
<1>4. Counters' /\ Histories'
  BY <1>1 DEF Counters, Histories
<1> QED
  BY <1>1, <1>3, <1>4

LEMMA CallbackReturnKeeps ==
    ASSUME TimerInv, CallbackReturn
    PROVE  TimerInv'
<1> USE DEF TimerInv
<1>1. /\ lpc = "callback" /\ lpc' = "expiring"
      /\ UNCHANGED <<now, next_id, timers, index, deadline, ticks, reported,
                     expired, pending, fired, erased, cancelled>>
  BY DEF CallbackReturn
<1>2. QueuedIds' = QueuedIds
  BY <1>1 DEF QueuedIds
<1>3. Places' /\ UniqueAdds' /\ IndexExact' /\ UniqueIds(expired)' /\ BatchComesFirst'
  BY <1>1, <1>2 DEF Places, UniqueAdds, IndexExact, UniqueIds, BatchComesFirst
<1>4. Counters' /\ Histories'
  BY <1>1 DEF Counters, Histories
<1> QED
  BY <1>1, <1>3, <1>4

\* handle_read takes what is due: the rest is due later.
LEMMA HandleReadKeeps ==
    ASSUME TimerInv, handle_read
    PROVE  TimerInv'
<1> USE DEF TimerInv
<1>1. /\ lpc = "idle" /\ reported' = FALSE /\ ticks' = FALSE /\ lpc' = "expiring"
      /\ expired' = {e \in timers : e.exp <= now}
      /\ timers' = timers \ expired'
      /\ index' = [i \in DOMAIN index \ IdsOf(expired') |-> index[i]]
      /\ UNCHANGED <<now, next_id, deadline, pending, fired, erased, cancelled>>
  BY DEF handle_read
<1>2. expired = {} /\ IdsOf(expired) = {}
  BY <1>1 DEF BatchComesFirst, IdsOf
<1>3. UniqueIds(timers) /\ timers \subseteq Entry
  BY TimersUnique DEF IndexExact
<1>4. UniqueIds(expired)' /\ expired' \subseteq Entry /\ expired' \subseteq timers
  BY <1>1, <1>3 DEF UniqueIds
<1>5. IdsOf(expired') \subseteq IdsOf(timers)
      /\ IdsOf(timers') = IdsOf(timers) \ IdsOf(expired')
  BY <1>1, <1>3, <1>4 DEF IdsOf, UniqueIds
<1>6. IndexExact'
  <2>1. timers' \subseteq Entry /\ DOMAIN index' = IdsOf(timers')
    BY <1>1, <1>3, <1>5 DEF IndexExact
  <2>2. \A x \in timers' : x.id \in DOMAIN index \ IdsOf(expired') /\ index[x.id] = x
    BY <1>1, <1>5 DEF IndexExact, IdsOf
  <2> QED
    BY <1>1, <2>1, <2>2 DEF IndexExact
<1>7. QueuedIds' = QueuedIds
  BY <1>1 DEF QueuedIds
<1>8. Places'
  <2>1. Partition(QueuedIds, IdsOf(timers) \ IdsOf(expired'), IdsOf(expired'), fired,
                  erased, next_id)
    BY <1>2, <1>5 DEF Places, Partition
  <2> QED
    BY <1>1, <1>5, <1>7, <2>1 DEF Places
<1>9. BatchComesFirst'
  <2>1. \A e \in expired' : e.exp <= now
    BY <1>1
  <2>2. \A x \in timers' : x.exp > now
    BY <1>1, <1>3 DEF Entry, Counters
  <2>3. \A e \in expired', x \in timers' : Before(e, x)
    <3> SUFFICES ASSUME NEW e \in expired', NEW x \in timers' PROVE e.exp < x.exp
      BY DEF Before
    <3>1. e.exp \in Nat /\ x.exp \in Nat /\ now \in Nat
      BY <1>1, <1>3, <1>4 DEF Entry, Counters
    <3> QED
      BY <2>1, <2>2, <3>1
  <2> QED
    BY <1>1, <2>1, <2>3 DEF BatchComesFirst
<1>10. UniqueAdds' /\ Counters' /\ Histories'
  BY <1>1 DEF UniqueAdds, Counters, Histories
<1> QED
  BY <1>1, <1>4, <1>6, <1>8, <1>9, <1>10

\* A callback is started: its id moves from the batch to the fired.
LEMMA RunCallbackKeeps ==
    ASSUME TimerInv, RunCallback
    PROVE  TimerInv'
<1> USE DEF TimerInv
<1>1. PICK e \in expired :
        IsEarliest(e, expired) /\ expired' = expired \ {e} /\ fired' = fired \cup {e.id}
  BY DEF RunCallback
<1>2. /\ lpc' = "callback"
      /\ UNCHANGED <<now, next_id, timers, index, deadline, ticks, reported,
                     pending, erased, cancelled>>
  BY DEF RunCallback
<1>3. e \in Entry /\ e.id \in Ids /\ e.id \in IdsOf(expired)
  BY DEF Entry, IdsOf
<1>4. IdsOf(expired') = IdsOf(expired) \ {e.id}
  BY <1>1 DEF IdsOf, UniqueIds
<1>5. QueuedIds' = QueuedIds
  BY <1>2 DEF QueuedIds
<1>6. Places'
  <2>1. Partition(QueuedIds, IdsOf(timers), IdsOf(expired) \ {e.id}, fired \cup {e.id},
                  erased, next_id)
    BY <1>3 DEF Places, Partition
  <2> QED
    BY <1>1, <1>2, <1>4, <1>5, <2>1 DEF Places
<1>7. UniqueAdds' /\ IndexExact' /\ UniqueIds(expired)' /\ BatchComesFirst'
  BY <1>1, <1>2 DEF UniqueAdds, IndexExact, UniqueIds, BatchComesFirst
<1>8. Counters' /\ Histories'
  BY <1>1, <1>2, <1>3 DEF Counters, Histories
<1> QED
  BY <1>1, <1>2, <1>6, <1>7, <1>8

\* handle_read arms the timerfd for what is left.
LEMMA FinishKeeps ==
    ASSUME TimerInv, FinishHandleRead
    PROVE  TimerInv'
<1> USE DEF TimerInv
<1>1. /\ expired = {} /\ lpc' = "idle"
      /\ UNCHANGED <<now, next_id, timers, index, reported, expired, pending,
                     fired, erased, cancelled>>
  BY DEF FinishHandleRead
<1>2. deadline' \in Nat /\ ticks' \in BOOLEAN /\ Armed'
  <2>1. CASE timers = {}
    BY <1>1, <2>1 DEF FinishHandleRead, Armed, Counters
  <2>2. CASE timers # {}
    <3>1. PICK e \in timers : IsEarliest(e, timers) /\ reset_timerfd(e.exp)
      BY <2>2 DEF FinishHandleRead
    <3>2. e \in Entry /\ timers' \subseteq Entry /\ \A x \in timers' \ {e} : Before(e, x)
      BY <1>1, <3>1 DEF IndexExact, IsEarliest
    <3> QED
      BY <1>1, <3>1, <3>2, ResetForEarliest DEF Counters
  <2> QED
    BY <2>1, <2>2
<1>3. QueuedIds' = QueuedIds
  BY <1>1 DEF QueuedIds
<1>4. Places' /\ UniqueAdds' /\ IndexExact' /\ UniqueIds(expired)' /\ BatchComesFirst'
  BY <1>1, <1>3 DEF Places, UniqueAdds, IndexExact, UniqueIds, BatchComesFirst
<1>5. Counters' /\ Histories'
  BY <1>1, <1>2 DEF Counters, Histories
<1> QED
  BY <1>1, <1>2, <1>4, <1>5

\* run_after on the loop thread, or an add that another thread posted: a timer
\* that is new to the set, and comes after the batch in progress.
LEMMA AddKeeps ==
    ASSUME TimerInv, NEW e \in Entry, e.id \notin IdsOf(timers),
           add_timer_in_loop(e), \A x \in expired : Before(x, e),
           UNCHANGED <<now, reported, lpc, expired, fired, erased, cancelled>>,
           next_id' \in Nat \ {0}, pending' \in Seq(Adds \cup Cancels), UniqueAdds',
           Partition(QueuedIds', IdsOf(timers) \cup {e.id}, IdsOf(expired), fired, erased,
                     next_id')
    PROVE  TimerInv'
<1> USE DEF TimerInv
<1>1. /\ timers' = timers \cup {e} /\ IndexExact'
      /\ IdsOf(timers') = IdsOf(timers) \cup {e.id} /\ FdServes
  BY AddEffect DEF Counters
<1>2. Places'
  BY <1>1 DEF Places
<1>3. BatchComesFirst' /\ UniqueIds(expired)'
  BY <1>1 DEF BatchComesFirst, UniqueIds
<1>4. Counters' /\ Histories'
  BY <1>1 DEF FdServes, Counters, Histories
<1>5. lpc' = "idle" /\ ~ticks' /\ ~reported' => Armed'
  BY <1>1 DEF FdServes
<1> QED
  BY <1>1, <1>2, <1>3, <1>4, <1>5

LEMMA RunAfterOnLoopThreadKeeps ==
    ASSUME TimerInv, NEW d \in Delays, RunAfterOnLoopThread(d)
    PROVE  TimerInv'
<1> DEFINE e == NewEntry(d)
<1>1. /\ add_timer_in_loop(e) /\ next_id \in Ids /\ next_id' = next_id + 1
      /\ UNCHANGED <<now, reported, lpc, expired, pending, fired, erased, cancelled>>
  BY DEF RunAfterOnLoopThread
<1>2. d \in Nat /\ now \in Nat /\ next_id \in Nat \ {0}
  BY DelaysAreNatural DEF TimerInv, Counters
<1>3. e \in Entry /\ e.id = next_id /\ e.exp = now + d
  BY <1>1, <1>2 DEF NewEntry, Entry
<1> HIDE DEF e
<1>4. /\ next_id \notin QueuedIds \cup IdsOf(timers) \cup IdsOf(expired)
      /\ next_id \notin fired \cup erased
      /\ 1 .. (next_id + 1) - 1 = (1 .. next_id - 1) \cup {next_id}
  BY <1>2, NewIdIsNew DEF TimerInv
<1>5. ASSUME NEW x \in expired PROVE Before(x, e)
  <2>1. x.exp \in Nat /\ x.id \in Nat /\ x.exp <= now /\ x.id \in IdsOf(expired)
    BY MaxTimersIsNatural DEF TimerInv, BatchComesFirst, Entry, Ids, IdsOf
  <2>2. x.id \in 1 .. next_id - 1
    BY <2>1 DEF TimerInv, Places, Partition
  <2> QED
    BY <1>2, <1>3, <2>1, <2>2 DEF Before
<1>6. QueuedIds' = QueuedIds /\ UniqueAdds'
  BY <1>1 DEF QueuedIds, TimerInv, UniqueAdds
<1>7. Partition(QueuedIds', IdsOf(timers) \cup {e.id}, IdsOf(expired), fired, erased, next_id')
  BY <1>1, <1>3, <1>4, <1>6 DEF TimerInv, Places, Partition
<1>8. next_id' \in Nat \ {0} /\ pending' \in Seq(Adds \cup Cancels)
  BY <1>1, <1>2 DEF TimerInv
<1> QED
  BY <1>1, <1>3, <1>4, <1>5, <1>6, <1>7, <1>8, AddKeeps

LEMMA RunAfterFromThreadKeeps ==
    ASSUME TimerInv, NEW d \in Delays, RunAfterFromThread(d)
    PROVE  TimerInv'
<1> DEFINE e == NewEntry(d)
<1>1. /\ pending' = Append(pending, [op |-> "add", entry |-> e])
      /\ next_id \in Ids /\ next_id' = next_id + 1
      /\ UNCHANGED <<now, timers, index, deadline, ticks, reported, lpc, expired,
                     fired, erased, cancelled>>
  BY DEF RunAfterFromThread
<1>2. d \in Nat /\ now \in Nat /\ next_id \in Nat \ {0}
  BY DelaysAreNatural DEF TimerInv, Counters
<1>3. e \in Entry /\ e.id = next_id
  BY <1>1, <1>2 DEF NewEntry, Entry
<1> HIDE DEF e
<1>4. /\ next_id \notin QueuedIds \cup IdsOf(timers) \cup IdsOf(expired)
      /\ next_id \notin fired \cup erased
      /\ 1 .. (next_id + 1) - 1 = (1 .. next_id - 1) \cup {next_id}
  BY <1>2, NewIdIsNew DEF TimerInv
<1>5. /\ pending' \in Seq(Adds \cup Cancels)
      /\ QueuedIds' = QueuedIds \cup {next_id} /\ UniqueAdds'
  BY <1>1, <1>3, <1>4, PostAdd DEF TimerInv
<1>6. Places'
  <2>1. Partition(QueuedIds \cup {next_id}, IdsOf(timers), IdsOf(expired), fired, erased,
                  next_id + 1)
    BY <1>4 DEF TimerInv, Places, Partition
  <2> QED
    BY <1>1, <1>5, <2>1 DEF Places
<1>7. IndexExact' /\ UniqueIds(expired)' /\ BatchComesFirst' /\ Histories'
  BY <1>1 DEF TimerInv, IndexExact, UniqueIds, BatchComesFirst, Histories
<1>8. Counters'
  BY <1>1, <1>2 DEF TimerInv, Counters
<1>9. lpc' = "idle" /\ ~ticks' /\ ~reported' => Armed'
  BY <1>1 DEF TimerInv, Armed
<1> QED
  BY <1>1, <1>5, <1>6, <1>7, <1>8, <1>9 DEF TimerInv

\* cancel() on the loop thread, or one that another thread posted: an id moves
\* from the set to the erased, or nothing does.
LEMMA CancelKeeps ==
    ASSUME TimerInv, NEW i \in Ids, cancel_in_loop(i),
           UNCHANGED <<now, next_id, reported, lpc, expired, fired>>,
           pending' \in Seq(Adds \cup Cancels), UniqueAdds', QueuedIds' = QueuedIds
    PROVE  TimerInv'
<1> USE DEF TimerInv
<1>1. /\ timers' \subseteq timers
      /\ IndexExact'
      /\ cancelled' \subseteq Ids
      /\ \/ IdsOf(timers') = IdsOf(timers) /\ erased' = erased
         \/ /\ i \in IdsOf(timers)
            /\ IdsOf(timers') = IdsOf(timers) \ {i} /\ erased' = erased \cup {i}
      /\ FdServes
  BY CancelEffect DEF Counters, Histories
<1>2. Places'
  BY <1>1 DEF Places, Partition
<1>3. BatchComesFirst' /\ UniqueIds(expired)'
  BY <1>1 DEF BatchComesFirst, UniqueIds
<1>4. Counters' /\ Histories'
  BY <1>1 DEF FdServes, Counters, Histories
<1>5. lpc' = "idle" /\ ~ticks' /\ ~reported' => Armed'
  BY <1>1 DEF FdServes
<1> QED
  BY <1>1, <1>2, <1>3, <1>4, <1>5

LEMMA CancelOnLoopThreadKeeps ==
    ASSUME TimerInv, NEW i \in Ids, CancelOnLoopThread(i)
    PROVE  TimerInv'
<1>1. /\ cancel_in_loop(i)
      /\ UNCHANGED <<now, next_id, reported, lpc, expired, pending, fired>>
  BY DEF CancelOnLoopThread
<1>2. pending' \in Seq(Adds \cup Cancels) /\ UniqueAdds' /\ QueuedIds' = QueuedIds
  BY <1>1 DEF TimerInv, UniqueAdds, QueuedIds
<1> QED
  BY <1>1, <1>2, CancelKeeps

LEMMA CancelFromThreadKeeps ==
    ASSUME TimerInv, NEW i \in Ids, CancelFromThread(i)
    PROVE  TimerInv'
<1> USE DEF TimerInv
<1>1. /\ pending' = Append(pending, [op |-> "cancel", id |-> i])
      /\ UNCHANGED <<now, next_id, timers, index, deadline, ticks, reported, lpc,
                     expired, fired, erased, cancelled>>
  BY DEF CancelFromThread
<1>2. /\ pending' \in Seq(Adds \cup Cancels)
      /\ QueuedIds' = QueuedIds /\ UniqueAdds'
  BY <1>1, PostCancel
<1>3. Places' /\ IndexExact' /\ UniqueIds(expired)' /\ BatchComesFirst'
  BY <1>1, <1>2 DEF Places, IndexExact, UniqueIds, BatchComesFirst
<1>4. Counters' /\ Histories'
  BY <1>1 DEF Counters, Histories
<1>5. lpc' = "idle" /\ ~ticks' /\ ~reported' => Armed'
  BY <1>1 DEF Armed
<1> QED
  BY <1>1, <1>2, <1>3, <1>4, <1>5

\* A posted functor runs; no batch is in progress then.
LEMMA RunPendingKeeps ==
    ASSUME TimerInv, RunPending
    PROVE  TimerInv'
<1> DEFINE h == Head(pending)
<1>1. /\ lpc = "idle" /\ pending # <<>> /\ pending' = Tail(pending)
      /\ UNCHANGED <<now, next_id, reported, lpc, expired, fired>>
  BY DEF RunPending
<1>2. /\ pending' \in Seq(Adds \cup Cancels) /\ h \in Adds \cup Cancels /\ UniqueAdds'
      /\ h.op = "add" => h.entry.id \in QueuedIds /\ QueuedIds' = QueuedIds \ {h.entry.id}
      /\ h.op # "add" => QueuedIds' = QueuedIds
  BY <1>1, TakeHead DEF TimerInv
<1>3. expired = {} /\ next_id \in Nat \ {0}
  BY <1>1 DEF TimerInv, BatchComesFirst, Counters
<1>4. CASE h.op = "add"
  <2>1. h.entry \in Entry /\ h.entry.id \in QueuedIds
    BY <1>2, <1>4 DEF Adds, Cancels
  <2>2. add_timer_in_loop(h.entry) /\ UNCHANGED <<erased, cancelled>>
    BY <1>4 DEF RunPending
  <2>3. /\ h.entry.id \notin IdsOf(timers)
        /\ Partition(QueuedIds', IdsOf(timers) \cup {h.entry.id}, IdsOf(expired), fired,
                     erased, next_id')
    BY <1>1, <1>2, <1>4, <2>1 DEF TimerInv, Places, Partition
  <2>4. next_id' \in Nat \ {0} /\ \A x \in expired : Before(x, h.entry)
    BY <1>1, <1>3
  <2> HIDE DEF h
  <2> QED
    BY <1>1, <1>2, <2>1, <2>2, <2>3, <2>4, AddKeeps
<1>5. CASE h.op # "add"
  <2>1. h.op = "cancel" /\ h.id \in Ids
    BY <1>2, <1>5 DEF Adds, Cancels
  <2>2. cancel_in_loop(h.id)
    BY <1>5 DEF RunPending
  <2> HIDE DEF h
  <2> QED
    BY <1>1, <1>2, <1>5, <2>1, <2>2, CancelKeeps
<1> QED
  BY <1>4, <1>5

LEMMA NextTimerInv ==
    ASSUME TimerInv, [Next]_vars
    PROVE  TimerInv'
<1>1. CASE UNCHANGED vars
  <2>1. /\ UNCHANGED <<now, next_id, timers, index, deadline, ticks, reported, lpc, expired>>
        /\ UNCHANGED <<pending, fired, erased, cancelled>>
    BY <1>1 DEF vars
  <2>2. QueuedIds' = QueuedIds
    BY <2>1 DEF QueuedIds
  <2>3. Places' /\ IndexExact' /\ UniqueIds(expired)' /\ BatchComesFirst' /\ UniqueAdds'
    BY <2>1, <2>2 DEF TimerInv, Places, IndexExact, UniqueIds, BatchComesFirst, UniqueAdds
  <2>4. Counters' /\ Histories' /\ (lpc' = "idle" /\ ~ticks' /\ ~reported' => Armed')
    BY <2>1 DEF TimerInv, Counters, Histories, Armed
  <2> QED
    BY <2>1, <2>3, <2>4 DEF TimerInv
<1> QED
  BY <1>1, ClockTickKeeps, RunPendingKeeps, EpollReportsKeeps, HandleReadKeeps,
     RunCallbackKeeps, CallbackReturnKeeps, FinishKeeps, RunAfterOnLoopThreadKeeps,
     RunAfterFromThreadKeeps, CancelOnLoopThreadKeeps, CancelFromThreadKeeps
  DEF Next, HandleReadStep

-----------------------------------------------------------------------------
(* The theorems.                                                           *)

\* src/src/timer_queue.cpp: the set, its index, the timerfd, the batch that
\* handle_read has taken and the functors of other threads fit together in every
\* state, whatever callbacks and other threads add and cancel.
THEOREM TimersAreRight == SafeSpec => []TimerInv
<1>1. TimerInv /\ [Next]_vars => TimerInv'
  BY NextTimerInv
<1> QED
  BY InitTimerInv, <1>1, PTL DEF SafeSpec

\* The types of timer_queue.h; id_to_iter_ has an iterator for each timer in
\* timers_ and no other, so none dangles.
THEOREM TypeCorrect == SafeSpec => []TypeOK
<1>1. TimerInv => TypeOK
  BY DEF TimerInv, Counters, Histories, IndexExact, TypeOK
<1> QED
  BY TimersAreRight, <1>1, PTL

\* run_at, cancel and handle_read lose no timer and fire none twice.
THEOREM NoTimerLost == SafeSpec => []EachTimerInOnePlace
<1>1. TimerInv => EachTimerInOnePlace
  BY OnePlaceIsPartition DEF TimerInv, Places
<1> QED
  BY TimersAreRight, <1>1, PTL

\* reset_timerfd: outside handle_read the one timerfd serves every timer.
THEOREM ExpiryOnItsWay == SafeSpec => []ArmedForEarliest
<1>1. TimerInv => ArmedForEarliest
  BY DEF TimerInv, Armed, ArmedForEarliest
<1> QED
  BY TimersAreRight, <1>1, PTL

\* handle_read fires in the order of expirations, also against the timers that
\* the callbacks of the batch add: one of no delay waits for the next turn.
THEOREM BatchInOrder == SafeSpec => FiresInOrder
<1> DEFINE Ordered == \A e \in expired : e.id \in fired' \ fired =>
                          \A x \in timers \cup expired : ~Before(x, e)
<1>1. ASSUME TimerInv, RunCallback PROVE Ordered
  <2> SUFFICES ASSUME NEW e \in expired, e.id \in fired' \ fired,
                      NEW x \in timers \cup expired
               PROVE  ~Before(x, e)
    OBVIOUS
  <2>1. PICK c \in expired : IsEarliest(c, expired) /\ fired' = fired \cup {c.id}
    BY <1>1 DEF RunCallback
  <2>2. e = c
    BY <1>1, <2>1 DEF TimerInv, UniqueIds
  <2>3. e \in Entry /\ x \in Entry
    BY <1>1 DEF TimerInv, IndexExact
  <2>4. x = e \/ Before(e, x)
    BY <1>1, <2>1, <2>2 DEF IsEarliest, TimerInv, BatchComesFirst
  <2> QED
    BY <2>3, <2>4, BeforeIsOrder
<1>2. ASSUME [Next]_vars, ~RunCallback PROVE fired' = fired
  BY <1>2 DEF Next, HandleReadStep, vars, ClockTick, RunPending, EpollReports, handle_read,
     CallbackReturn, FinishHandleRead, RunAfterOnLoopThread, RunAfterFromThread,
     CancelOnLoopThread, CancelFromThread
<1>3. TimerInv /\ [Next]_vars => [Ordered]_vars
  BY <1>1, <1>2
<1> QED
  BY TimersAreRight, <1>3, PTL DEF SafeSpec, FiresInOrder

=============================================================================
