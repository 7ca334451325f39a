--------------------------- MODULE MPSCQueueProofs ---------------------------
(***************************************************************************)
(* What holds of MPSCQueue for any number of producers and items, any      *)
(* capacity and any max_batch: the ring arithmetic, the edge protocol of   *)
(* has_pending_, the accounting of drops, and that the ring implements a   *)
(* bounded first-in first-out queue.                                       *)
(***************************************************************************)
EXTENDS MPSCQueue, SequenceTheorems, FiniteSetTheorems, TLAPS

-----------------------------------------------------------------------------
(* Arithmetic of the ring.                                                 *)

\* The capacity in force is positive.
LEMMA CapPositive == cap \in Nat \ {0}
  BY CapacityIsNatural DEF cap

\* The slot of the i-th oldest item.
SlotOf(h, i) == (h + i - 1) % cap

\* A slot index is an index of the ring, and one conditional subtraction.
LEMMA SlotIndex ==
    ASSUME NEW h \in Indices, NEW i \in 1 .. cap + 1
    PROVE  /\ SlotOf(h, i) \in Indices
           /\ SlotOf(h, i) = IF h + i - 1 < cap THEN h + i - 1 ELSE h + i - 1 - cap
<1>1. cap \in Nat \ {0}
  BY CapPositive
<1>2. cap \in Nat /\ h \in 0 .. cap - 1 /\ i \in 1 .. cap + 1
  BY <1>1 DEF Indices
<1> HIDE DEF cap
<1>3. SlotOf(h, i) = IF h + i - 1 < cap THEN h + i - 1 ELSE h + i - 1 - cap
  BY <1>1, <1>2 DEF SlotOf
<1>4. QED
  BY <1>1, <1>2, <1>3 DEF Indices

\* Different positions in the queue lie in different slots.
LEMMA SlotsDistinct ==
    ASSUME NEW h \in Indices, NEW i \in 1 .. cap, NEW j \in 1 .. cap, i # j
    PROVE  SlotOf(h, i) # SlotOf(h, j)
<1>1. cap \in Nat \ {0}
  BY CapPositive
<1> HIDE DEF cap
<1>2. i \in 1 .. cap + 1 /\ j \in 1 .. cap + 1
  BY <1>1
<1>3. SlotOf(h, i) = IF h + i - 1 < cap THEN h + i - 1 ELSE h + i - 1 - cap
  BY <1>2, SlotIndex
<1>4. SlotOf(h, j) = IF h + j - 1 < cap THEN h + j - 1 ELSE h + j - 1 - cap
  BY <1>2, SlotIndex
<1>5. QED
  BY <1>1, <1>3, <1>4 DEF Indices

\* Dropping the n oldest shifts every position by n.
LEMMA SlotShift ==
    ASSUME NEW h \in Indices, NEW n \in 0 .. cap, NEW i \in 1 .. cap + 1 - n
    PROVE  /\ (h + n) % cap \in Indices
           /\ SlotOf((h + n) % cap, i) = SlotOf(h, n + i)
<1>1. cap \in Nat \ {0}
  BY CapPositive
<1> HIDE DEF cap
<1>2. h \in 0 .. cap - 1
  BY DEF Indices
<1>4. (h + n) % cap = IF h + n < cap THEN h + n ELSE h + n - cap
  BY <1>1, <1>2
<1>5. (h + n) % cap \in Indices
  BY <1>1, <1>2, <1>4 DEF Indices
<1>6. i \in 1 .. cap + 1 /\ n + i \in 1 .. cap + 1
  BY <1>1
<1>7. SlotOf(h, n + i) = IF h + (n + i) - 1 < cap THEN h + (n + i) - 1
                                                 ELSE h + (n + i) - 1 - cap
  BY <1>6, SlotIndex
<1> DEFINE g == (h + n) % cap
<1>8. SlotOf(g, i) = IF g + i - 1 < cap THEN g + i - 1 ELSE g + i - 1 - cap
  BY <1>5, <1>6, SlotIndex
<1>9. g = IF h + n < cap THEN h + n ELSE h + n - cap
  BY <1>4
<1> HIDE DEF g
<1>10. SlotOf(g, i) = SlotOf(h, n + i)
  BY <1>1, <1>2, <1>6, <1>7, <1>8, <1>9
<1>11. QED
  BY <1>5, <1>10 DEF g

\* The distance from head of the i-th oldest item's slot is i - 1.
LEMMA SlotDistance ==
    ASSUME NEW h \in Indices, NEW i \in 1 .. cap
    PROVE  (SlotOf(h, i) + cap - h) % cap = i - 1
<1>1. cap \in Nat \ {0}
  BY CapPositive
<1> HIDE DEF cap
<1>2. h \in 0 .. cap - 1 /\ i \in 1 .. cap + 1
  BY <1>1 DEF Indices
<1> DEFINE k == SlotOf(h, i)
<1>3. k = IF h + i - 1 < cap THEN h + i - 1 ELSE h + i - 1 - cap
  BY <1>2, SlotIndex
<1> HIDE DEF k
<1>4. k + cap - h \in 0 .. 2 * cap - 1
  BY <1>1, <1>2, <1>3
<1>5. (k + cap - h) % cap = IF k + cap - h < cap THEN k + cap - h ELSE k + cap - h - cap
  BY <1>1, <1>2, <1>3, <1>4
<1>6. (k + cap - h) % cap = i - 1
  BY <1>1, <1>2, <1>3, <1>5
<1>7. QED
  BY <1>6 DEF k

-----------------------------------------------------------------------------
(* What push() and drain() do to the sequence of items in the ring.        *)

\* The c items from index h of the ring s; Contents is QueueOf(slots, head, count).
QueueOf(s, h, c) == [i \in 1 .. c |-> s[SlotOf(h, i)]]

Holds(s, h, c) == \A i \in 1 .. c : s[SlotOf(h, i)] \in Items

\* A ring that holds c items is a sequence of c items.
LEMMA QueueOfIsSeq ==
    ASSUME NEW s, NEW h, NEW c \in Nat, Holds(s, h, c)
    PROVE  /\ QueueOf(s, h, c) \in Seq(Items)
           /\ Len(QueueOf(s, h, c)) = c
           /\ \A i \in 1 .. c : QueueOf(s, h, c)[i] = s[SlotOf(h, i)]
  BY DEF QueueOf, Holds

\* A ring that agrees with another one on c items and has v behind them holds
\* the other's queue with v appended.
LEMMA OneMoreItem ==
    ASSUME NEW s, NEW s2, NEW h, NEW c \in Nat, NEW v \in Items,
           Holds(s, h, c),
           \A i \in 1 .. c : s2[SlotOf(h, i)] = s[SlotOf(h, i)],
           s2[SlotOf(h, c + 1)] = v
    PROVE  /\ Holds(s2, h, c + 1)
           /\ QueueOf(s2, h, c + 1) = Append(QueueOf(s, h, c), v)
<1>1. Holds(s2, h, c + 1)
  <2> SUFFICES ASSUME NEW i \in 1 .. c + 1 PROVE s2[SlotOf(h, i)] \in Items
    BY DEF Holds
  <2>1. CASE i = c + 1
    BY <2>1
  <2>2. CASE i \in 1 .. c
    BY <2>2 DEF Holds
  <2>3. QED
    BY <2>1, <2>2
<1> DEFINE q1 == QueueOf(s, h, c)
           q2 == QueueOf(s2, h, c + 1)
<1>2. /\ q1 \in Seq(Items) /\ Len(q1) = c
      /\ \A i \in 1 .. c : q1[i] = s[SlotOf(h, i)]
  BY QueueOfIsSeq
<1>3. /\ q2 \in Seq(Items) /\ Len(q2) = c + 1
      /\ \A i \in 1 .. c + 1 : q2[i] = s2[SlotOf(h, i)]
  <2>1. PICK k \in Nat : k = c + 1
    OBVIOUS
  <2>2. Holds(s2, h, k)
    BY <1>1, <2>1
  <2>3. /\ QueueOf(s2, h, k) \in Seq(Items) /\ Len(QueueOf(s2, h, k)) = k
        /\ \A i \in 1 .. k : QueueOf(s2, h, k)[i] = s2[SlotOf(h, i)]
    BY <2>2, QueueOfIsSeq
  <2>4. QED
    BY <2>1, <2>3
<1> HIDE DEF q1, q2
<1>4. /\ Append(q1, v) \in Seq(Items) /\ Len(Append(q1, v)) = c + 1
       /\ \A i \in 1 .. c : Append(q1, v)[i] = q1[i]
       /\ Append(q1, v)[c + 1] = v
  BY <1>2, AppendProperties
<1>5. ASSUME NEW i \in 1 .. c + 1 PROVE q2[i] = Append(q1, v)[i]
  <2>1. CASE i = c + 1
    BY <1>3, <1>4, <2>1
  <2>2. CASE i \in 1 .. c
    BY <1>2, <1>3, <1>4, <2>2
  <2>3. i = c + 1 \/ i \in 1 .. c
    OBVIOUS
  <2>4. QED
    BY <2>1, <2>2, <2>3
<1>6. q2 = Append(q1, v)
  BY <1>3, <1>4, <1>5, SeqEqual
<1>7. QED
  BY <1>1, <1>6 DEF q1, q2

\* s2 is s with v in the slot behind its newest item.
Written(s, h, c, v, s2) == s2 = [s EXCEPT ![(h + c) % cap] = v]

\* Writing the slot behind the newest item appends to the queue.
LEMMA PushEffect ==
    ASSUME NEW s \in [Indices -> Items \cup {Empty}], NEW h \in Indices,
           NEW c \in 0 .. cap - 1, NEW v \in Items, Holds(s, h, c),
           NEW s2, Written(s, h, c, v, s2)
    PROVE  /\ Holds(s2, h, c + 1)
           /\ QueueOf(s2, h, c + 1) = Append(QueueOf(s, h, c), v)
<1>1. cap \in Nat \ {0}
  BY CapPositive
<1> HIDE DEF cap
<1>2. c \in Nat /\ c + 1 \in 1 .. cap
  BY <1>1
<1>3. (h + c) % cap = SlotOf(h, c + 1)
  <2>1. h \in Int /\ h + (c + 1) - 1 = h + c
    BY <1>1, <1>2 DEF Indices
  <2>2. QED
    BY <2>1 DEF SlotOf
<1>4. SlotOf(h, c + 1) \in Indices
  BY <1>1, <1>2, SlotIndex
<1>5. s2[SlotOf(h, c + 1)] = v
  BY <1>3, <1>4 DEF Written
<1>6. ASSUME NEW i \in 1 .. c PROVE s2[SlotOf(h, i)] = s[SlotOf(h, i)]
  <2>1. i \in 1 .. cap /\ i # c + 1 /\ i \in 1 .. cap + 1
    BY <1>1, <1>2
  <2>2. SlotOf(h, i) # SlotOf(h, c + 1) /\ SlotOf(h, i) \in Indices
    BY <1>2, <2>1, SlotsDistinct, SlotIndex
  <2>3. QED
    BY <1>3, <2>2 DEF Written
<1>7. c \in Nat /\ \A i \in 1 .. c : s2[SlotOf(h, i)] = s[SlotOf(h, i)]
  BY <1>2, <1>6
<1>8. QED
  BY <1>5, <1>7, OneMoreItem

\* Clearing the n oldest slots and moving head removes the n oldest items.
LEMMA DrainEffect ==
    ASSUME NEW s \in [Indices -> Items \cup {Empty}], NEW h \in Indices,
           NEW c \in 0 .. cap, NEW n \in 0 .. c, Holds(s, h, c),
           NEW s2, s2 = [i \in Indices |->
                            IF (i + cap - h) % cap < n THEN Empty ELSE s[i]],
           NEW h2, h2 = (h + n) % cap
    PROVE  /\ Holds(s2, h2, c - n)
           /\ QueueOf(s2, h2, c - n) = SubSeq(QueueOf(s, h, c), n + 1, c)
<1>1. cap \in Nat \ {0}
  BY CapPositive
<1> HIDE DEF cap
<1>2. c \in Nat /\ n \in Nat /\ c - n \in Nat /\ n \in 0 .. cap
  BY <1>1
<1>3. ASSUME NEW i \in 1 .. c - n PROVE s2[SlotOf(h2, i)] = s[SlotOf(h, n + i)]
  <2>1. i \in 1 .. cap + 1 - n /\ n + i \in 1 .. cap /\ n + i \in 1 .. cap + 1
    BY <1>1, <1>2
  <2>2. SlotOf(h2, i) = SlotOf(h, n + i)
    BY <1>2, <2>1, SlotShift
  <2>3. SlotOf(h, n + i) \in Indices
    BY <2>1, SlotIndex
  <2>4. (SlotOf(h, n + i) + cap - h) % cap = n + i - 1
    BY <2>1, SlotDistance
  <2>5. ~(n + i - 1 < n)
    BY <1>2
  <2>6. QED
    BY <2>2, <2>3, <2>4, <2>5
<1>4. Holds(s2, h2, c - n)
  <2> SUFFICES ASSUME NEW i \in 1 .. c - n PROVE s2[SlotOf(h2, i)] \in Items
    BY DEF Holds
  <2>1. n + i \in 1 .. c
    BY <1>2
  <2>2. QED
    BY <1>3, <2>1 DEF Holds
<1> DEFINE q1 == QueueOf(s, h, c)
           q2 == QueueOf(s2, h2, c - n)
           r == SubSeq(q1, n + 1, c)
<1>5. /\ q1 \in Seq(Items) /\ Len(q1) = c
      /\ \A i \in 1 .. c : q1[i] = s[SlotOf(h, i)]
  BY <1>2, QueueOfIsSeq
<1>6. /\ q2 \in Seq(Items) /\ Len(q2) = c - n
      /\ \A i \in 1 .. c - n : q2[i] = s2[SlotOf(h2, i)]
  <2>1. PICK k \in Nat : k = c - n
    BY <1>2
  <2>2. Holds(s2, h2, k)
    BY <1>4, <2>1
  <2>3. /\ QueueOf(s2, h2, k) \in Seq(Items) /\ Len(QueueOf(s2, h2, k)) = k
        /\ \A i \in 1 .. k : QueueOf(s2, h2, k)[i] = s2[SlotOf(h2, i)]
    BY <2>2, QueueOfIsSeq
  <2>4. QED
    BY <2>1, <2>3
<1> HIDE DEF q1, q2
<1>7. /\ r \in Seq(Items) /\ Len(r) = c - n
      /\ \A i \in 1 .. c - n : r[i] = q1[n + i]
  <2>1. \A i \in n + 1 .. c : q1[i] \in Items
    BY <1>2, <1>5, ElementOfSeq
  <2>2. r \in Seq(Items) /\ Len(r) = c - n
    BY <1>2, <1>5, <2>1
  <2>3. \A i \in 1 .. c - n : r[i] = q1[n + i]
    BY <1>2, <1>5
  <2>4. QED
    BY <2>2, <2>3
<1> HIDE DEF r
<1>8. ASSUME NEW i \in 1 .. c - n PROVE q2[i] = r[i]
  <2>1. n + i \in 1 .. c
    BY <1>2
  <2>2. q2[i] = s[SlotOf(h, n + i)]
    BY <1>3, <1>6
  <2>3. r[i] = s[SlotOf(h, n + i)]
    BY <1>5, <1>7, <2>1
  <2>4. QED
    BY <2>2, <2>3
<1>9. q2 = r
  BY <1>6, <1>7, <1>8, SeqEqual
<1>10. QED
  BY <1>4, <1>9 DEF q1, q2, r

-----------------------------------------------------------------------------
(* The ring's invariant.                                                   *)

\* The module's Contents and RingInv in the terms used above.
LEMMA ContentsIsQueueOf ==
    /\ Contents = QueueOf(slots, head, count)
    /\ RingInv <=> Holds(slots, head, count) /\ IsFiniteSet(refusals)
  BY DEF Contents, QueueOf, SlotOf, RingInv, Holds

\* An empty ring is a ring.
LEMMA InitRing == Init => TypeOK /\ RingInv
<1> SUFFICES ASSUME Init PROVE TypeOK /\ RingInv
  OBVIOUS
<1>1. cap \in Nat \ {0}
  BY CapPositive
<1> HIDE DEF cap
<1>2. /\ head \in Indices /\ tail \in Indices /\ count \in 0 .. cap
      /\ tail = (head + count) % cap
  BY <1>1 DEF Init, Indices
<1>3. /\ has_pending \in BOOLEAN /\ leftover \in BOOLEAN /\ missed \in BOOLEAN
      /\ ppc \in [Producers -> ProducerPc] /\ cpc \in ConsumerPc
      /\ slots \in [Indices -> Items \cup {Empty}]
  BY DEF Init, ProducerPc, ConsumerPc
<1>4. /\ out \in Seq(Items) /\ refusals \subseteq Items /\ IsFiniteSet(refusals)
  BY EmptySeq, FS_EmptySet DEF Init
<1>5. /\ dropped \in Nat /\ wakes \in Nat /\ reported \in Nat
      /\ \A i \in 1 .. count : slots[(head + i - 1) % cap] \in Items
  BY DEF Init
<1>6. QED
  BY <1>2, <1>3, <1>4, <1>5 DEF TypeOK, RingInv

\* The steps that leave the ring and the history alone keep both.
LEMMA RingUntouched ==
    ASSUME TypeOK, RingInv,
           UNCHANGED <<slots, head, tail, count, out, refusals>>,
           has_pending' \in BOOLEAN, dropped' \in Nat,
           ppc' \in [Producers -> ProducerPc], cpc' \in ConsumerPc,
           wakes' \in Nat, leftover' \in BOOLEAN, missed' \in BOOLEAN,
           reported' \in Nat
    PROVE  TypeOK' /\ RingInv'
<1>1. UNCHANGED cap
  BY DEF cap
<1>2. UNCHANGED Indices
  BY <1>1 DEF Indices
<1> HIDE DEF cap, Indices
<1>3. QED
  BY <1>1, <1>2 DEF TypeOK, RingInv

\* push() into a free slot keeps the ring.
LEMMA PushStoreRing ==
    ASSUME TypeOK, RingInv, NEW p \in Producers, NEW v \in Items, PushStore(p, v)
    PROVE  /\ TypeOK' /\ RingInv'
           /\ Contents' = Append(Contents, v)
<1>1. cap \in Nat \ {0}
  BY CapPositive
<1> HIDE DEF cap
<1>2. /\ head \in Indices /\ count \in 0 .. cap - 1 /\ Holds(slots, head, count)
      /\ slots \in [Indices -> Items \cup {Empty}]
      /\ slots' = [slots EXCEPT ![(head + count) % cap] = v]
      /\ head' = head /\ count' = count + 1 /\ tail' = (tail + 1) % cap
      /\ tail = (head + count) % cap
  BY <1>1, ContentsIsQueueOf DEF PushStore, TypeOK
<1>3. /\ Holds(slots', head, count + 1)
      /\ QueueOf(slots', head, count + 1) = Append(QueueOf(slots, head, count), v)
  BY <1>2, PushEffect DEF Written
<1>4. /\ Contents' = QueueOf(slots', head, count + 1)
      /\ RingInv' <=> Holds(slots', head, count + 1) /\ IsFiniteSet(refusals')
  BY <1>2 DEF Contents, QueueOf, SlotOf, RingInv, Holds, cap
<1>5. IsFiniteSet(refusals')
  BY DEF PushStore, RingInv
<1>6. tail' \in Indices /\ tail' = (head' + count') % cap
  <2>1. head \in 0 .. cap - 1
    BY <1>2 DEF Indices
  <2>2. tail = IF head + count < cap THEN head + count ELSE head + count - cap
    BY <1>1, <1>2, <2>1
  <2>3. tail \in 0 .. cap - 1 /\ tail \in Indices
    BY <1>1, <1>2, <2>1, <2>2 DEF Indices
  <2>4. tail' = IF tail + 1 < cap THEN tail + 1 ELSE tail + 1 - cap
    BY <1>1, <1>2, <2>3
  <2>5. (head' + count') % cap
          = IF head + count + 1 < cap THEN head + count + 1
                                      ELSE head + count + 1 - cap
    BY <1>1, <1>2, <2>1
  <2>6. tail' = (head' + count') % cap
    BY <1>1, <1>2, <2>1, <2>2, <2>4, <2>5
  <2>7. QED
    BY <1>1, <2>3, <2>4, <2>6 DEF Indices
<1>7. (head + count) % cap \in Indices
  BY <1>2 DEF TypeOK
<1>8. slots' \in [Indices -> Items \cup {Empty}]
  BY <1>2, <1>7
<1>9. count' \in 0 .. cap
  BY <1>1, <1>2
<1>10. ppc' \in [Producers -> ProducerPc]
  BY DEF PushStore, TypeOK, ProducerPc
<1>11. TypeOK'
  BY <1>2, <1>6, <1>8, <1>9, <1>10 DEF PushStore, TypeOK, Indices, cap
<1>12. QED
  BY <1>3, <1>4, <1>5, <1>11, ContentsIsQueueOf

\* How many items a drain takes.
LEMMA TakenBounds ==
    ASSUME TypeOK
    PROVE  Taken \in 0 .. count /\ (Taken = 0 <=> count = 0) /\ count \in Nat
  BY MaxBatchIsPositive, CapPositive DEF TypeOK, Taken

\* drain() keeps the ring, whatever it takes.
LEMMA DrainRing ==
    ASSUME TypeOK, RingInv, Drain
    PROVE  /\ TypeOK' /\ RingInv'
           /\ Contents' = SubSeq(Contents, Taken + 1, count)
           /\ out' = out \o SubSeq(Contents, 1, Taken)
<1>1. cap \in Nat \ {0}
  BY CapPositive
<1> HIDE DEF cap
<1>2. /\ head \in Indices /\ count \in 0 .. cap /\ Holds(slots, head, count)
      /\ slots \in [Indices -> Items \cup {Empty}]
  BY ContentsIsQueueOf DEF TypeOK
<1>3. PICK n \in 0 .. count : n = Taken
  BY TakenBounds
<1>4. /\ slots' = [i \in Indices |->
                    IF (i + cap - head) % cap < n THEN Empty ELSE slots[i]]
      /\ head' = (head + n) % cap
      /\ count' = count - n
      /\ out' = out \o SubSeq(Contents, 1, n)
  BY <1>3 DEF Drain, RemoveTaken
<1>5. /\ Holds(slots', head', count - n)
      /\ QueueOf(slots', head', count - n)
            = SubSeq(QueueOf(slots, head, count), n + 1, count)
  BY <1>2, <1>4, DrainEffect
<1>6. /\ Contents' = QueueOf(slots', head', count - n)
      /\ RingInv' <=> Holds(slots', head', count - n) /\ IsFiniteSet(refusals')
  BY <1>4 DEF Contents, QueueOf, SlotOf, RingInv, Holds, cap
<1>7. IsFiniteSet(refusals')
  BY DEF Drain, RingInv
<1>8. head' \in Indices /\ tail' \in Indices /\ tail' = (head' + count') % cap
  <2>1. head \in 0 .. cap - 1 /\ n \in 0 .. cap
    BY <1>1, <1>2 DEF Indices
  <2>2. head' = IF head + n < cap THEN head + n ELSE head + n - cap
    <3>1. (head + n) % cap = IF head + n < cap THEN head + n ELSE head + n - cap
      BY <1>1, <2>1
    <3>2. QED
      BY <1>4, <3>1
  <2>3. head' \in 0 .. cap - 1
    BY <1>1, <2>1, <2>2
  <2>4. (head' + (count - n)) % cap
          = IF head' + (count - n) < cap THEN head' + (count - n)
                                         ELSE head' + (count - n) - cap
    <3>1. PICK g \in 0 .. cap - 1, m \in 0 .. cap : g = head' /\ m = count - n
      BY <1>1, <1>2, <2>1, <2>3
    <3>2. (g + m) % cap = IF g + m < cap THEN g + m ELSE g + m - cap
      BY <1>1
    <3>3. QED
      BY <3>1, <3>2
  <2>5. tail = IF head + count < cap THEN head + count ELSE head + count - cap
    BY <1>1, <1>2, <2>1 DEF TypeOK
  <2>6. tail = (head' + (count - n)) % cap
    BY <1>1, <1>2, <2>1, <2>2, <2>4, <2>5
  <2>7. QED
    BY <1>4, <2>3, <2>6 DEF Drain, TypeOK, Indices
<1>9. count' \in 0 .. cap
  BY <1>1, <1>2, <1>4
<1>10. slots' \in [Indices -> Items \cup {Empty}]
  BY <1>2, <1>4
<1>11. out' \in Seq(Items)
  <2>1. Contents \in Seq(Items) /\ Len(Contents) = count
    BY <1>1, <1>2, ContentsIsQueueOf, QueueOfIsSeq
  <2>2. \A i \in 1 .. n : Contents[i] \in Items
    BY <1>1, <1>2, <2>1, ElementOfSeq
  <2>3. SubSeq(Contents, 1, n) \in Seq(Items)
    BY <1>1, <1>2, <2>2, SubSeqProperties
  <2>4. QED
    BY <1>4, <2>3, ConcatProperties DEF TypeOK
<1>12. /\ has_pending' \in BOOLEAN /\ leftover' \in BOOLEAN
       /\ missed' \in BOOLEAN /\ cpc' \in ConsumerPc
  <2>1. leftover' = (Taken < count) /\ missed' = FALSE /\ cpc' = "idle"
    BY DEF Drain
  <2>2. has_pending' = FALSE \/ has_pending' = has_pending
    BY DEF Drain
  <2>3. leftover' \in BOOLEAN
    <3>1. (Taken < count) \in BOOLEAN
      OBVIOUS
    <3>2. QED
      BY <2>1, <3>1, Zenon
  <2>4. has_pending' \in BOOLEAN
    BY <2>2, Zenon DEF TypeOK
  <2>5. QED
    BY <2>1, <2>3, <2>4 DEF ConsumerPc
<1>13. TypeOK'
  BY <1>8, <1>9, <1>10, <1>11, <1>12 DEF Drain, TypeOK, Indices, cap
<1>14. QED
  BY <1>3, <1>4, <1>5, <1>6, <1>7, <1>13, ContentsIsQueueOf

\* A refused item is remembered once more.
LEMMA PushFullRing ==
    ASSUME TypeOK, RingInv, NEW p \in Producers, NEW v \in Items, PushFull(p, v)
    PROVE  /\ TypeOK' /\ RingInv'
           /\ Contents' = Contents
           /\ Cardinality(refusals') = Cardinality(refusals) + 1
<1>1. /\ IsFiniteSet(refusals \cup {v})
      /\ Cardinality(refusals \cup {v}) = Cardinality(refusals) + 1
  BY FS_AddElement DEF RingInv, PushFull, Fresh
<1>2. ppc' \in [Producers -> ProducerPc]
  BY DEF PushFull, TypeOK, ProducerPc
<1>3. UNCHANGED <<cap, Indices, Contents>>
  BY DEF PushFull, cap, Indices, Contents
<1>4. RingInv'
  BY <1>1, <1>3 DEF PushFull, RingInv
<1>5. TypeOK'
  BY <1>2, <1>3 DEF PushFull, TypeOK
<1>6. QED
  BY <1>1, <1>3, <1>4, <1>5 DEF PushFull

\* Every step keeps the ring.
LEMMA NextRing == TypeOK /\ RingInv /\ [Next]_vars => (TypeOK /\ RingInv)'
<1> SUFFICES ASSUME TypeOK, RingInv, [Next]_vars PROVE TypeOK' /\ RingInv'
  OBVIOUS
<1>1. ASSUME NEW p \in Producers, NEW v \in Items, PushStore(p, v)
      PROVE  TypeOK' /\ RingInv'
  BY <1>1, PushStoreRing
<1>2. ASSUME NEW p \in Producers, NEW v \in Items, PushFull(p, v)
      PROVE  TypeOK' /\ RingInv'
  BY <1>2, PushFullRing
<1>3. ASSUME NEW p \in Producers, CountDrop(p) PROVE TypeOK' /\ RingInv'
  BY <1>3, RingUntouched DEF CountDrop, TypeOK, ProducerPc
<1>4. ASSUME NEW p \in Producers, RaiseFlag(p) PROVE TypeOK' /\ RingInv'
  <2>1. ppc' \in [Producers -> ProducerPc]
    BY <1>4 DEF RaiseFlag, TypeOK, ProducerPc
  <2>2. QED
    BY <1>4, <2>1, RingUntouched DEF RaiseFlag, TypeOK
<1>5. ASSUME NEW p \in Producers, NotifyConsumer(p) PROVE TypeOK' /\ RingInv'
  BY <1>5, RingUntouched DEF NotifyConsumer, TypeOK, ProducerPc
<1>6. CASE WakeConsumer
  BY <1>6, RingUntouched DEF WakeConsumer, TypeOK, ConsumerPc
<1>6a. CASE WakeSkipped
  <2>1. /\ missed' \in BOOLEAN
        /\ cpc' \in ConsumerPc
    BY <1>6a, Zenon DEF WakeSkipped, TypeOK
  <2>2. wakes' \in Nat
    BY <1>6a DEF WakeSkipped, TypeOK
  <2>3. QED
    BY <1>6a, <2>1, <2>2, RingUntouched DEF WakeSkipped, TypeOK
<1>7. CASE Tick
  BY <1>7, RingUntouched DEF Tick, TypeOK, ConsumerPc
<1>8. CASE TakeDropped
  BY <1>8, RingUntouched DEF TakeDropped, TypeOK, ConsumerPc
<1>9. CASE Drain
  BY <1>9, DrainRing
<1>10. CASE UNCHANGED vars
  BY <1>10, RingUntouched DEF vars, TypeOK
<1>11. QED
  BY <1>1, <1>2, <1>3, <1>4, <1>5, <1>6, <1>6a, <1>7, <1>8, <1>9, <1>10
  DEF Next, ProducerStep, ConsumerStep

\* The ring is one in every reachable state.
LEMMA RingIsInvariant == SafeSpec => [](TypeOK /\ RingInv)
  BY InitRing, NextRing, PTL DEF SafeSpec

\* head_, tail_ and count_ always agree and the ring's indices stay inside it,
\* for every capacity, 0 included, and any number of producers.
THEOREM TypeCorrect == SafeSpec => []TypeOK
  BY RingIsInvariant, PTL

-----------------------------------------------------------------------------
(* The edge protocol of has_pending_.                                      *)

\* Nothing is stranded in an empty queue.
LEMMA InitNoItemStranded == Init => NoItemStranded /\ FlagInv
  BY DEF Init, NoItemStranded, FlagInv

\* A queued item always has its flag, up or about to go up: only a drain that
\* empties the queue lowers it.
LEMMA NextFlagInv == TypeOK /\ FlagInv /\ [Next]_vars => FlagInv'
<1> SUFFICES ASSUME TypeOK, FlagInv, [Next]_vars PROVE FlagInv'
  OBVIOUS
<1> USE DEF FlagInv
<1>0. count \in Nat /\ ppc \in [Producers -> ProducerPc]
  BY CapPositive DEF TypeOK
<1>1. ASSUME NEW p \in Producers, NEW v \in Items, PushStore(p, v)
      PROVE  FlagInv'
  BY <1>0, <1>1 DEF PushStore
<1>2. ASSUME NEW p \in Producers, NEW v \in Items, PushFull(p, v)
      PROVE  FlagInv'
  BY <1>0, <1>2 DEF PushFull
<1>3. ASSUME NEW p \in Producers, CountDrop(p) PROVE FlagInv'
  BY <1>0, <1>3 DEF CountDrop
<1>4. ASSUME NEW p \in Producers, RaiseFlag(p) PROVE FlagInv'
  BY <1>4 DEF RaiseFlag
<1>5. ASSUME NEW p \in Producers, NotifyConsumer(p) PROVE FlagInv'
  BY <1>0, <1>5 DEF NotifyConsumer
<1>6. CASE WakeConsumer \/ WakeSkipped \/ Tick \/ TakeDropped
  BY <1>6 DEF WakeConsumer, WakeSkipped, Tick, TakeDropped
<1>7. CASE Drain
  <2>1. /\ count' = count - Taken
        /\ has_pending' = IF Taken = count THEN FALSE ELSE has_pending
        /\ ppc' = ppc
    BY <1>7 DEF Drain, RemoveTaken
  <2>2. Taken \in 0 .. count
    BY TakenBounds
  <2>3. QED
    BY <1>0, <2>1, <2>2
<1>8. CASE UNCHANGED vars
  BY <1>8 DEF vars
<1>9. QED
  BY <1>1, <1>2, <1>3, <1>4, <1>5, <1>6, <1>7, <1>8
  DEF Next, ProducerStep, ConsumerStep

\* With FlagInv the protocol is inductive.  Its second conjunct, a raised flag is
\* backed by a drain to come unless a gate used the wakeup up, is what lets a
\* producer whose compare-and-swap fails go away without waking anybody.
LEMMA NextNoItemStranded ==
    TypeOK /\ FlagInv /\ NoItemStranded /\ [Next]_vars => NoItemStranded'
<1> SUFFICES ASSUME TypeOK, FlagInv, NoItemStranded, [Next]_vars
             PROVE  NoItemStranded'
  OBVIOUS
<1> USE DEF NoItemStranded, DrainComing
<1>0. count \in Nat /\ wakes \in Nat /\ ppc \in [Producers -> ProducerPc]
  BY CapPositive DEF TypeOK
<1>1. ASSUME NEW p \in Producers, NEW v \in Items, PushStore(p, v)
      PROVE  NoItemStranded'
  BY <1>0, <1>1 DEF PushStore
<1>2. ASSUME NEW p \in Producers, NEW v \in Items, PushFull(p, v)
      PROVE  NoItemStranded'
  BY <1>0, <1>2 DEF PushFull
<1>3. ASSUME NEW p \in Producers, CountDrop(p) PROVE NoItemStranded'
  BY <1>0, <1>3 DEF CountDrop
<1>4. ASSUME NEW p \in Producers, RaiseFlag(p) PROVE NoItemStranded'
  <2>1. CASE has_pending
    BY <1>0, <1>4, <2>1 DEF RaiseFlag
  <2>2. CASE ~has_pending
    BY <1>0, <1>4, <2>2 DEF RaiseFlag
  <2>3. QED
    BY <2>1, <2>2
<1>5. ASSUME NEW p \in Producers, NotifyConsumer(p) PROVE NoItemStranded'
  BY <1>0, <1>5 DEF NotifyConsumer
<1>6. CASE WakeConsumer
  BY <1>0, <1>6 DEF WakeConsumer
<1>6a. CASE WakeSkipped
  <2>1. missed' = (missed \/ has_pending)
    BY <1>6a DEF WakeSkipped
  <2>2. CASE has_pending
    <3>1. missed'
      BY <2>1, <2>2, Zenon
    <3>2. QED
      BY <3>1
  <2>3. CASE ~has_pending
    <3>1. count' > 0 => \E p \in Producers : ppc'[p] = "cas"
      BY <1>6a, <2>3 DEF WakeSkipped, FlagInv
    <3>2. ~has_pending'
      BY <1>6a, <2>3 DEF WakeSkipped
    <3>3. QED
      BY <3>1, <3>2
  <2>4. QED
    BY <2>2, <2>3
<1>7. CASE Tick
  BY <1>0, <1>7 DEF Tick
<1>8. CASE TakeDropped
  BY <1>0, <1>8 DEF TakeDropped
<1>9. CASE Drain
  <2>1. /\ count' = count - Taken
        /\ has_pending' = IF Taken = count THEN FALSE ELSE has_pending
        /\ leftover' = (Taken < count)
    BY <1>9 DEF Drain, RemoveTaken
  <2>2. Taken \in 0 .. count
    BY TakenBounds
  <2>3. CASE Taken = count
    BY <1>0, <2>1, <2>3
  <2>4. CASE Taken # count
    <3>1. Taken < count /\ count' > 0
      BY <1>0, <2>1, <2>2, <2>4
    <3>2. leftover'
      BY <2>1, <3>1, Zenon
    <3>3. QED
      BY <3>1, <3>2
  <2>5. QED
    BY <2>3, <2>4
<1>10. CASE UNCHANGED vars
  BY <1>10 DEF vars
<1>11. QED
  BY <1>1, <1>2, <1>3, <1>4, <1>5, <1>6, <1>6a, <1>7, <1>8, <1>9, <1>10
  DEF Next, ProducerStep, ConsumerStep

\* No accepted item is left behind without a wakeup or a drain to come, although
\* has_pending_ is raised outside the mutex: what can leave it to the timer is a
\* drain that stops at max_batch and a wakeup that meets a closed gate of
\* LogSender, and nothing else.
THEOREM EdgeNotLost == SafeSpec => []NoItemStranded
<1>1. Init => FlagInv /\ NoItemStranded
  BY InitNoItemStranded
<1>2. TypeOK /\ FlagInv /\ NoItemStranded /\ [Next]_vars
        => (FlagInv /\ NoItemStranded)'
  BY NextFlagInv, NextNoItemStranded
<1>3. QED
  BY <1>1, <1>2, RingIsInvariant, PTL DEF SafeSpec

-----------------------------------------------------------------------------
(* The accounting of drops.                                                *)

Dropping == {p \in Producers : ppc[p] = "drop"}

\* Finitely many producers are about to count a drop.
LEMMA DroppingIsFinite == IsFiniteSet(Dropping) /\ Cardinality(Dropping) \in Nat
  BY ProducersAreFinite, FS_Subset, FS_CardinalityType DEF Dropping

\* At first nothing is dropped and nothing counted.
LEMMA InitDropsAccounted == Init => DropsAccounted
<1> SUFFICES ASSUME Init PROVE DropsAccounted
  OBVIOUS
<1>1. Dropping = {} /\ refusals = {} /\ dropped = 0 /\ reported = 0
  BY DEF Init, Dropping
<1>2. QED
  BY <1>1, FS_EmptySet DEF DropsAccounted, Dropping

\* Every step keeps the account of drops.
LEMMA NextDropsAccounted ==
    TypeOK /\ RingInv /\ DropsAccounted /\ [Next]_vars => DropsAccounted'
<1> SUFFICES ASSUME TypeOK, RingInv, DropsAccounted, [Next]_vars
             PROVE  DropsAccounted'
  OBVIOUS
<1>1. /\ dropped \in Nat /\ reported \in Nat /\ Cardinality(Dropping) \in Nat
      /\ IsFiniteSet(Dropping)
      /\ Cardinality(refusals) = dropped + reported + Cardinality(Dropping)
      /\ Cardinality(refusals) \in Nat
      /\ ppc \in [Producers -> ProducerPc]
  BY DroppingIsFinite, FS_CardinalityType
  DEF TypeOK, RingInv, DropsAccounted, Dropping
<1>2. DropsAccounted' <=>
        Cardinality(refusals') = dropped' + reported' + Cardinality(Dropping')
  BY DEF DropsAccounted, Dropping
<1>3. ASSUME UNCHANGED <<refusals, dropped, reported>>, Dropping' = Dropping
      PROVE  DropsAccounted'
  BY <1>1, <1>2, <1>3
<1>4. ASSUME NEW p \in Producers, NEW v \in Items, PushStore(p, v)
      PROVE  DropsAccounted'
  <2>1. Dropping' = Dropping
    BY <1>1, <1>4 DEF PushStore, Dropping
  <2>2. QED
    BY <1>3, <1>4, <2>1 DEF PushStore
<1>5. ASSUME NEW p \in Producers, NEW v \in Items, PushFull(p, v)
      PROVE  DropsAccounted'
  <2>1. Dropping' = Dropping \cup {p} /\ p \notin Dropping
    BY <1>1, <1>5 DEF PushFull, Dropping
  <2>2. Cardinality(Dropping') = Cardinality(Dropping) + 1
    BY <1>1, <2>1, FS_AddElement
  <2>3. Cardinality(refusals') = Cardinality(refusals) + 1
    BY <1>5, PushFullRing
  <2>4. dropped' = dropped /\ reported' = reported
    BY <1>5 DEF PushFull
  <2>5. QED
    BY <1>1, <1>2, <2>2, <2>3, <2>4
<1>6. ASSUME NEW p \in Producers, CountDrop(p) PROVE DropsAccounted'
  <2>1. Dropping' = Dropping \ {p} /\ p \in Dropping
    BY <1>1, <1>6 DEF CountDrop, Dropping
  <2>2. Cardinality(Dropping') = Cardinality(Dropping) - 1
    BY <1>1, <2>1, FS_RemoveElement
  <2>3. dropped' = dropped + 1 /\ reported' = reported /\ refusals' = refusals
    BY <1>6 DEF CountDrop
  <2>4. QED
    BY <1>1, <1>2, <2>2, <2>3
<1>7. ASSUME NEW p \in Producers, RaiseFlag(p) PROVE DropsAccounted'
  <2>1. Dropping' = Dropping
    BY <1>1, <1>7 DEF RaiseFlag, Dropping
  <2>2. QED
    BY <1>3, <1>7, <2>1 DEF RaiseFlag
<1>8. ASSUME NEW p \in Producers, NotifyConsumer(p) PROVE DropsAccounted'
  <2>1. Dropping' = Dropping
    BY <1>1, <1>8 DEF NotifyConsumer, Dropping
  <2>2. QED
    BY <1>3, <1>8, <2>1 DEF NotifyConsumer
<1>9. CASE WakeConsumer
  BY <1>3, <1>9 DEF WakeConsumer, Dropping
<1>9a. CASE WakeSkipped
  BY <1>3, <1>9a DEF WakeSkipped, Dropping
<1>10. CASE Tick
  BY <1>3, <1>10 DEF Tick, Dropping
<1>11. CASE TakeDropped
  <2>1. Dropping' = Dropping /\ refusals' = refusals
    BY <1>11 DEF TakeDropped, Dropping
  <2>2. dropped' = 0 /\ reported' = reported + dropped
    BY <1>11 DEF TakeDropped
  <2>3. QED
    BY <1>1, <1>2, <2>1, <2>2
<1>12. CASE Drain
  BY <1>3, <1>12 DEF Drain, Dropping
<1>13. CASE UNCHANGED vars
  BY <1>3, <1>13 DEF vars, Dropping
<1>14. QED
  BY <1>4, <1>5, <1>6, <1>7, <1>8, <1>9, <1>9a, <1>10, <1>11, <1>12, <1>13
  DEF Next, ProducerStep, ConsumerStep

\* Every refused message is in exactly one of dropped_, the counts handed to the
\* consumer, and the hands of a producer about to add it.
THEOREM DropsNeverLost == SafeSpec => []DropsAccounted
  BY InitDropsAccounted, NextDropsAccounted, RingIsInvariant, PTL DEF SafeSpec

-----------------------------------------------------------------------------
(* MPSCQueue implements BoundedFifo.                                       *)

\* An empty ring is an empty queue.
LEMMA InitRefines == Init => Fifo!Init
<1> SUFFICES ASSUME Init PROVE Fifo!Init
  OBVIOUS
<1>1. Contents = <<>>
  BY DEF Init, Contents
<1>2. QED
  BY <1>1, FS_EmptySet DEF Init, Fifo!Init

\* What the ring holds, oldest first, is a sequence of items.
LEMMA ContentsIsSeq ==
    ASSUME TypeOK, RingInv
    PROVE  Contents \in Seq(Items) /\ Len(Contents) = count
  BY ContentsIsQueueOf, QueueOfIsSeq, CapPositive DEF TypeOK

\* Every step of the ring is a step of the bounded queue, or none.
LEMMA NextRefines ==
    TypeOK /\ RingInv /\ [Next]_vars => [Fifo!Next]_(Fifo!vars)
<1> SUFFICES ASSUME TypeOK, RingInv, [Next]_vars
             PROVE  Fifo!Next \/ UNCHANGED Fifo!vars
  BY DEF Fifo!vars
<1>0. /\ Contents \in Seq(Items) /\ Len(Contents) = count /\ count \in 0 .. cap
      /\ cap \in Nat
  BY ContentsIsSeq, CapPositive DEF TypeOK
<1> HIDE DEF cap
<1>1. UNCHANGED <<slots, head, count, out, refusals>> => UNCHANGED Fifo!vars
  BY DEF Fifo!vars, Contents, cap
<1>2. ASSUME NEW p \in Producers, NEW v \in Items, PushStore(p, v)
      PROVE  Fifo!Next
  <2>1. Contents' = Append(Contents, v)
    BY <1>2, PushStoreRing
  <2>2. Len(Contents) < cap
    BY <1>0, <1>2 DEF PushStore
  <2>3. Fifo!Accept(v)
    BY <1>2, <2>1, <2>2 DEF PushStore, Fifo!Accept
  <2>4. QED
    BY <2>3 DEF Fifo!Next
<1>3. ASSUME NEW p \in Producers, NEW v \in Items, PushFull(p, v)
      PROVE  Fifo!Next
  <2>1. Contents' = Contents /\ Cardinality(refusals') = Cardinality(refusals) + 1
    BY <1>3, PushFullRing
  <2>2. Fifo!Refuse
    BY <1>0, <1>3, <2>1 DEF PushFull, Fifo!Refuse
  <2>3. QED
    BY <2>2 DEF Fifo!Next
<1>4. ASSUME NEW p \in Producers, CountDrop(p) PROVE UNCHANGED Fifo!vars
  BY <1>1, <1>4 DEF CountDrop
<1>5. ASSUME NEW p \in Producers, RaiseFlag(p) PROVE UNCHANGED Fifo!vars
  BY <1>1, <1>5 DEF RaiseFlag
<1>6. ASSUME NEW p \in Producers, NotifyConsumer(p) PROVE UNCHANGED Fifo!vars
  BY <1>1, <1>6 DEF NotifyConsumer
<1>7. CASE WakeConsumer
  BY <1>1, <1>7 DEF WakeConsumer
<1>7a. CASE WakeSkipped
  BY <1>1, <1>7a DEF WakeSkipped
<1>8. CASE Tick
  BY <1>1, <1>8 DEF Tick
<1>9. CASE TakeDropped
  BY <1>1, <1>9 DEF TakeDropped
<1>10. CASE Drain
  <2>1. /\ Contents' = SubSeq(Contents, Taken + 1, count)
        /\ out' = out \o SubSeq(Contents, 1, Taken)
        /\ refusals' = refusals
    BY <1>10, DrainRing DEF Drain
  <2>2. CASE Taken = 0
    <3>1. count = 0
      BY <2>2, TakenBounds
    <3>2. Contents = <<>>
      BY <1>0, <3>1, EmptySeq
    <3>3. SubSeq(Contents, 1, Taken) = <<>> /\ Contents' = <<>>
      BY <2>1, <2>2, <3>1, SubSeqEmpty
    <3>4. out' = out
      BY <2>1, <3>3, ConcatEmptySeq DEF TypeOK
    <3>5. QED
      BY <2>1, <3>2, <3>3, <3>4 DEF Fifo!vars
  <2>3. CASE Taken # 0
    <3>1. Taken \in 1 .. Len(Contents)
      BY <1>0, <2>3, TakenBounds
    <3>2. Fifo!Take(Taken)
      BY <1>0, <2>1 DEF Fifo!Take
    <3>3. QED
      BY <3>1, <3>2 DEF Fifo!Next
  <2>4. QED
    BY <2>2, <2>3
<1>11. CASE UNCHANGED vars
  BY <1>1, <1>11 DEF vars
<1>12. QED
  BY <1>2, <1>3, <1>4, <1>5, <1>6, <1>7, <1>7a, <1>8, <1>9, <1>10, <1>11
  DEF Next, ProducerStep, ConsumerStep

\* The ring of slots is a bounded first-in first-out queue that refuses only the
\* newest item and only when full, for every capacity and number of producers.
THEOREM RefinesBoundedFifo == SafeSpec => ImplementsBoundedFifo
  BY InitRefines, NextRefines, RingIsInvariant, PTL
  DEF SafeSpec, ImplementsBoundedFifo, Fifo!Spec

=============================================================================
