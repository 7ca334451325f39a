---------------------------- MODULE LogFileProofs ----------------------------
(***************************************************************************)
(* What a LogFile does to the files that are there, for every roll_size_,  *)
(* every prefix and payload, and any number of days, lines, kills and      *)
(* restarts: types, what a kill costs, how long a file gets, and that the  *)
(* files in the order of their names are what was written.                 *)
(***************************************************************************)
EXTENDS LogFile, SequenceTheorems, FiniteSetTheorems, WellFoundedInduction, TLAPS

\* The files and stdio's buffer hold parts, the open file exists, a line in hand has
\* parts left, and stdio holds no more than what was written since the timer flushed.
FileInv ==
    /\ \A f \in DOMAIN disk : disk[f] \in PartSeq
    /\ fp \in BOOLEAN
    /\ fp => current \in DOMAIN disk
    /\ buf \in PartSeq /\ todo \in PartSeq
    /\ pc \in {"roll", "write"} => todo # <<>>
    /\ lines \in Nat /\ recent \in Nat
    /\ Len(buf) <= recent

\* The files as a step leaves them: typed, and each one continued.
Kept ==
    /\ \A f \in DOMAIN disk : f \in DOMAIN disk' /\ IsPrefix(disk[f], disk'[f])
    /\ \A f \in DOMAIN disk' : disk'[f] \in PartSeq

Parts == [line : Nat, what : {"prefix", "payload", "newline"}, len : Nat]

\* The rest of the types; written_bytes_ is the size of the open file; without a file
\* stdio holds nothing; a process that is down has no date; and no part in hand is
\* longer than the longest there is.
SizeInv ==
    /\ IsFiniteSet(DOMAIN disk) /\ DOMAIN disk \subseteq Files
    /\ written_bytes \in Nat
    /\ current_date \in {NoDate} \cup (1 .. Days) /\ current_seq \in Nat
    /\ pc \in {"idle", "roll", "write", "down"}
    /\ today \in 1 .. Days /\ log \in PartSeq /\ wentback \in BOOLEAN
    /\ fp => current_date # NoDate /\ written_bytes = Bytes(disk[current] \o buf)
    /\ ~fp => buf = <<>>
    /\ pc = "down" => current_date = NoDate
    /\ \A i \in DOMAIN todo : todo[i].len <= Longest

\* What the order of the files depends on.
Orderly == ~wentback /\ NumbersInReach

\* x comes after all other files of the set D.
EndsAt(D, x) == \A f \in D : f = x \/ Before(f, x)

\* No file is of a later day than the clock's or, once a file was opened, than its; the
\* open file is the last of all, so that what is written comes last in the story; and
\* no file is full by more than a part, the open one not at all before a write.
OrderInv ==
    Orderly =>
        /\ \A f \in DOMAIN disk : f[1] <= today
        /\ current_date # NoDate =>
              current_date <= today /\ \A f \in DOMAIN disk : f[1] <= current_date
        /\ fp => EndsAt(DOMAIN disk, current)
        /\ Story(disk) \o buf = log
        /\ \A f \in DOMAIN disk : Bytes(disk[f]) < roll_size + Longest
        /\ fp => written_bytes < roll_size + Longest
        /\ pc = "write" /\ fp => written_bytes < roll_size

-----------------------------------------------------------------------------
LEMMA PrefixOfSelf ==
  ASSUME NEW S, NEW s \in Seq(S)
  PROVE  IsPrefix(s, s)
BY DEF IsPrefix

LEMMA PrefixOfConcat ==
  ASSUME NEW S, NEW s \in Seq(S), NEW t \in Seq(S)
  PROVE  s \o t \in Seq(S) /\ IsPrefix(s, s \o t)
<1>1. s \o t \in Seq(S) /\ Len(s \o t) = Len(s) + Len(t)
  BY ConcatProperties
<1>2. SubSeq(s, 1, Len(s)) = SubSeq(s \o t, 1, Len(s))
  <2>1. Len(s) \in Nat /\ Len(t) \in Nat
    OBVIOUS
  <2>2. \A i \in 1 .. Len(s) : (s \o t)[i] = s[i]
    BY <2>1, ConcatProperties
  <2> QED
    BY <1>1, <2>1, <2>2
<1> QED
  BY <1>1, <1>2 DEF IsPrefix

LEMMA TailOf ==
  ASSUME NEW S, NEW s \in Seq(S), s # <<>>
  PROVE  s[1] \in S /\ Tail(s) \in Seq(S) /\ (Len(s) # 1 => Tail(s) # <<>>)
<1>1. Len(s) \in Nat /\ Len(s) # 0
  BY EmptySeq
<1>2. Tail(s) \in Seq(S) /\ Len(Tail(s)) = Len(s) - 1
  BY HeadTailProperties
<1> QED
  BY <1>1, <1>2, ElementOfSeq, EmptySeq

LEMMA PartsOf ==
  ASSUME NEW S, NEW s \in Seq(S), NEW k \in 1 .. Len(s)
  PROVE  /\ SubSeq(s, 1, k) \in Seq(S)
         /\ SubSeq(s, k + 1, Len(s)) \in Seq(S)
         /\ Len(SubSeq(s, k + 1, Len(s))) <= Len(s)
<1>1. Len(s) \in Nat
  OBVIOUS
<1> QED
  BY <1>1, SubSeqProperties

\* Flushing continues the open file and no other.
LEMMA FlushedContinues ==
  ASSUME FileInv
  PROVE  /\ DOMAIN Flushed = DOMAIN disk
         /\ \A f \in DOMAIN disk : Flushed[f] \in PartSeq /\ IsPrefix(disk[f], Flushed[f])
<1>1. CASE ~fp
  BY <1>1, PrefixOfSelf DEF Flushed, FileInv, PartSeq
<1>2. CASE fp
  <2>1. Flushed = [disk EXCEPT ![current] = disk[current] \o buf]
    BY <1>2 DEF Flushed
  <2>2. current \in DOMAIN disk
    BY <1>2 DEF FileInv
  <2>3. ASSUME NEW f \in DOMAIN disk
        PROVE  Flushed[f] \in PartSeq /\ IsPrefix(disk[f], Flushed[f])
    <3>1. disk[f] \in PartSeq /\ buf \in PartSeq
      BY DEF FileInv
    <3>2. CASE f = current
      <4>1. Flushed[f] = disk[f] \o buf
        BY <2>1, <2>2, <3>2
      <4> QED
        BY <3>1, <4>1, PrefixOfConcat DEF PartSeq
    <3>3. CASE f # current
      <4>1. Flushed[f] = disk[f]
        BY <2>1, <3>3
      <4> QED
        BY <3>1, <4>1, PrefixOfSelf DEF PartSeq
    <3> QED
      BY <3>2, <3>3
  <2> QED
    BY <2>1, <2>3
<1> QED
  BY <1>1, <1>2

\* open_file: every file is continued, and the one that is opened exists.
LEMMA OpenKeeps ==
  ASSUME FileInv, NEW day, NEW seq, open_file(day, seq)
  PROVE  Kept /\ fp' \in BOOLEAN /\ buf' = <<>> /\ (fp' => current' \in DOMAIN disk')
<1>1. /\ DOMAIN Flushed = DOMAIN disk
      /\ \A f \in DOMAIN disk : Flushed[f] \in PartSeq /\ IsPrefix(disk[f], Flushed[f])
  BY FlushedContinues
<1>2. current' = <<day, seq>> /\ buf' = <<>>
  BY DEF open_file, current
<1>3. CASE fp' = FALSE /\ disk' = Flushed
  BY <1>1, <1>2, <1>3 DEF Kept
<1>4. CASE /\ fp' = TRUE
           /\ disk' = [f \in DOMAIN Flushed \cup {<<day, seq>>} |->
                          IF f \in DOMAIN Flushed THEN Flushed[f] ELSE <<>>]
  <2>1. <<>> \in PartSeq
    BY DEF PartSeq
  <2> QED
    BY <1>1, <1>2, <1>4, <2>1 DEF Kept
<1> QED
  BY <1>3, <1>4 DEF open_file

\* A file that is not touched is continued.
LEMMA SameKeeps ==
  ASSUME FileInv, disk' = disk
  PROVE  Kept
BY PrefixOfSelf DEF Kept, FileInv, PartSeq

LEMMA RollKeeps ==
  ASSUME FileInv, roll_if_needed
  PROVE  /\ Kept /\ fp' \in BOOLEAN /\ (fp' => current' \in DOMAIN disk')
         /\ buf' \in PartSeq /\ Len(buf') <= recent
<1> DEFINE Good == /\ Kept /\ fp' \in BOOLEAN /\ (fp' => current' \in DOMAIN disk')
                   /\ buf' \in PartSeq /\ Len(buf') <= recent
<1>1. ASSUME NEW day, NEW seq, open_file(day, seq) PROVE Good
  <2>1. buf' = <<>> /\ recent \in Nat
    BY <1>1, OpenKeeps DEF FileInv
  <2>2. buf' \in PartSeq /\ Len(buf') <= recent
    BY <2>1 DEF PartSeq
  <2> QED
    BY <1>1, <2>2, OpenKeeps
<1>2. ASSUME UNCHANGED fileVars PROVE Good
  <2>1. disk' = disk /\ fp' = fp /\ buf' = buf /\ current' = current
    BY <1>2 DEF fileVars, current
  <2> QED
    BY <2>1, SameKeeps DEF FileInv
<1> HIDE DEF Good
<1>3. \/ UNCHANGED fileVars
      \/ \E day, seq : open_file(day, seq)
  <2>1. CASE NewDay /\ open_file(today, 1)
    BY <2>1
  <2>2. CASE open_file(current_date, current_seq + 1)
    BY <2>2
  <2>3. CASE open_file(today, FirstSeq)
    BY <2>3
  <2> QED
    BY <2>1, <2>2, <2>3 DEF roll_if_needed
<1>4. Good
  <2>1. CASE UNCHANGED fileVars
    BY <1>2, <2>1
  <2>2. CASE \E day, seq : open_file(day, seq)
    <3>1. PICK day, seq : open_file(day, seq)
      BY <2>2
    <3> QED
      BY <1>1, <3>1
  <2> QED
    BY <1>3, <2>1, <2>2
<1> QED
  BY <1>4 DEF Good

-----------------------------------------------------------------------------
LEMMA InitFileInv == Init => FileInv
<1> SUFFICES ASSUME Init PROVE FileInv
  OBVIOUS
<1>1. /\ DOMAIN disk = {} /\ fp = FALSE /\ buf = <<>> /\ todo = <<>> /\ pc = "down"
      /\ lines = 0 /\ recent = 0
  BY DEF Init
<1>2. <<>> \in PartSeq /\ Len(<<>>) = 0
  BY EmptySeq DEF PartSeq
<1>3. buf \in PartSeq /\ todo \in PartSeq /\ Len(buf) <= recent
  BY <1>1, <1>2
<1>4. /\ lines \in Nat /\ recent \in Nat /\ fp \in BOOLEAN
      /\ ~fp /\ pc \notin {"roll", "write"}
  BY <1>1
<1>5. \A f \in DOMAIN disk : disk[f] \in PartSeq
  BY <1>1
<1> QED
  BY <1>3, <1>4, <1>5 DEF FileInv

LEMMA NextKeeps ==
  ASSUME FileInv, Next
  PROVE  FileInv' /\ Kept
<1> USE SizesArePositive
<1>1. CASE LogFileCtor
  <2>1. roll_if_needed /\ pc' = "idle" /\ UNCHANGED <<todo, lines, recent>>
    BY <1>1 DEF LogFileCtor, historyVars
  <2> QED
    BY <2>1, RollKeeps DEF FileInv, Kept
<1>2. ASSUME NEW len \in PayloadLens, append_line(len) PROVE FileInv' /\ Kept
  <2>1. /\ lines' = lines + 1 /\ pc' = "roll" /\ disk' = disk /\ fp' = fp /\ buf' = buf
        /\ current' = current /\ recent' = recent
        /\ todo' = <<Part(lines', "prefix", PrefixLen), Part(lines', "payload", len),
                     Part(lines', "newline", 1)>>
    BY <1>2 DEF append_line, fileVars, current
  <2>2. len \in Nat /\ PrefixLen \in Nat /\ lines' \in Nat
    BY <2>1 DEF FileInv
  <2>3. todo' \in PartSeq /\ todo' # <<>>
    BY <2>1, <2>2 DEF PartSeq, Part
  <2> QED
    BY <2>1, <2>2, <2>3, SameKeeps DEF FileInv
<1>3. CASE AppendRolls
  <2>1. /\ roll_if_needed /\ pc = "roll" /\ pc' = "write"
        /\ UNCHANGED <<todo, lines, recent>>
    BY <1>3 DEF AppendRolls, historyVars
  <2> QED
    BY <2>1, RollKeeps DEF FileInv, Kept
<1>4. CASE AppendWrites
  <2>1. /\ disk' = disk /\ fp' = fp /\ current' = current /\ lines' = lines
        /\ todo' = Tail(todo) /\ pc' = IF Len(todo) = 1 THEN "idle" ELSE "roll"
    BY <1>4 DEF AppendWrites, current
  <2>2. todo \in PartSeq /\ todo # <<>>
    BY <1>4 DEF AppendWrites, FileInv
  <2>3. todo' \in PartSeq /\ (pc' \in {"roll", "write"} => todo' # <<>>)
    BY <2>1, <2>2, TailOf DEF PartSeq
  <2>4. todo[1] \in [line : Nat, what : {"prefix", "payload", "newline"}, len : Nat]
    BY <2>2, TailOf DEF PartSeq
  <2>5. buf' \in PartSeq /\ recent' \in Nat /\ Len(buf') <= recent'
    <3>1. CASE buf' = Append(buf, todo[1]) /\ recent' = recent + 1
      BY <2>4, <3>1 DEF FileInv, PartSeq
    <3>2. CASE buf' = buf /\ recent' = recent
      BY <3>2 DEF FileInv
    <3> QED
      BY <1>4, <3>1, <3>2 DEF AppendWrites
  <2> QED
    BY <2>1, <2>3, <2>5, SameKeeps DEF FileInv
<1>5. CASE StdioWrites
  <2>1. PICK k \in 1 .. Len(buf) :
          /\ disk' = [disk EXCEPT ![current] = disk[current] \o SubSeq(buf, 1, k)]
          /\ buf' = SubSeq(buf, k + 1, Len(buf))
    BY <1>5 DEF StdioWrites
  <2>2. /\ fp /\ fp' = fp /\ current' = current /\ current \in DOMAIN disk
        /\ UNCHANGED <<pc, todo, lines, recent>>
    BY <1>5 DEF StdioWrites, FileInv, current, historyVars
  <2>3. /\ SubSeq(buf, 1, k) \in PartSeq
        /\ buf' \in PartSeq /\ Len(buf') <= Len(buf)
    BY <2>1, PartsOf DEF FileInv, PartSeq
  <2>4. ASSUME NEW f \in DOMAIN disk
        PROVE  disk'[f] \in PartSeq /\ IsPrefix(disk[f], disk'[f])
    <3>1. disk[f] \in PartSeq
      BY DEF FileInv
    <3>2. CASE f = current
      <4>1. disk'[f] = disk[f] \o SubSeq(buf, 1, k)
        BY <2>1, <2>2, <3>2
      <4> QED
        BY <2>3, <3>1, <4>1, PrefixOfConcat DEF PartSeq
    <3>3. CASE f # current
      <4>1. disk'[f] = disk[f]
        BY <2>1, <3>3
      <4> QED
        BY <3>1, <4>1, PrefixOfSelf DEF PartSeq
    <3> QED
      BY <3>2, <3>3
  <2>5. DOMAIN disk' = DOMAIN disk
    BY <2>1
  <2>6. Len(buf') <= recent
    BY <2>3 DEF FileInv, PartSeq
  <2> QED
    BY <2>2, <2>3, <2>4, <2>5, <2>6 DEF FileInv, Kept
<1>6. CASE flush
  <2>1. /\ disk' = Flushed /\ buf' = <<>> /\ recent' = 0
        /\ fp' = fp /\ current' = current /\ UNCHANGED <<pc, todo, lines>>
    BY <1>6 DEF flush, current
  <2>2. buf' \in PartSeq /\ Len(buf') <= recent'
    BY <2>1 DEF PartSeq
  <2> QED
    BY <2>1, <2>2, FlushedContinues DEF FileInv, Kept
<1>7. ASSUME Gone, disk' = disk \/ disk' = Flushed PROVE FileInv' /\ Kept
  <2>1. /\ pc' = "down" /\ fp' = FALSE /\ buf' = <<>> /\ todo' = <<>> /\ recent' = 0
        /\ lines' = lines
    BY <1>7 DEF Gone
  <2>2. Kept
    BY <1>7, SameKeeps, FlushedContinues DEF Kept
  <2>3. <<>> \in PartSeq /\ Len(<<>>) = 0
    BY EmptySeq DEF PartSeq
  <2>4. buf' \in PartSeq /\ todo' \in PartSeq /\ Len(buf') <= recent'
    BY <2>1, <2>3
  <2>5. lines' \in Nat /\ recent' \in Nat /\ fp' \in BOOLEAN
    BY <2>1 DEF FileInv
  <2>6. ~fp' /\ pc' \notin {"roll", "write"}
    BY <2>1
  <2>7. \A f \in DOMAIN disk' : disk'[f] \in PartSeq
    BY <2>2 DEF Kept
  <2> QED
    BY <2>2, <2>4, <2>5, <2>6, <2>7 DEF FileInv
<1>8. ASSUME NEW d, NextDay(d) PROVE FileInv' /\ Kept
  <2>1. /\ disk' = disk /\ fp' = fp /\ buf' = buf /\ current' = current
        /\ UNCHANGED <<pc, todo, lines, recent>>
    BY <1>8 DEF NextDay, fileVars, current
  <2> QED
    BY <2>1, SameKeeps DEF FileInv
<1> QED
  BY <1>1, <1>2, <1>3, <1>4, <1>5, <1>6, <1>7, <1>8 DEF Next, LogFileDtor, Killed

LEMMA StutterKeeps ==
  ASSUME FileInv, UNCHANGED vars
  PROVE  FileInv' /\ Kept
<1>1. /\ disk' = disk /\ fp' = fp /\ buf' = buf /\ current' = current
      /\ UNCHANGED <<pc, todo, lines, recent>>
  BY DEF vars, fileVars, current
<1> QED
  BY <1>1, SameKeeps DEF FileInv

-----------------------------------------------------------------------------
(* Induction, for sets of numbers.                                         *)

LEMMA LeastNumber ==
  ASSUME NEW T \in SUBSET Nat, T # {}
  PROVE  \E m \in T : \A k \in T : m <= k
<1> DEFINE R == OpToRel(<, Nat)
<1>1. IsWellFoundedOn(R, Nat)
  BY NatLessThanWellFounded
<1>2. \A i, j \in Nat : <<i, j>> \in R <=> i < j
  BY DEF OpToRel
<1> HIDE DEF R
<1>3. PICK m \in T : \A k \in T : <<k, m>> \notin R
  BY <1>1, WFMin
<1>4. \A k \in T : k \in Nat /\ m \in Nat /\ ~(k < m)
  BY <1>2, <1>3
<1> QED
  BY <1>4

LEMMA Induction ==
  ASSUME NEW T, 0 \in T, \A n \in Nat : n \in T => n + 1 \in T
  PROVE  Nat \subseteq T
<1> DEFINE U == {n \in Nat : n \notin T}
<1>1. CASE U # {}
  <2>1. PICK m \in U : \A k \in U : m <= k
    <3>1. U \in SUBSET Nat
      OBVIOUS
    <3> QED
      BY <1>1, <3>1, LeastNumber
  <2>2. m - 1 \in Nat /\ m - 1 \notin U
    BY <2>1
  <2> QED
    BY <2>2
<1> QED
  BY <1>1

-----------------------------------------------------------------------------
(* The length of parts.                                                    *)

\* What FoldLeft's recursive function gives for a set of positions.
Added(s, g, t) == IF t = {} THEN 0 ELSE g[t \ {Max(t)}] + s[Max(t)].len
Adds(s, D, g) == g = [t \in SUBSET D |-> Added(s, g, t)]

\* The length of the first k parts.
Upto(s, k) == (CHOOSE g : Adds(s, DOMAIN s, g))[1 .. k]

LEMMA MaxOfInterval ==
  ASSUME NEW k \in Nat, NEW t \in SUBSET (1 .. k + 1), k + 1 \in t
  PROVE  Max(t) = k + 1
<1>1. \A y \in t : k + 1 >= y
  OBVIOUS
<1>2. \A x \in t : (\A y \in t : x >= y) => x = k + 1
  OBVIOUS
<1> QED
  BY <1>1, <1>2 DEF Max

LEMMA AddsExists ==
  ASSUME NEW s, NEW n \in Nat
  PROVE  \E g : Adds(s, 1 .. n, g)
<1> DEFINE K == {k \in Nat : \E g : Adds(s, 1 .. k, g)}
<1>1. 0 \in K
  <2> DEFINE h == [t \in SUBSET (1 .. 0) |-> 0]
  <2>1. 1 .. 0 = {}
    OBVIOUS
  <2>2. h = [t \in SUBSET (1 .. 0) |-> Added(s, h, t)]
    BY <2>1 DEF Added
  <2> QED
    BY <2>2 DEF Adds
<1>2. ASSUME NEW k \in Nat, k \in K PROVE k + 1 \in K
  <2>1. PICK g : Adds(s, 1 .. k, g)
    BY <1>2
  <2> DEFINE h == [t \in SUBSET (1 .. k + 1) |->
                      IF k + 1 \in t THEN g[t \ {k + 1}] + s[k + 1].len ELSE g[t]]
  <2>2. ASSUME NEW t \in SUBSET (1 .. k + 1) PROVE h[t] = Added(s, h, t)
    <3>1. CASE k + 1 \in t
      <4>1. Max(t) = k + 1 /\ t # {}
        BY <3>1, MaxOfInterval
      <4>2. t \ {k + 1} \in SUBSET (1 .. k + 1) /\ k + 1 \notin t \ {k + 1}
        OBVIOUS
      <4>3. h[t \ {k + 1}] = g[t \ {k + 1}]
        BY <4>2
      <4> QED
        BY <3>1, <4>1, <4>3 DEF Added
    <3>2. CASE k + 1 \notin t
      <4>1. t \in SUBSET (1 .. k)
        <5>1. \A i \in t : i \in 1 .. k
          BY <3>2
        <5> QED
          BY <5>1
      <4>2. t \ {Max(t)} \in SUBSET (1 .. k + 1) /\ k + 1 \notin t \ {Max(t)}
        BY <3>2
      <4>3. h[t] = g[t] /\ h[t \ {Max(t)}] = g[t \ {Max(t)}]
        BY <3>2, <4>2
      <4>4. g[t] = Added(s, g, t)
        BY <2>1, <4>1 DEF Adds
      <4> QED
        BY <4>3, <4>4 DEF Added
    <3> QED
      BY <3>1, <3>2
  <2> HIDE DEF h
  <2>3. h = [t \in SUBSET (1 .. k + 1) |-> h[t]]
    BY DEF h
  <2>4. Adds(s, 1 .. k + 1, h)
    BY <2>2, <2>3 DEF Adds
  <2> QED
    BY <2>4
<1> HIDE DEF K
<1>3. n \in K
  BY <1>1, <1>2, Induction
<1> QED
  BY <1>3 DEF K

LEMMA UptoIs ==
  ASSUME NEW S, NEW s \in Seq(S)
  PROVE  /\ Bytes(s) = Upto(s, Len(s))
         /\ Upto(s, 0) = 0
         /\ \A k \in 0 .. Len(s) - 1 : Upto(s, k + 1) = Upto(s, k) + s[k + 1].len
<1> DEFINE g == CHOOSE h : Adds(s, DOMAIN s, h)
<1>1. DOMAIN s = 1 .. Len(s) /\ Len(s) \in Nat
  OBVIOUS
<1>2. Adds(s, DOMAIN s, g)
  BY <1>1, AddsExists
<1>3. Bytes(s) = g[DOMAIN s]
  BY DEF Bytes, FoldLeft, MapThenFoldSet, Adds, Added
<1> HIDE DEF g
<1>4. g[1 .. 0] = 0
  <2>1. 1 .. 0 = {} /\ {} \in SUBSET (DOMAIN s)
    OBVIOUS
  <2> QED
    BY <1>2, <2>1 DEF Adds, Added
<1>5. ASSUME NEW k \in 0 .. Len(s) - 1
      PROVE  g[1 .. k + 1] = g[1 .. k] + s[k + 1].len
  <2>1. 1 .. k + 1 \in SUBSET (DOMAIN s) /\ 1 .. k + 1 # {} /\ k \in Nat
    <3>1. k \in Nat /\ k + 1 \in 1 .. k + 1 /\ k + 1 <= Len(s)
      BY <1>1
    <3>2. \A i \in 1 .. k + 1 : i \in 1 .. Len(s)
      BY <1>1, <3>1
    <3> QED
      BY <1>1, <3>1, <3>2
  <2>2. Max(1 .. k + 1) = k + 1
    BY <2>1, MaxOfInterval
  <2>3. (1 .. k + 1) \ {k + 1} = 1 .. k
    BY <2>1
  <2>4. g[1 .. k + 1] = Added(s, g, 1 .. k + 1)
    BY <1>2, <2>1 DEF Adds
  <2> QED
    BY <2>1, <2>2, <2>3, <2>4 DEF Added
<1> QED
  BY <1>1, <1>3, <1>4, <1>5 DEF Upto, g

LEMMA PartAt ==
  ASSUME NEW s \in PartSeq
  PROVE  Len(s) \in Nat /\ \A i \in 1 .. Len(s) : s[i] \in Parts /\ s[i].len \in Nat
<1>1. s \in Seq(Parts)
  BY DEF PartSeq, Parts
<1>2. Len(s) \in Nat /\ \A i \in 1 .. Len(s) : s[i] \in Parts
  BY <1>1
<1> QED
  BY <1>2 DEF Parts

LEMMA UptoType ==
  ASSUME NEW s \in PartSeq, NEW k \in 0 .. Len(s)
  PROVE  Upto(s, k) \in Nat
<1> DEFINE K == {i \in Nat : i <= Len(s) => Upto(s, i) \in Nat}
<1>1. s \in Seq(Parts) /\ Len(s) \in Nat
  BY DEF PartSeq, Parts
<1>2. 0 \in K
  BY <1>1, UptoIs
<1>3. ASSUME NEW i \in Nat, i \in K PROVE i + 1 \in K
  <2> SUFFICES ASSUME i + 1 <= Len(s) PROVE Upto(s, i + 1) \in Nat
    OBVIOUS
  <2>1. i \in 0 .. Len(s) - 1 /\ i <= Len(s) /\ s[i + 1].len \in Nat
    <3>1. i \in 0 .. Len(s) - 1 /\ i <= Len(s) /\ i + 1 \in 1 .. Len(s)
      BY <1>1
    <3> QED
      BY <3>1, PartAt
  <2>2. Upto(s, i + 1) = Upto(s, i) + s[i + 1].len
    BY <1>1, <2>1, UptoIs
  <2>3. Upto(s, i) \in Nat
    BY <1>3, <2>1
  <2> QED
    BY <2>1, <2>2, <2>3
<1> HIDE DEF K
<1>4. Nat \subseteq K
  BY <1>2, <1>3, Induction
<1> QED
  BY <1>1, <1>4 DEF K

LEMMA BytesType ==
  ASSUME NEW s \in PartSeq
  PROVE  Bytes(s) \in Nat
<1>1. Len(s) \in 0 .. Len(s)
  BY DEF PartSeq
<1> QED
  BY <1>1, UptoType, UptoIs DEF PartSeq

LEMMA BytesConcat ==
  ASSUME NEW s \in PartSeq, NEW t \in PartSeq
  PROVE  s \o t \in PartSeq /\ Bytes(s \o t) = Bytes(s) + Bytes(t)
<1> DEFINE c == s \o t
           m == Len(s)
           n == Len(t)
<1>1. /\ c \in PartSeq /\ Len(c) = m + n /\ m \in Nat /\ n \in Nat
      /\ \A i \in 1 .. m : c[i] = s[i]
      /\ \A i \in 1 .. n : c[m + i] = t[i]
  <2>1. c \in PartSeq /\ Len(c) = m + n /\ m \in Nat /\ n \in Nat
    BY ConcatProperties DEF PartSeq
  <2>2. \A i \in 1 .. m + n : c[i] = IF i <= m THEN s[i] ELSE t[i - m]
    BY ConcatProperties DEF PartSeq
  <2>3. ASSUME NEW i \in 1 .. n PROVE c[m + i] = t[i]
    <3>1. m + i \in 1 .. m + n /\ ~(m + i <= m) /\ (m + i) - m = i
      BY <2>1
    <3> QED
      BY <2>2, <3>1
  <2> QED
    BY <2>1, <2>2, <2>3
<1> HIDE DEF c
<1>2. \A k \in Nat : k <= m => Upto(c, k) = Upto(s, k)
  <2> DEFINE K == {k \in Nat : k <= m => Upto(c, k) = Upto(s, k)}
  <2>1. 0 \in K
    BY <1>1, UptoIs DEF PartSeq
  <2>2. ASSUME NEW k \in Nat, k \in K PROVE k + 1 \in K
    <3> SUFFICES ASSUME k + 1 <= m PROVE Upto(c, k + 1) = Upto(s, k + 1)
      OBVIOUS
    <3>1. k \in 0 .. m - 1 /\ k \in 0 .. Len(c) - 1 /\ k + 1 \in 1 .. m /\ k <= m
      BY <1>1
    <3>2. c[k + 1] = s[k + 1]
      BY <1>1, <3>1
    <3>3. /\ Upto(c, k + 1) = Upto(c, k) + c[k + 1].len
          /\ Upto(s, k + 1) = Upto(s, k) + s[k + 1].len
      BY <1>1, <3>1, UptoIs DEF PartSeq
    <3>4. Upto(c, k) = Upto(s, k)
      BY <2>2, <3>1
    <3> QED
      BY <3>2, <3>3, <3>4
  <2> HIDE DEF K
  <2>3. Nat \subseteq K
    BY <2>1, <2>2, Induction
  <2> QED
    BY <2>3 DEF K
<1>3. \A k \in Nat : k <= n => Upto(c, m + k) = Upto(c, m) + Upto(t, k)
  <2> DEFINE K == {k \in Nat : k <= n => Upto(c, m + k) = Upto(c, m) + Upto(t, k)}
  <2>1. 0 \in K
    <3>1. Upto(c, m) \in Nat /\ m + 0 = m
      BY <1>1, UptoType
    <3>2. Upto(t, 0) = 0
      BY UptoIs DEF PartSeq
    <3> QED
      BY <3>1, <3>2
  <2>2. ASSUME NEW k \in Nat, k \in K PROVE k + 1 \in K
    <3> SUFFICES ASSUME k + 1 <= n
                 PROVE  Upto(c, m + (k + 1)) = Upto(c, m) + Upto(t, k + 1)
      OBVIOUS
    <3>1. /\ k \in 0 .. n - 1 /\ m + k \in 0 .. Len(c) - 1 /\ k + 1 \in 1 .. n /\ k <= n
          /\ m + (k + 1) = (m + k) + 1
      BY <1>1
    <3>2. c[(m + k) + 1] = t[k + 1]
      BY <1>1, <3>1
    <3>3. /\ Upto(c, (m + k) + 1) = Upto(c, m + k) + c[(m + k) + 1].len
          /\ Upto(t, k + 1) = Upto(t, k) + t[k + 1].len
      BY <1>1, <3>1, UptoIs DEF PartSeq
    <3>4. Upto(c, m + k) = Upto(c, m) + Upto(t, k)
      BY <2>2, <3>1
    <3>5. Upto(c, m) \in Nat /\ Upto(t, k) \in Nat /\ t[k + 1].len \in Nat
      <4>1. m \in 0 .. Len(c) /\ k \in 0 .. Len(t)
        BY <1>1, <3>1
      <4>2. t[k + 1].len \in Nat
        BY <3>1, PartAt
      <4> QED
        BY <1>1, <4>1, <4>2, UptoType
    <3> QED
      BY <3>1, <3>2, <3>3, <3>4, <3>5
  <2> HIDE DEF K
  <2>3. Nat \subseteq K
    BY <2>1, <2>2, Induction
  <2> QED
    BY <2>3 DEF K
<1>4. /\ Bytes(c) = Upto(c, m + n) /\ Bytes(s) = Upto(s, m) /\ Bytes(t) = Upto(t, n)
  BY <1>1, UptoIs DEF PartSeq
<1>5. m <= m /\ n <= n
  BY <1>1
<1> QED
  BY <1>1, <1>2, <1>3, <1>4, <1>5 DEF c

LEMMA BytesAppend ==
  ASSUME NEW s \in PartSeq,
         NEW p \in Parts
  PROVE  Append(s, p) \in PartSeq /\ Bytes(Append(s, p)) = Bytes(s) + p.len
<1>1. Append(s, p) = s \o <<p>> /\ <<p>> \in PartSeq /\ Len(<<p>>) = 1
  BY AppendIsConcat DEF PartSeq, Parts
<1>2. Bytes(<<p>>) = p.len
  <2>1. /\ Bytes(<<p>>) = Upto(<<p>>, 1) /\ Upto(<<p>>, 0) = 0
        /\ Upto(<<p>>, 0 + 1) = Upto(<<p>>, 0) + <<p>>[0 + 1].len
    <3>1. 0 \in 0 .. Len(<<p>>) - 1
      BY <1>1
    <3> QED
      BY <1>1, <3>1, UptoIs DEF PartSeq
  <2>2. 0 + 1 = 1 /\ <<p>>[1] = p /\ p.len \in Nat
    BY DEF Parts
  <2> QED
    BY <2>1, <2>2
<1> QED
  BY <1>1, <1>2, BytesConcat

-----------------------------------------------------------------------------
(* Finite sets.                                                            *)

LEMMA FiniteInduction ==
  ASSUME NEW D, IsFiniteSet(D), NEW P,
         \A t \in SUBSET D : (\A u \in SUBSET t : u # t => u \in P) => t \in P
  PROVE  SUBSET D \subseteq P
<1> DEFINE K == {n \in Nat : \A t \in SUBSET D : Cardinality(t) < n => t \in P}
<1>1. \A t \in SUBSET D : IsFiniteSet(t) /\ Cardinality(t) \in Nat
  BY FS_Subset, FS_CardinalityType
<1>2. 0 \in K
  BY <1>1
<1>3. ASSUME NEW n \in Nat, n \in K PROVE n + 1 \in K
  <2> SUFFICES ASSUME NEW t \in SUBSET D, Cardinality(t) < n + 1 PROVE t \in P
    OBVIOUS
  <2>1. ASSUME NEW u \in SUBSET t, u # t PROVE u \in P
    <3>1. u \in SUBSET D /\ Cardinality(u) < Cardinality(t)
      <4>1. Cardinality(u) <= Cardinality(t) /\ Cardinality(u) # Cardinality(t)
        BY <1>1, <2>1, FS_Subset
      <4> QED
        BY <1>1, <4>1
    <3>2. Cardinality(u) < n
      BY <1>1, <3>1
    <3> QED
      BY <1>3, <3>1, <3>2
  <2> QED
    BY <2>1
<1> HIDE DEF K
<1>4. Nat \subseteq K
  BY <1>2, <1>3, Induction
<1>5. ASSUME NEW t \in SUBSET D PROVE t \in P
  <2>1. Cardinality(t) + 1 \in Nat /\ Cardinality(t) < Cardinality(t) + 1
    BY <1>1
  <2> QED
    BY <1>4, <2>1 DEF K
<1> QED
  BY <1>5

LEMMA MaxOfFinite ==
  ASSUME NEW D \in SUBSET Nat, IsFiniteSet(D), D # {}
  PROVE  Max(D) \in D /\ \A n \in D : n <= Max(D)
<1> DEFINE P == {t \in SUBSET D : t # {} => \E m \in t : \A n \in t : n <= m}
<1>1. ASSUME NEW t \in SUBSET D, \A u \in SUBSET t : u # t => u \in P PROVE t \in P
  <2> SUFFICES ASSUME t # {} PROVE \E m \in t : \A n \in t : n <= m
    OBVIOUS
  <2>1. PICK x \in t : TRUE
    OBVIOUS
  <2>2. x \in Nat /\ t \ {x} \in SUBSET t /\ t \ {x} # t
    OBVIOUS
  <2>3. t \ {x} \in P
    BY <1>1, <2>2
  <2>4. CASE t \ {x} = {}
    <3>1. \A n \in t : n <= x
      BY <2>2, <2>4
    <3> QED
      BY <3>1
  <2>5. CASE t \ {x} # {}
    <3>1. PICK m \in t \ {x} : \A n \in t \ {x} : n <= m
      BY <2>3, <2>5
    <3>2. CASE x <= m
      <4>1. \A n \in t : n <= m
        BY <3>1, <3>2
      <4> QED
        BY <4>1
    <3>3. CASE ~(x <= m)
      <4>1. \A n \in t : n <= x
        BY <2>2, <3>1, <3>3
      <4> QED
        BY <4>1
    <3> QED
      BY <3>2, <3>3
  <2> QED
    BY <2>4, <2>5
<1>2. \E m \in D : \A n \in D : n <= m
  <2> HIDE DEF P
  <2>1. SUBSET D \subseteq P
    BY <1>1, FiniteInduction
  <2> QED
    BY <2>1 DEF P
<1>3. \E m \in D : \A n \in D : m >= n
  BY <1>2
<1>4. Max(D) \in D /\ \A n \in D : Max(D) >= n
  BY <1>3 DEF Max
<1> QED
  BY <1>4

-----------------------------------------------------------------------------
(* The files in order.                                                     *)

LEMMA BeforeIsOrder ==
  ASSUME NEW f \in Files, NEW g \in Files, NEW h \in Files
  PROVE  /\ ~Before(f, f)
         /\ Before(f, g) \/ f = g \/ Before(g, f)
         /\ ~(Before(f, g) /\ Before(g, f))
         /\ Before(f, g) /\ Before(g, h) => Before(f, h)
<1>1. /\ f = <<f[1], f[2]>> /\ g = <<g[1], g[2]>> /\ h = <<h[1], h[2]>>
      /\ f[1] \in Int /\ f[2] \in Int /\ g[1] \in Int /\ g[2] \in Int
      /\ h[1] \in Int /\ h[2] \in Int
  BY BoundsAreNatural DEF Files
<1> QED
  BY <1>1 DEF Before

LEMMA LastIs ==
  ASSUME NEW t \in SUBSET Files, NEW f \in t, \A g \in t : g = f \/ Before(g, f)
  PROVE  LastOf(t) = f
<1>1. ASSUME NEW x \in t, \A g \in t : g = x \/ Before(g, x) PROVE x = f
  BY <1>1, BeforeIsOrder
<1> QED
  BY <1>1 DEF LastOf

LEMMA LastExists ==
  ASSUME NEW D \in SUBSET Files, IsFiniteSet(D), D # {}
  PROVE  LastOf(D) \in D /\ \A g \in D : g = LastOf(D) \/ Before(g, LastOf(D))
<1> DEFINE P == {t \in SUBSET D : t # {} => \E f \in t : \A g \in t : g = f \/ Before(g, f)}
<1>1. ASSUME NEW t \in SUBSET D, \A u \in SUBSET t : u # t => u \in P PROVE t \in P
  <2> SUFFICES ASSUME t # {} PROVE \E f \in t : \A g \in t : g = f \/ Before(g, f)
    OBVIOUS
  <2>1. PICK x \in t : TRUE
    OBVIOUS
  <2>2. x \in Files /\ t \ {x} \in SUBSET t /\ t \ {x} # t
    OBVIOUS
  <2>3. t \ {x} \in P
    BY <1>1, <2>2
  <2>4. CASE t \ {x} = {}
    <3>1. \A g \in t : g = x
      BY <2>4
    <3> QED
      BY <3>1
  <2>5. CASE t \ {x} # {}
    <3>1. PICK f \in t \ {x} : \A g \in t \ {x} : g = f \/ Before(g, f)
      BY <2>3, <2>5
    <3>2. f \in Files
      OBVIOUS
    <3>3. CASE Before(x, f)
      <4>1. \A g \in t : g = f \/ Before(g, f)
        BY <3>1, <3>3
      <4> QED
        BY <4>1
    <3>4. CASE Before(f, x)
      <4>1. \A g \in t : g = x \/ Before(g, x)
        <5>1. ASSUME NEW g \in t, g # x PROVE Before(g, x)
          <6>1. g \in Files /\ (g = f \/ Before(g, f))
            BY <3>1, <5>1
          <6> QED
            BY <2>2, <3>2, <3>4, <6>1, BeforeIsOrder
        <5> QED
          BY <5>1
      <4> QED
        BY <4>1
    <3> QED
      BY <2>2, <3>2, <3>3, <3>4, BeforeIsOrder
  <2> QED
    BY <2>4, <2>5
<1>2. \E f \in D : \A g \in D : g = f \/ Before(g, f)
  <2> HIDE DEF P
  <2>1. SUBSET D \subseteq P
    BY <1>1, FiniteInduction
  <2> QED
    BY <2>1 DEF P
<1> QED
  BY <1>2 DEF LastOf

\* What the fold's recursive function gives for a set of files.
Told(d, g, t) == IF t = {} THEN <<>> ELSE g[t \ {LastOf(t)}] \o d[LastOf(t)]
Tells(d, D, g) == g = [t \in SUBSET D |-> Told(d, g, t)]

LEMMA TellsExists ==
  ASSUME NEW d, NEW D \in SUBSET Files, IsFiniteSet(D)
  PROVE  \E g : Tells(d, D, g)
<1> DEFINE P == {t \in SUBSET D : \E g : Tells(d, t, g)}
<1>1. ASSUME NEW t \in SUBSET D, \A u \in SUBSET t : u # t => u \in P PROVE t \in P
  <2>1. CASE t = {}
    <3> DEFINE h == [v \in SUBSET t |-> <<>>]
    <3>1. h = [v \in SUBSET t |-> Told(d, h, v)]
      BY <2>1 DEF Told
    <3>2. Tells(d, t, h)
      BY <3>1 DEF Tells
    <3> QED
      BY <3>2
  <2>2. CASE t # {}
    <3> DEFINE x == LastOf(t)
    <3>1. x \in t /\ \A g \in t : g = x \/ Before(g, x)
      <4>1. t \in SUBSET Files /\ IsFiniteSet(t)
        BY FS_Subset
      <4> QED
        BY <2>2, <4>1, LastExists
    <3> HIDE DEF x
    <3>2. t \ {x} \in P
      BY <1>1, <3>1
    <3>3. PICK g : Tells(d, t \ {x}, g)
      BY <3>2
    <3> DEFINE h == [v \in SUBSET t |-> IF x \in v THEN g[v \ {x}] \o d[x] ELSE g[v]]
    <3>4. ASSUME NEW v \in SUBSET t PROVE h[v] = Told(d, h, v)
      <4>1. CASE x \in v
        <5>1. LastOf(v) = x /\ v # {}
          <6>1. v \in SUBSET Files /\ \A f \in v : f = x \/ Before(f, x)
            BY <3>1
          <6> QED
            BY <4>1, <6>1, LastIs
        <5>2. v \ {x} \in SUBSET t /\ x \notin v \ {x}
          OBVIOUS
        <5>3. h[v \ {x}] = g[v \ {x}]
          BY <5>2
        <5> QED
          BY <4>1, <5>1, <5>3 DEF Told
      <4>2. CASE x \notin v
        <5>1. v \in SUBSET (t \ {x})
          BY <4>2
        <5>2. v \ {LastOf(v)} \in SUBSET t /\ x \notin v \ {LastOf(v)}
          BY <4>2
        <5>3. h[v] = g[v] /\ h[v \ {LastOf(v)}] = g[v \ {LastOf(v)}]
          BY <4>2, <5>2
        <5>4. g[v] = Told(d, g, v)
          BY <3>3, <5>1 DEF Tells
        <5> QED
          BY <5>3, <5>4 DEF Told
      <4> QED
        BY <4>1, <4>2
    <3> HIDE DEF h
    <3>5. h = [v \in SUBSET t |-> h[v]]
      BY DEF h
    <3>6. Tells(d, t, h)
      BY <3>4, <3>5 DEF Tells
    <3> QED
      BY <3>6
  <2> QED
    BY <2>1, <2>2
<1> HIDE DEF P
<1>2. D \in P
  <2>1. SUBSET D \subseteq P
    BY <1>1, FiniteInduction
  <2> QED
    BY <2>1
<1> QED
  BY <1>2 DEF P

\* Where two functions agree on the files of a set, so does what they tell of it.
LEMMA TellsAgree ==
  ASSUME NEW D \in SUBSET Files, IsFiniteSet(D), NEW E, NEW F, D \subseteq E, D \subseteq F,
         NEW d, NEW e, \A f \in D : d[f] = e[f],
         NEW g, Tells(d, E, g), NEW h, Tells(e, F, h)
  PROVE  g[D] = h[D]
<1> DEFINE P == {t \in SUBSET D : g[t] = h[t]}
<1>1. ASSUME NEW t \in SUBSET D, \A u \in SUBSET t : u # t => u \in P PROVE t \in P
  <2>1. t \in SUBSET E /\ t \in SUBSET F
    OBVIOUS
  <2>2. g[t] = Told(d, g, t) /\ h[t] = Told(e, h, t)
    BY <2>1 DEF Tells
  <2>3. CASE t = {}
    BY <2>2, <2>3 DEF Told
  <2>4. CASE t # {}
    <3>1. LastOf(t) \in t
      <4>1. t \in SUBSET Files /\ IsFiniteSet(t)
        BY FS_Subset
      <4> QED
        BY <2>4, <4>1, LastExists
    <3>2. t \ {LastOf(t)} \in P
      BY <1>1, <3>1
    <3>3. g[t \ {LastOf(t)}] = h[t \ {LastOf(t)}] /\ d[LastOf(t)] = e[LastOf(t)]
      BY <3>1, <3>2
    <3> QED
      BY <2>2, <2>4, <3>3 DEF Told
  <2> QED
    BY <2>3, <2>4
<1> HIDE DEF P
<1>2. D \in P
  <2>1. SUBSET D \subseteq P
    BY <1>1, FiniteInduction
  <2> QED
    BY <2>1
<1> QED
  BY <1>2 DEF P

LEMMA StoryIs ==
  ASSUME NEW d, DOMAIN d \subseteq Files, IsFiniteSet(DOMAIN d)
  PROVE  \E g : Tells(d, DOMAIN d, g) /\ Story(d) = g[DOMAIN d]
<1> DEFINE g == CHOOSE h : Tells(d, DOMAIN d, h)
<1>1. Tells(d, DOMAIN d, g)
  BY TellsExists
<1>2. Story(d) = g[DOMAIN d]
  BY DEF Story, MapThenFoldSet, Tells, Told
<1> QED
  BY <1>1, <1>2

LEMMA StoryOfNone ==
  ASSUME NEW d, DOMAIN d = {}
  PROVE  Story(d) = <<>>
<1>1. PICK g : Tells(d, DOMAIN d, g) /\ Story(d) = g[DOMAIN d]
  BY StoryIs, FS_EmptySet
<1>2. {} \in SUBSET (DOMAIN d)
  OBVIOUS
<1> QED
  BY <1>1, <1>2 DEF Tells, Told

\* The last file ends the story.
LEMMA StoryEnds ==
  ASSUME NEW d, DOMAIN d \subseteq Files, IsFiniteSet(DOMAIN d),
         NEW x \in DOMAIN d, \A f \in DOMAIN d : f = x \/ Before(f, x)
  PROVE  Story(d) = Story([f \in DOMAIN d \ {x} |-> d[f]]) \o d[x]
<1> DEFINE D == DOMAIN d
           e == [f \in D \ {x} |-> d[f]]
<1>1. PICK g : Tells(d, D, g) /\ Story(d) = g[D]
  BY StoryIs
<1>2. IsFiniteSet(D \ {x}) /\ DOMAIN e = D \ {x}
  BY FS_RemoveElement
<1>3. PICK h : Tells(e, D \ {x}, h) /\ Story(e) = h[D \ {x}]
  BY <1>2, StoryIs
<1>4. LastOf(D) = x
  BY LastIs
<1>5. g[D] = g[D \ {x}] \o d[x]
  <2>1. D \in SUBSET D /\ D # {}
    OBVIOUS
  <2> QED
    BY <1>1, <1>4, <2>1 DEF Tells, Told
<1>6. \A f \in D \ {x} : d[f] = e[f]
  OBVIOUS
<1> HIDE DEF e
<1>7. g[D \ {x}] = h[D \ {x}]
  <2>1. D \ {x} \in SUBSET Files /\ D \ {x} \subseteq D
    OBVIOUS
  <2> QED
    BY <1>1, <1>2, <1>3, <1>6, <2>1, TellsAgree
<1> QED
  BY <1>1, <1>3, <1>5, <1>7 DEF e

-----------------------------------------------------------------------------
LEMMA PartSeqs ==
  /\ <<>> \in PartSeq
  /\ \A x \in PartSeq : x \o <<>> = x
  /\ \A x, y \in PartSeq : x \o y \in PartSeq
  /\ \A x, y, z \in PartSeq : (x \o y) \o z = x \o (y \o z)
<1>1. PartSeq = Seq(Parts)
  BY DEF PartSeq, Parts
<1>2. \A x \in Seq(Parts) : x \o <<>> = x
  BY ConcatEmptySeq
<1>3. \A x, y \in Seq(Parts) : x \o y \in Seq(Parts)
  BY ConcatProperties
<1>4. \A x, y, z \in Seq(Parts) : (x \o y) \o z = x \o (y \o z)
  BY ConcatAssociative
<1>5. <<>> \in Seq(Parts)
  OBVIOUS
<1> QED
  BY <1>1, <1>2, <1>3, <1>4, <1>5

LEMMA StoryType ==
  ASSUME NEW d, DOMAIN d \subseteq Files, IsFiniteSet(DOMAIN d),
         \A f \in DOMAIN d : d[f] \in PartSeq
  PROVE  Story(d) \in PartSeq
<1> DEFINE D == DOMAIN d
<1>1. PICK g : Tells(d, D, g) /\ Story(d) = g[D]
  BY StoryIs
<1> DEFINE P == {t \in SUBSET D : g[t] \in PartSeq}
<1>2. ASSUME NEW t \in SUBSET D, \A u \in SUBSET t : u # t => u \in P PROVE t \in P
  <2>1. g[t] = Told(d, g, t)
    BY <1>1 DEF Tells
  <2>2. CASE t = {}
    BY <2>1, <2>2, PartSeqs DEF Told
  <2>3. CASE t # {}
    <3>1. LastOf(t) \in t
      <4>1. t \in SUBSET Files /\ IsFiniteSet(t)
        BY FS_Subset
      <4> QED
        BY <2>3, <4>1, LastExists
    <3>2. g[t \ {LastOf(t)}] \in PartSeq /\ d[LastOf(t)] \in PartSeq
      BY <1>2, <3>1
    <3>3. g[t \ {LastOf(t)}] \o d[LastOf(t)] \in PartSeq
      BY <3>2, PartSeqs
    <3> QED
      BY <2>1, <2>3, <3>3 DEF Told
  <2> QED
    BY <2>2, <2>3
<1> HIDE DEF P
<1>3. SUBSET D \subseteq P
  BY <1>2, FiniteInduction
<1>4. D \in P
  BY <1>3
<1> QED
  BY <1>1, <1>4 DEF P

LEMMA StoryAgrees ==
  ASSUME NEW d, NEW e, DOMAIN d \subseteq Files, IsFiniteSet(DOMAIN d),
         DOMAIN e = DOMAIN d, \A f \in DOMAIN d : d[f] = e[f]
  PROVE  Story(d) = Story(e)
<1>1. PICK g : Tells(d, DOMAIN d, g) /\ Story(d) = g[DOMAIN d]
  BY StoryIs
<1>2. PICK h : Tells(e, DOMAIN e, h) /\ Story(e) = h[DOMAIN e]
  BY StoryIs
<1>3. DOMAIN d \in SUBSET Files /\ DOMAIN d \subseteq DOMAIN d /\ DOMAIN d \subseteq DOMAIN e
  OBVIOUS
<1>4. g[DOMAIN d] = h[DOMAIN d]
  BY <1>1, <1>2, <1>3, TellsAgree
<1> QED
  BY <1>1, <1>2, <1>4

\* Writing to the last file continues the story.
LEMMA StoryGrows ==
  ASSUME NEW d, NEW e, DOMAIN d \subseteq Files, IsFiniteSet(DOMAIN d),
         \A f \in DOMAIN d : d[f] \in PartSeq,
         NEW x \in DOMAIN d, EndsAt(DOMAIN d, x), NEW b \in PartSeq,
         DOMAIN e = DOMAIN d, e[x] = d[x] \o b,
         \A f \in DOMAIN d : f # x => e[f] = d[f]
  PROVE  Story(e) = Story(d) \o b
<1> DEFINE D == DOMAIN d \ {x}
           rd == [f \in D |-> d[f]]
           re == [f \in D |-> e[f]]
<1>1. rd = re
  OBVIOUS
<1>2. Story(d) = Story(rd) \o d[x]
  BY StoryEnds DEF EndsAt
<1>3. Story(e) = Story(re) \o e[x]
  <2>1. DOMAIN e \subseteq Files /\ IsFiniteSet(DOMAIN e) /\ x \in DOMAIN e
    OBVIOUS
  <2>2. \A f \in DOMAIN e : f = x \/ Before(f, x)
    BY DEF EndsAt
  <2>3. Story(e) = Story([f \in DOMAIN e \ {x} |-> e[f]]) \o e[x]
    BY <2>1, <2>2, StoryEnds
  <2> QED
    BY <2>3
<1>4. Story(rd) \in PartSeq
  <2>1. /\ DOMAIN rd = D /\ D \subseteq Files /\ IsFiniteSet(D)
        /\ \A f \in D : rd[f] \in PartSeq
    BY FS_RemoveElement
  <2> HIDE DEF rd, D
  <2> QED
    BY <2>1, StoryType
<1> HIDE DEF rd, re
<1>5. (Story(rd) \o d[x]) \o b = Story(rd) \o (d[x] \o b)
  <2>1. d[x] \in PartSeq
    OBVIOUS
  <2> QED
    BY <1>4, <2>1, PartSeqs
<1> QED
  BY <1>1, <1>2, <1>3, <1>5

\* A new file behind all others adds nothing to it.
LEMMA StoryStarts ==
  ASSUME NEW d, NEW e, DOMAIN d \subseteq Files, IsFiniteSet(DOMAIN d),
         \A f \in DOMAIN d : d[f] \in PartSeq,
         NEW x \in Files, x \notin DOMAIN d, EndsAt(DOMAIN d, x),
         DOMAIN e = DOMAIN d \cup {x}, e[x] = <<>>,
         \A f \in DOMAIN d : e[f] = d[f]
  PROVE  Story(e) = Story(d)
<1> DEFINE r == [f \in DOMAIN e \ {x} |-> e[f]]
<1>1. /\ DOMAIN e \subseteq Files /\ x \in DOMAIN e
      /\ \A f \in DOMAIN e : f = x \/ Before(f, x)
  BY DEF EndsAt
<1>2. IsFiniteSet(DOMAIN e)
  BY FS_AddElement
<1>3. Story(e) = Story(r) \o e[x]
  BY <1>1, <1>2, StoryEnds
<1>4. DOMAIN r = DOMAIN d /\ \A f \in DOMAIN d : d[f] = r[f]
  OBVIOUS
<1> HIDE DEF r
<1>5. Story(d) = Story(r)
  BY <1>4, StoryAgrees
<1>6. Story(d) \in PartSeq
  BY StoryType
<1>7. Story(d) \o <<>> = Story(d)
  BY <1>6, PartSeqs
<1> QED
  BY <1>3, <1>5, <1>7

LEMMA LongestIs ==
  /\ Longest \in Nat /\ PrefixLen <= Longest /\ 1 <= Longest
  /\ \A len \in PayloadLens : len <= Longest
<1> DEFINE L == PayloadLens \cup {PrefixLen}
<1>1. L \in SUBSET Nat /\ PrefixLen \in L /\ PrefixLen \in Nat \ {0}
  BY SizesArePositive
<1>2. IsFiniteSet(L)
  BY SizesArePositive, FS_AddElement
<1>3. Max(L) \in L /\ \A n \in L : n <= Max(L)
  BY <1>1, <1>2, MaxOfFinite
<1> HIDE DEF L
<1>4. Longest = Max(L)
  BY DEF Longest, L
<1>5. PayloadLens \subseteq L
  BY DEF L
<1>6. Longest \in Nat /\ PrefixLen <= Longest
  BY <1>1, <1>3, <1>4
<1>7. 1 <= Longest
  BY <1>1, <1>6
<1> QED
  BY <1>3, <1>4, <1>5, <1>6, <1>7

-----------------------------------------------------------------------------
(* What flushing and opening do to sizes and order.                        *)

LEMMA FlushedIs ==
  ASSUME FileInv, SizeInv
  PROVE  /\ DOMAIN Flushed = DOMAIN disk
         /\ \A f \in DOMAIN disk : Flushed[f] \in PartSeq
         /\ fp => current \in DOMAIN disk /\ Flushed[current] = disk[current] \o buf
         /\ \A f \in DOMAIN disk : ~fp \/ f # current => Flushed[f] = disk[f]
<1>1. DOMAIN Flushed = DOMAIN disk /\ \A f \in DOMAIN disk : Flushed[f] \in PartSeq
  BY FlushedContinues
<1>2. fp => current \in DOMAIN disk
  BY DEF FileInv
<1>3. CASE fp
  BY <1>1, <1>2, <1>3 DEF Flushed
<1>4. CASE ~fp
  BY <1>1, <1>4 DEF Flushed
<1> QED
  BY <1>3, <1>4

LEMMA FlushedInOrder ==
  ASSUME FileInv, SizeInv, OrderInv, Orderly
  PROVE  /\ Story(Flushed) = log
         /\ \A f \in DOMAIN disk : Bytes(Flushed[f]) < roll_size + Longest
<1>1. /\ DOMAIN disk \subseteq Files /\ IsFiniteSet(DOMAIN disk) /\ buf \in PartSeq
      /\ \A f \in DOMAIN disk : disk[f] \in PartSeq
  BY DEF FileInv, SizeInv
<1>2. /\ Story(disk) \o buf = log
      /\ \A f \in DOMAIN disk : Bytes(disk[f]) < roll_size + Longest
      /\ fp => EndsAt(DOMAIN disk, current) /\ written_bytes < roll_size + Longest
  BY DEF OrderInv
<1>3. CASE fp
  <2>1. current \in DOMAIN disk /\ written_bytes = Bytes(Flushed[current])
    BY <1>3, FlushedIs DEF SizeInv
  <2>2. Story(Flushed) = Story(disk) \o buf
    BY <1>1, <1>2, <1>3, <2>1, FlushedIs, StoryGrows
  <2>3. \A f \in DOMAIN disk : Bytes(Flushed[f]) < roll_size + Longest
    BY <1>2, <1>3, <2>1, FlushedIs
  <2> QED
    BY <1>2, <2>2, <2>3
<1>4. CASE ~fp
  <2>1. Story(Flushed) = Story(disk)
    BY <1>1, <1>4, FlushedIs, StoryAgrees
  <2>2. Story(disk) \in PartSeq /\ buf = <<>>
    BY <1>1, <1>4, StoryType DEF SizeInv
  <2>3. Story(disk) \o buf = Story(disk)
    BY <2>2, PartSeqs
  <2>4. \A f \in DOMAIN disk : Bytes(Flushed[f]) < roll_size + Longest
    BY <1>2, <1>4, FlushedIs
  <2> QED
    BY <1>2, <2>1, <2>3, <2>4
<1> QED
  BY <1>3, <1>4

\* open_file, its two outcomes.
LEMMA OpenedIs ==
  ASSUME FileInv, SizeInv, NEW day, NEW seq, open_file(day, seq)
  PROVE  /\ current_date' = day /\ current_seq' = seq /\ current' = <<day, seq>>
         /\ buf' = <<>>
         /\ \/ ~fp' /\ disk' = Flushed /\ written_bytes' = 0 /\ fp' \in BOOLEAN
            \/ /\ fp' = TRUE /\ DOMAIN disk' = DOMAIN disk \cup {<<day, seq>>}
               /\ \A f \in DOMAIN disk : disk'[f] = Flushed[f]
               /\ <<day, seq>> \notin DOMAIN disk => disk'[<<day, seq>>] = <<>>
               /\ written_bytes' = Bytes(disk'[<<day, seq>>])
<1>1. current_date' = day /\ current_seq' = seq /\ current' = <<day, seq>> /\ buf' = <<>>
  BY DEF open_file, current
<1>2. DOMAIN Flushed = DOMAIN disk
  BY FlushedIs
<1>3. CASE /\ fp' = TRUE
           /\ disk' = [f \in DOMAIN Flushed \cup {<<day, seq>>} |->
                          IF f \in DOMAIN Flushed THEN Flushed[f] ELSE <<>>]
           /\ written_bytes' = Bytes(disk'[<<day, seq>>])
  <2>1. /\ DOMAIN disk' = DOMAIN disk \cup {<<day, seq>>}
        /\ \A f \in DOMAIN disk : disk'[f] = Flushed[f]
        /\ <<day, seq>> \notin DOMAIN disk => disk'[<<day, seq>>] = <<>>
    BY <1>2, <1>3
  <2> QED
    BY <1>1, <1>3, <2>1
<1>4. CASE fp' = FALSE /\ disk' = Flushed /\ written_bytes' = 0
  BY <1>1, <1>4
<1> QED
  BY <1>3, <1>4 DEF open_file

\* The part of SizeInv that is about the open file.
OpenType ==
    /\ IsFiniteSet(DOMAIN disk) /\ DOMAIN disk \subseteq Files
    /\ written_bytes \in Nat
    /\ current_date \in {NoDate} \cup (1 .. Days) /\ current_seq \in Nat
    /\ fp => current_date # NoDate /\ written_bytes = Bytes(disk[current] \o buf)
    /\ ~fp => buf = <<>>

LEMMA OpenSize ==
  ASSUME FileInv, SizeInv, NEW day \in 1 .. Days, NEW seq \in Nat \ {0}, open_file(day, seq)
  PROVE  OpenType'
<1>1. /\ current_date' = day /\ current_seq' = seq /\ current' = <<day, seq>>
      /\ buf' = <<>>
  BY OpenedIs
<1>2. <<day, seq>> \in Files /\ day # NoDate
  BY BoundsAreNatural DEF Files, NoDate
<1>3. DOMAIN disk \subseteq Files /\ IsFiniteSet(DOMAIN disk)
  BY DEF SizeInv
<1>4. CASE ~fp' /\ disk' = Flushed /\ written_bytes' = 0
  <2>1. DOMAIN disk' = DOMAIN disk
    BY <1>4, FlushedIs
  <2> QED
    BY <1>1, <1>3, <1>4, <2>1 DEF OpenType
<1>5. CASE /\ fp' = TRUE /\ DOMAIN disk' = DOMAIN disk \cup {<<day, seq>>}
           /\ written_bytes' = Bytes(disk'[<<day, seq>>])
  <2>1. DOMAIN disk' \subseteq Files /\ IsFiniteSet(DOMAIN disk')
    BY <1>2, <1>3, <1>5, FS_AddElement
  <2>2. disk'[<<day, seq>>] \in PartSeq
    BY <1>5, OpenKeeps DEF Kept
  <2>3. disk'[current'] \o buf' = disk'[<<day, seq>>]
    BY <1>1, <2>2, PartSeqs
  <2>4. written_bytes' \in Nat
    BY <1>5, <2>2, BytesType
  <2> QED
    BY <1>1, <1>2, <1>5, <2>1, <2>3, <2>4 DEF OpenType
<1> QED
  BY <1>4, <1>5, OpenedIs

\* What OrderInv says when the process is between two writes.
OpenOrder ==
    /\ \A f \in DOMAIN disk : f[1] <= current_date
    /\ fp => EndsAt(DOMAIN disk, current)
    /\ Story(disk) \o buf = log
    /\ \A f \in DOMAIN disk : Bytes(disk[f]) < roll_size + Longest
    /\ fp => written_bytes < roll_size

\* The file that is opened is the last one and not full.
LEMMA OpenInOrder ==
  ASSUME FileInv, SizeInv, OrderInv, Orderly, log' = log,
         NEW day \in 1 .. Days, NEW seq \in Nat \ {0}, open_file(day, seq),
         \A f \in DOMAIN disk : f[1] <= day,
         EndsAt(DOMAIN disk, <<day, seq>>),
         <<day, seq>> \in DOMAIN disk => ~fp /\ Bytes(disk[<<day, seq>>]) < roll_size
  PROVE  OpenOrder'
<1> DEFINE x == <<day, seq>>
<1>1. /\ current_date' = day /\ current' = x /\ buf' = <<>>
  BY OpenedIs
<1>2. /\ Story(Flushed) = log
      /\ \A f \in DOMAIN disk : Bytes(Flushed[f]) < roll_size + Longest
  BY FlushedInOrder
<1>3. /\ DOMAIN Flushed = DOMAIN disk /\ DOMAIN disk \subseteq Files
      /\ IsFiniteSet(DOMAIN disk) /\ \A f \in DOMAIN disk : Flushed[f] \in PartSeq
  BY FlushedIs DEF SizeInv
<1>4. Story(Flushed) \o buf' = log'
  <2>1. Story(Flushed) \in PartSeq
    BY <1>3, StoryType
  <2> QED
    BY <1>1, <1>2, <2>1, PartSeqs
<1>5. CASE ~fp' /\ disk' = Flushed
  BY <1>1, <1>2, <1>3, <1>4, <1>5 DEF OpenOrder
<1>6. CASE /\ fp' = TRUE /\ DOMAIN disk' = DOMAIN disk \cup {x}
           /\ \A f \in DOMAIN disk : disk'[f] = Flushed[f]
           /\ x \notin DOMAIN disk => disk'[x] = <<>>
           /\ written_bytes' = Bytes(disk'[x])
  <2>1. EndsAt(DOMAIN disk', current') /\ \A f \in DOMAIN disk' : f[1] <= current_date'
    BY <1>1, <1>6 DEF EndsAt
  <2>2. x \in Files
    BY DEF Files
  <2>3. Story(disk') = Story(Flushed)
    <3>1. CASE x \in DOMAIN disk
      <4>1. DOMAIN disk' = DOMAIN Flushed /\ \A f \in DOMAIN Flushed : Flushed[f] = disk'[f]
        BY <1>3, <1>6, <3>1
      <4> QED
        BY <1>3, <4>1, StoryAgrees
    <3>2. CASE x \notin DOMAIN disk
      BY <1>3, <1>6, <2>2, <3>2, StoryStarts
    <3> QED
      BY <3>1, <3>2
  <2>4. Bytes(disk'[x]) < roll_size
    <3>1. CASE x \in DOMAIN disk
      <4>1. disk'[x] = disk[x]
        BY <1>6, <3>1, FlushedIs
      <4> QED
        BY <3>1, <4>1
    <3>2. CASE x \notin DOMAIN disk
      <4>1. disk'[x] = <<>> /\ <<>> \in Seq(Parts) /\ Len(<<>>) = 0
        BY <1>6, <3>2
      <4>2. Bytes(<<>>) = 0
        BY <4>1, UptoIs
      <4> QED
        BY <4>1, <4>2, SizesArePositive
    <3> QED
      BY <3>1, <3>2
  <2>5. \A f \in DOMAIN disk' : Bytes(disk'[f]) < roll_size + Longest
    <3>1. Bytes(disk'[x]) < roll_size + Longest
      <4>1. disk'[x] \in PartSeq
        BY <1>6, OpenKeeps DEF Kept
      <4>2. Bytes(disk'[x]) \in Nat /\ roll_size \in Nat /\ Longest \in Nat
        BY <4>1, BytesType, SizesArePositive, LongestIs
      <4> QED
        BY <2>4, <4>2
    <3> QED
      BY <1>2, <1>6, <3>1
  <2> QED
    BY <1>4, <1>6, <2>1, <2>3, <2>4, <2>5 DEF OpenOrder
<1> QED
  BY <1>5, <1>6, OpenedIs

\* The number the first file of a process gets: that of the last file of the day, or
\* the next.
LEMMA FirstSeqIs ==
  ASSUME FileInv, SizeInv
  PROVE  /\ FirstSeq \in Nat \ {0}
         /\ NumbersInReach /\ (\A f \in DOMAIN disk : f[1] <= today) =>
              /\ EndsAt(DOMAIN disk, <<today, FirstSeq>>)
              /\ <<today, FirstSeq>> \in DOMAIN disk =>
                    Bytes(disk[<<today, FirstSeq>>]) < roll_size
<1> DEFINE seqs == {f[2] : f \in {g \in DOMAIN disk : g[1] = today /\ g[2] <= kMaxSeq}}
           m == scan_today_max_seq(disk, today)
<1>1. /\ today \in Nat /\ DOMAIN disk \subseteq Files
      /\ \A f \in DOMAIN disk : f = <<f[1], f[2]>> /\ f[1] \in Nat /\ f[2] \in Nat \ {0}
  BY BoundsAreNatural DEF SizeInv, Files
<1>2. seqs \in SUBSET Nat /\ IsFiniteSet(seqs)
  <2>1. seqs \in SUBSET Nat /\ \A n \in seqs : n <= kMaxSeq
    BY <1>1
  <2> HIDE DEF seqs
  <2> QED
    BY <2>1, SizesArePositive, FS_BoundedSetOfNaturals
<1>3. m = IF seqs = {} THEN 0 ELSE Max(seqs)
  BY DEF scan_today_max_seq
<1>4. ASSUME NEW n \in seqs PROVE n \in Nat \ {0} /\ <<today, n>> \in DOMAIN disk
  BY <1>1
<1>5. seqs # {} => Max(seqs) \in seqs /\ \A n \in seqs : n <= Max(seqs)
  BY <1>2, MaxOfFinite
<1>6. NumbersInReach => \A f \in DOMAIN disk : f[1] = today => f[2] \in seqs
  BY DEF NumbersInReach
<1> HIDE DEF seqs, m
<1>7. FirstSeq = IF m = 0 THEN 1
                 ELSE IF Bytes(disk[<<today, m>>]) < roll_size THEN m ELSE m + 1
  BY DEF FirstSeq, m
<1>8. CASE seqs = {}
  <2>1. FirstSeq = 1
    BY <1>3, <1>7, <1>8
  <2>2. ASSUME NumbersInReach, \A f \in DOMAIN disk : f[1] <= today
        PROVE  \A f \in DOMAIN disk : f[1] < today
    BY <1>1, <1>6, <1>8, <2>2
  <2>3. ASSUME NumbersInReach, \A f \in DOMAIN disk : f[1] <= today
        PROVE  EndsAt(DOMAIN disk, <<today, 1>>) /\ <<today, 1>> \notin DOMAIN disk
    BY <1>1, <2>2, <2>3 DEF EndsAt, Before
  <2> QED
    BY <2>1, <2>3
<1>9. CASE seqs # {}
  <2>1. m \in seqs /\ m \in Nat \ {0} /\ <<today, m>> \in DOMAIN disk
    BY <1>3, <1>4, <1>5, <1>9
  <2>2. ASSUME NumbersInReach, \A f \in DOMAIN disk : f[1] <= today,
               NEW f \in DOMAIN disk
        PROVE  f = <<today, m>> \/ Before(f, <<today, m>>)
    <3>1. CASE f[1] = today
      <4>1. f[2] <= m
        BY <1>3, <1>5, <1>6, <1>9, <2>2, <3>1
      <4>2. f = <<today, f[2]>> /\ f[2] \in Nat
        BY <1>1, <3>1
      <4>3. CASE f[2] = m
        BY <4>2, <4>3
      <4>4. CASE f[2] # m
        BY <2>1, <3>1, <4>1, <4>2, <4>4 DEF Before
      <4> QED
        BY <4>3, <4>4
    <3>2. CASE f[1] # today
      BY <1>1, <2>2, <3>2 DEF Before
    <3> QED
      BY <3>1, <3>2
  <2>3. CASE Bytes(disk[<<today, m>>]) < roll_size
    BY <1>7, <2>1, <2>2, <2>3 DEF EndsAt
  <2>4. CASE ~(Bytes(disk[<<today, m>>]) < roll_size)
    <3>1. FirstSeq = m + 1
      BY <1>7, <2>1, <2>4
    <3>2. ASSUME NumbersInReach, \A f \in DOMAIN disk : f[1] <= today,
                 NEW f \in DOMAIN disk
          PROVE  Before(f, <<today, m + 1>>)
      <4>1. CASE f = <<today, m>>
        BY <2>1, <4>1, <1>1 DEF Before
      <4>2. CASE Before(f, <<today, m>>)
        BY <1>1, <2>1, <4>2 DEF Before
      <4> QED
        BY <2>2, <3>2, <4>1, <4>2
    <3>3. ~Before(<<today, m + 1>>, <<today, m + 1>>)
      BY <1>1, <2>1 DEF Before
    <3> QED
      BY <2>1, <3>1, <3>2, <3>3 DEF EndsAt
  <2> QED
    BY <2>3, <2>4
<1> QED
  BY <1>8, <1>9

LEMMA RollSize ==
  ASSUME FileInv, SizeInv, roll_if_needed
  PROVE  OpenType'
<1>1. today \in 1 .. Days
  BY DEF SizeInv
<1>2. CASE NewDay /\ open_file(today, 1)
  BY <1>1, <1>2, OpenSize
<1>3. CASE ~NewDay /\ fp /\ open_file(current_date, current_seq + 1)
  <2>1. current_date \in 1 .. Days /\ current_seq + 1 \in Nat \ {0}
    BY <1>3 DEF SizeInv
  <2> QED
    BY <1>3, <2>1, OpenSize
<1>4. CASE open_file(today, FirstSeq)
  BY <1>1, <1>4, FirstSeqIs, OpenSize
<1>5. CASE UNCHANGED fileVars
  <2>1. current' = current /\ UNCHANGED <<disk, fp, buf, written_bytes, current_date, current_seq>>
    BY <1>5 DEF fileVars, current
  <2> QED
    BY <2>1 DEF OpenType, SizeInv
<1> QED
  BY <1>2, <1>3, <1>4, <1>5 DEF roll_if_needed

\* After roll_if_needed the open file is the last one and has room.
LEMMA RollInOrder ==
  ASSUME FileInv, SizeInv, OrderInv, Orderly, log' = log, roll_if_needed
  PROVE  OpenOrder' /\ current_date' = today
<1>1. /\ today \in 1 .. Days /\ today \in Nat
      /\ current_date \in {NoDate} \cup (1 .. Days) /\ current_date \in Nat
      /\ current_seq \in Nat /\ DOMAIN disk \subseteq Files
      /\ fp => current_date # NoDate
  BY BoundsAreNatural DEF SizeInv, NoDate
<1>2. /\ \A f \in DOMAIN disk : f[1] <= today
      /\ current_date # NoDate =>
            current_date <= today /\ \A f \in DOMAIN disk : f[1] <= current_date
      /\ fp => EndsAt(DOMAIN disk, current)
      /\ Story(disk) \o buf = log
      /\ \A f \in DOMAIN disk : Bytes(disk[f]) < roll_size + Longest
  BY DEF OrderInv
<1>3. \A f \in DOMAIN disk : f = <<f[1], f[2]>> /\ f[1] \in Nat /\ f[2] \in Nat
  BY <1>1, BoundsAreNatural DEF Files
<1>4. CASE NewDay /\ open_file(today, 1)
  <2>1. current_date < today /\ \A f \in DOMAIN disk : f[1] < today
    BY <1>1, <1>2, <1>3, <1>4 DEF NewDay
  <2>2. EndsAt(DOMAIN disk, <<today, 1>>) /\ <<today, 1>> \notin DOMAIN disk
    BY <1>1, <2>1 DEF EndsAt, Before
  <2>3. OpenOrder'
    BY <1>1, <1>2, <1>4, <2>2, OpenInOrder
  <2> QED
    BY <1>4, <2>3 DEF open_file
<1>5. CASE ~NewDay /\ fp /\ open_file(current_date, current_seq + 1)
  <2>1. current_date = today
    BY <1>1, <1>5 DEF NewDay
  <2>2. ASSUME NEW f \in DOMAIN disk PROVE Before(f, <<today, current_seq + 1>>)
    <3>1. f = <<today, current_seq>> \/ Before(f, <<today, current_seq>>)
      BY <1>2, <1>5, <2>1 DEF EndsAt, current
    <3> QED
      BY <1>1, <1>3, <3>1 DEF Before
  <2>3. ~Before(<<today, current_seq + 1>>, <<today, current_seq + 1>>)
    BY <1>1 DEF Before
  <2>4. /\ EndsAt(DOMAIN disk, <<today, current_seq + 1>>)
        /\ <<today, current_seq + 1>> \notin DOMAIN disk
        /\ current_seq + 1 \in Nat \ {0}
    BY <1>1, <2>2, <2>3 DEF EndsAt
  <2>5. OpenOrder'
    BY <1>1, <1>2, <1>5, <2>1, <2>4, OpenInOrder
  <2> QED
    BY <1>5, <2>1, <2>5 DEF open_file
<1>6. CASE ~NewDay /\ ~fp /\ open_file(today, FirstSeq)
  <2>1. OpenOrder'
    BY <1>1, <1>2, <1>6, FirstSeqIs, OpenInOrder DEF Orderly
  <2> QED
    BY <1>6, <2>1 DEF open_file
<1>7. CASE ~NewDay /\ fp /\ written_bytes < roll_size /\ UNCHANGED fileVars
  <2>1. current' = current /\ UNCHANGED <<disk, fp, buf, written_bytes, current_date, current_seq>>
    BY <1>7 DEF fileVars, current
  <2>2. current_date = today
    BY <1>1, <1>7 DEF NewDay
  <2> QED
    BY <1>2, <1>7, <2>1, <2>2 DEF OpenOrder
<1> QED
  BY <1>4, <1>5, <1>6, <1>7 DEF roll_if_needed

-----------------------------------------------------------------------------
(* What each action does to sizes and order.                               *)

\* Files and the flag only grow, so what was orderly is told by what is.
LEMMA WasOrderly ==
  ASSUME FileInv, SizeInv, Next, Orderly'
  PROVE  Orderly
<1>1. DOMAIN disk \subseteq DOMAIN disk'
  BY NextKeeps DEF Kept
<1>2. NumbersInReach
  BY <1>1 DEF Orderly, NumbersInReach
<1>3. wentback' = wentback \/ \E d \in 1 .. Days : NextDay(d)
  BY DEF Next, LogFileCtor, AppendRolls, AppendWrites, StdioWrites, append_line, flush,
         LogFileDtor, Killed, Gone, historyVars
<1>4. ~wentback
  BY <1>3 DEF Orderly, NextDay, SizeInv
<1> QED
  BY <1>2, <1>4 DEF Orderly

\* LogFileCtor and the first half of append.
LEMMA RollNext ==
  ASSUME FileInv, SizeInv, OrderInv, Next, roll_if_needed, UNCHANGED <<todo, historyVars>>,
         pc' \in {"idle", "write"}
  PROVE  SizeInv' /\ OrderInv'
<1>1. UNCHANGED <<todo, today, log, wentback>>
  BY DEF historyVars
<1>2. SizeInv'
  <2>1. OpenType'
    BY RollSize
  <2>2. /\ pc' \in {"idle", "roll", "write", "down"} /\ pc' # "down"
        /\ today' \in 1 .. Days /\ log' \in PartSeq /\ wentback' \in BOOLEAN
        /\ \A i \in DOMAIN todo' : todo'[i].len <= Longest
    BY <1>1 DEF SizeInv
  <2> QED
    BY <2>1, <2>2 DEF OpenType, SizeInv
<1>3. ASSUME Orderly' PROVE OrderInv'
  <2>1. OpenOrder' /\ current_date' = today' /\ today' \in Nat
    <3>1. Orderly
      BY <1>3, WasOrderly
    <3>2. today \in Nat
      BY BoundsAreNatural DEF SizeInv
    <3> QED
      BY <1>1, <3>1, <3>2, RollInOrder
  <2>2. fp' => written_bytes' < roll_size + Longest
    <3>1. written_bytes' \in Nat /\ roll_size \in Nat /\ Longest \in Nat
      BY <1>2, SizesArePositive, LongestIs DEF SizeInv
    <3> QED
      BY <2>1, <3>1 DEF OpenOrder
  <2> QED
    BY <2>1, <2>2 DEF OpenOrder, OrderInv
<1> QED
  BY <1>2, <1>3 DEF OrderInv

LEMMA WriteNext ==
  ASSUME FileInv, SizeInv, OrderInv, Next, AppendWrites
  PROVE  SizeInv' /\ OrderInv'
<1>1. /\ disk' = disk /\ fp' = fp /\ current' = current /\ pc = "write"
      /\ UNCHANGED <<current_date, current_seq, today, wentback>>
      /\ todo' = Tail(todo) /\ pc' \in {"idle", "roll"}
  BY DEF AppendWrites, current
<1>2. /\ todo \in PartSeq /\ todo # <<>> /\ buf \in PartSeq /\ log \in PartSeq
      /\ \A f \in DOMAIN disk : disk[f] \in PartSeq
      /\ fp => current \in DOMAIN disk
      /\ DOMAIN disk \subseteq Files /\ IsFiniteSet(DOMAIN disk)
  BY <1>1 DEF FileInv, SizeInv
<1>3. /\ todo[1] \in Parts /\ todo[1].len \in Nat /\ todo[1].len <= Longest
      /\ \A i \in DOMAIN todo' : todo'[i].len <= Longest
  <2>1. Len(todo) \in Nat \ {0} /\ DOMAIN todo = 1 .. Len(todo)
    BY <1>2, EmptySeq DEF PartSeq
  <2>2. Len(Tail(todo)) = Len(todo) - 1 /\ \A i \in 1 .. Len(todo) - 1 : Tail(todo)[i] = todo[i + 1]
    BY <1>2, HeadTailProperties DEF PartSeq
  <2>3. DOMAIN Tail(todo) = 1 .. Len(todo) - 1
    <3>1. Tail(todo) \in PartSeq
      BY <1>2, TailOf DEF PartSeq
    <3> QED
      BY <2>2, <3>1 DEF PartSeq
  <2>4. \A i \in 1 .. Len(todo) : todo[i].len <= Longest
    BY <2>1 DEF SizeInv
  <2>5. 1 \in 1 .. Len(todo) /\ \A i \in 1 .. Len(todo) - 1 : i + 1 \in 1 .. Len(todo)
    BY <2>1
  <2>6. todo[1] \in Parts /\ todo[1].len \in Nat
    BY <1>2, <2>5, PartAt
  <2> QED
    BY <1>1, <2>2, <2>3, <2>4, <2>5, <2>6
<1>4. /\ written_bytes \in Nat /\ roll_size \in Nat /\ Longest \in Nat
  BY SizesArePositive, LongestIs DEF SizeInv
<1>5. CASE /\ fp /\ buf' = Append(buf, todo[1])
           /\ written_bytes' = written_bytes + todo[1].len /\ log' = Append(log, todo[1])
  <2>1. buf' = buf \o <<todo[1]>> /\ log' = log \o <<todo[1]>> /\ <<todo[1]>> \in PartSeq
    <3>1. /\ buf \in Seq(Parts) /\ log \in Seq(Parts) /\ PartSeq = Seq(Parts)
      BY <1>2 DEF PartSeq, Parts
    <3>2. <<todo[1]>> \in Seq(Parts)
      BY <1>3
    <3> QED
      BY <1>3, <1>5, <3>1, <3>2, AppendIsConcat
  <2>2. log' \in PartSeq /\ buf' \in PartSeq
    BY <1>2, <2>1, PartSeqs
  <2>3. written_bytes' = Bytes(disk'[current'] \o buf') /\ written_bytes' \in Nat
    <3>1. disk[current] \in PartSeq /\ disk[current] \o buf \in PartSeq
      BY <1>2, <1>5, PartSeqs
    <3>2. disk[current] \o buf' = (disk[current] \o buf) \o <<todo[1]>>
      BY <1>2, <2>1, <3>1, PartSeqs
    <3>3. (disk[current] \o buf) \o <<todo[1]>> = Append(disk[current] \o buf, todo[1])
      BY <1>3, <3>1, AppendIsConcat DEF PartSeq, Parts
    <3>4. Bytes(disk[current] \o buf') = Bytes(disk[current] \o buf) + todo[1].len
      BY <1>3, <3>1, <3>2, <3>3, BytesAppend
    <3>5. written_bytes = Bytes(disk[current] \o buf)
      BY <1>5 DEF SizeInv
    <3> QED
      BY <1>1, <1>3, <1>4, <1>5, <3>4, <3>5
  <2>4. SizeInv'
    BY <1>1, <1>2, <1>3, <1>5, <2>2, <2>3 DEF SizeInv
  <2>5. ASSUME Orderly' PROVE OrderInv'
    <3>1. Orderly
      BY <2>5, WasOrderly
    <3>2. Story(disk') \o buf' = log'
      <4>1. Story(disk) \in PartSeq
        BY <1>2, StoryType
      <4>2. Story(disk) \o (buf \o <<todo[1]>>) = (Story(disk) \o buf) \o <<todo[1]>>
        BY <1>2, <2>1, <4>1, PartSeqs
      <4> QED
        BY <1>1, <2>1, <3>1, <4>2 DEF OrderInv
    <3>3. written_bytes' < roll_size + Longest
      <4>1. written_bytes < roll_size
        BY <1>1, <1>5, <3>1 DEF OrderInv
      <4> QED
        BY <1>3, <1>4, <1>5, <4>1
    <3> QED
      BY <1>1, <3>1, <3>2, <3>3 DEF OrderInv
  <2> QED
    BY <2>4, <2>5 DEF OrderInv
<1>6. CASE ~fp /\ UNCHANGED <<buf, written_bytes, log>>
  <2>1. SizeInv'
    BY <1>1, <1>2, <1>3, <1>6 DEF SizeInv
  <2>2. ASSUME Orderly' PROVE OrderInv'
    <3>1. Orderly
      BY <2>2, WasOrderly
    <3> QED
      BY <1>1, <1>6, <3>1 DEF OrderInv
  <2> QED
    BY <2>1, <2>2 DEF OrderInv
<1> QED
  BY <1>5, <1>6 DEF AppendWrites

LEMMA StdioNext ==
  ASSUME FileInv, SizeInv, OrderInv, Next, StdioWrites
  PROVE  SizeInv' /\ OrderInv'
<1>1. PICK k \in 1 .. Len(buf) :
        /\ disk' = [disk EXCEPT ![current] = disk[current] \o SubSeq(buf, 1, k)]
        /\ buf' = SubSeq(buf, k + 1, Len(buf))
  BY DEF StdioWrites
<1>2. /\ fp /\ fp' = fp /\ current' = current /\ current \in DOMAIN disk
      /\ UNCHANGED <<written_bytes, current_date, current_seq, pc, todo, today, log, wentback>>
  BY DEF StdioWrites, FileInv, current, historyVars
<1> DEFINE a == SubSeq(buf, 1, k)
<1>3. /\ a \in PartSeq /\ buf' \in PartSeq /\ buf = a \o buf'
  <2>1. buf \in Seq(Parts) /\ PartSeq = Seq(Parts)
    BY DEF FileInv, PartSeq, Parts
  <2>2. Len(buf) \in Nat /\ k \in 1 .. Len(buf)
    BY <2>1
  <2>3. a \in Seq(Parts) /\ SubSeq(buf, k + 1, Len(buf)) \in Seq(Parts)
    BY <2>1, PartsOf
  <2>4. buf = a \o SubSeq(buf, k + 1, Len(buf))
    <3>1. 1 \in 1 .. Len(buf) + 1 /\ k \in 1 - 1 .. Len(buf) /\ Len(buf) \in k .. Len(buf)
      BY <2>2
    <3>2. a \o SubSeq(buf, k + 1, Len(buf)) = SubSeq(buf, 1, Len(buf))
      BY <2>1, <3>1, ConcatAdjacentSubSeq
    <3> QED
      BY <2>1, <3>2, SubSeqFull
  <2> QED
    BY <1>1, <2>1, <2>3, <2>4
<1> HIDE DEF a
<1>4. /\ DOMAIN disk' = DOMAIN disk /\ disk'[current] = disk[current] \o a
      /\ \A f \in DOMAIN disk : f # current => disk'[f] = disk[f]
  BY <1>1, <1>2 DEF a
<1>5. /\ \A f \in DOMAIN disk : disk[f] \in PartSeq
      /\ DOMAIN disk \subseteq Files /\ IsFiniteSet(DOMAIN disk)
  BY DEF FileInv, SizeInv
<1>6. disk'[current] \o buf' = disk[current] \o buf
  <2>1. disk[current] \in PartSeq
    BY <1>2, <1>5
  <2>2. (disk[current] \o a) \o buf' = disk[current] \o (a \o buf')
    BY <1>3, <2>1, PartSeqs
  <2> QED
    BY <1>3, <1>4, <2>2
<1>7. SizeInv'
  BY <1>2, <1>4, <1>6 DEF SizeInv
<1>8. ASSUME Orderly' PROVE OrderInv'
  <2>1. Orderly
    BY <1>8, WasOrderly
  <2>2. EndsAt(DOMAIN disk, current) /\ Story(disk) \o buf = log
    BY <1>2, <2>1 DEF OrderInv
  <2>3. Story(disk') = Story(disk) \o a
    BY <1>2, <1>3, <1>4, <1>5, <2>2, StoryGrows
  <2>4. Story(disk') \o buf' = log'
    <3>1. Story(disk) \in PartSeq
      BY <1>5, StoryType
    <3>2. (Story(disk) \o a) \o buf' = Story(disk) \o (a \o buf')
      BY <1>3, <3>1, PartSeqs
    <3> QED
      BY <1>2, <1>3, <2>2, <2>3, <3>2
  <2>5. Bytes(disk'[current]) < roll_size + Longest
    <3>1. disk'[current] \in PartSeq
      BY <1>2, <1>3, <1>4, <1>5, PartSeqs
    <3>2. written_bytes = Bytes(disk'[current]) + Bytes(buf')
      BY <1>2, <1>3, <1>6, <3>1, BytesConcat DEF SizeInv
    <3>3. Bytes(disk'[current]) \in Nat /\ Bytes(buf') \in Nat
      BY <1>3, <3>1, BytesType
    <3>4. written_bytes < roll_size + Longest /\ roll_size + Longest \in Nat
      BY <1>2, <2>1, SizesArePositive, LongestIs DEF OrderInv
    <3> QED
      BY <3>2, <3>3, <3>4
  <2>6. \A f \in DOMAIN disk' : Bytes(disk'[f]) < roll_size + Longest
    BY <1>4, <2>1, <2>5 DEF OrderInv
  <2> QED
    BY <1>2, <1>4, <2>1, <2>2, <2>4, <2>6 DEF OrderInv
<1> QED
  BY <1>7, <1>8 DEF OrderInv

LEMMA LineNext ==
  ASSUME FileInv, SizeInv, OrderInv, Next, NEW len \in PayloadLens, append_line(len)
  PROVE  SizeInv' /\ OrderInv'
<1>1. /\ disk' = disk /\ fp' = fp /\ buf' = buf /\ current' = current /\ pc' = "roll"
      /\ UNCHANGED <<written_bytes, current_date, current_seq, today, log, wentback>>
  BY DEF append_line, fileVars, current
<1>2. \A i \in DOMAIN todo' : todo'[i].len <= Longest
  <2>1. /\ DOMAIN todo' = 1 .. 3 /\ todo'[1].len = PrefixLen /\ todo'[2].len = len
        /\ todo'[3].len = 1
    BY DEF append_line, Part
  <2>2. \A i \in 1 .. 3 : i = 1 \/ i = 2 \/ i = 3
    OBVIOUS
  <2> QED
    BY <2>1, <2>2, LongestIs
<1>3. SizeInv'
  BY <1>1, <1>2 DEF SizeInv
<1>4. ASSUME Orderly' PROVE OrderInv'
  <2>1. Orderly
    BY <1>4, WasOrderly
  <2> QED
    BY <1>1, <2>1 DEF OrderInv
<1> QED
  BY <1>3, <1>4 DEF OrderInv

LEMMA FlushNext ==
  ASSUME FileInv, SizeInv, OrderInv, Next, flush
  PROVE  SizeInv' /\ OrderInv'
<1>1. /\ disk' = Flushed /\ buf' = <<>> /\ fp' = fp /\ current' = current /\ pc' = "idle"
      /\ UNCHANGED <<written_bytes, current_date, current_seq, todo, today, log, wentback>>
  BY DEF flush, current
<1>2. /\ DOMAIN disk' = DOMAIN disk /\ \A f \in DOMAIN disk : disk'[f] \in PartSeq
      /\ fp => current \in DOMAIN disk /\ disk'[current] = disk[current] \o buf
  BY <1>1, FlushedIs
<1>3. fp => disk'[current] \o buf' = disk[current] \o buf
  <2>1. fp => disk'[current] \in PartSeq
    BY <1>2
  <2>2. fp => disk'[current] \o <<>> = disk'[current]
    BY <2>1, PartSeqs
  <2> QED
    BY <1>1, <1>2, <2>2
<1>4. SizeInv'
  BY <1>1, <1>2, <1>3 DEF SizeInv
<1>5. ASSUME Orderly' PROVE OrderInv'
  <2>1. Orderly
    BY <1>5, WasOrderly
  <2>2. /\ Story(disk') = log
        /\ \A f \in DOMAIN disk' : Bytes(disk'[f]) < roll_size + Longest
    BY <1>1, <1>2, <2>1, FlushedInOrder
  <2>3. Story(disk') \o buf' = log'
    <3>1. log \in PartSeq
      BY DEF SizeInv
    <3> QED
      BY <1>1, <2>2, <3>1, PartSeqs
  <2> QED
    BY <1>1, <1>2, <2>1, <2>2, <2>3 DEF OrderInv
<1> QED
  BY <1>4, <1>5 DEF OrderInv

\* The process ends, its files as they are or flushed.
LEMMA EndNext ==
  ASSUME FileInv, SizeInv, OrderInv, Next, Gone, LogFileDtor \/ Killed
  PROVE  SizeInv' /\ OrderInv'
<1>1. /\ pc' = "down" /\ fp' = FALSE /\ buf' = <<>> /\ written_bytes' = 0 /\ todo' = <<>>
      /\ current_date' = NoDate /\ current_seq' = 0 /\ UNCHANGED <<today, wentback>>
  BY DEF Gone
<1>2. DOMAIN disk' = DOMAIN disk
  BY FlushedIs DEF LogFileDtor, Killed
<1>3. log \in PartSeq /\ buf \in PartSeq /\ Story(disk) \in PartSeq
  BY StoryType DEF FileInv, SizeInv
<1>4. log' \in PartSeq
  <2>1. CASE log' = log
    BY <1>3, <2>1
  <2>2. CASE log' = SubSeq(log, 1, Len(log) - Len(buf))
    <3>1. /\ log \in Seq(Parts) /\ PartSeq = Seq(Parts) /\ Len(log) \in Nat /\ Len(buf) \in Nat
      BY <1>3 DEF PartSeq, Parts
    <3>2. \A i \in 1 .. Len(log) - Len(buf) : log[i] \in Parts
      BY <3>1
    <3>3. SubSeq(log, 1, Len(log) - Len(buf)) \in Seq(Parts)
      BY <3>1, <3>2, SubSeqProperties
    <3> QED
      BY <2>2, <3>1, <3>3
  <2> QED
    BY <2>1, <2>2 DEF LogFileDtor, Killed
<1>5. SizeInv'
  <2>1. DOMAIN todo' = {}
    BY <1>1
  <2> QED
    BY <1>1, <1>2, <1>4, <2>1 DEF SizeInv
<1>6. ASSUME Orderly' PROVE OrderInv'
  <2>1. Orderly
    BY <1>6, WasOrderly
  <2>2. Story(disk) \o buf = log /\ \A f \in DOMAIN disk : f[1] <= today
    BY <2>1 DEF OrderInv
  <2>3. /\ Story(disk') \o <<>> = log'
        /\ \A f \in DOMAIN disk : Bytes(disk'[f]) < roll_size + Longest
    <3>1. CASE LogFileDtor
      <4>1. disk' = Flushed /\ log' = log
        BY <3>1 DEF LogFileDtor
      <4>2. Story(disk') = log' /\ log' \o <<>> = log'
        BY <1>4, <2>1, <4>1, FlushedInOrder, PartSeqs
      <4> QED
        BY <2>1, <4>1, <4>2, FlushedInOrder
    <3>2. CASE Killed
      <4>1. disk' = disk /\ log' = SubSeq(log, 1, Len(log) - Len(buf))
        BY <3>2 DEF Killed
      <4>2. log' = Story(disk)
        <5> DEFINE t == Story(disk)
        <5>1. t \in Seq(Parts) /\ buf \in Seq(Parts)
          BY <1>3 DEF PartSeq, Parts
        <5> HIDE DEF t
        <5>2. Len(t) \in Nat /\ Len(buf) \in Nat /\ Len(t \o buf) = Len(t) + Len(buf)
          BY <5>1, ConcatProperties
        <5>3. log' = SubSeq(t \o buf, 1, Len(t))
          <6>1. Len(log) - Len(buf) = Len(t)
            BY <2>2, <5>2 DEF t
          <6> QED
            BY <2>2, <4>1, <6>1 DEF t
        <5>4. SubSeq(t \o buf, 1, Len(t)) = SubSeq(t, 1, Len(t))
          <6>1. CASE Len(t) = 0
            BY <5>2, <6>1, SubSeqEmpty
          <6>2. CASE Len(t) # 0
            <7>1. 1 \in 1 .. Len(t) /\ Len(t) \in 1 .. Len(t)
              BY <5>2, <6>2
            <7> QED
              BY <5>1, <7>1, SubSeqOfConcat1
          <6> QED
            BY <6>1, <6>2
        <5>5. SubSeq(t, 1, Len(t)) = t
          BY <5>1, SubSeqFull
        <5> QED
          BY <5>3, <5>4, <5>5 DEF t
      <4>3. Story(disk) \o <<>> = Story(disk)
        BY <1>3, PartSeqs
      <4> QED
        BY <2>1, <4>1, <4>2, <4>3 DEF OrderInv
    <3> QED
      BY <3>1, <3>2
  <2> QED
    BY <1>1, <1>2, <2>2, <2>3 DEF OrderInv
<1> QED
  BY <1>5, <1>6 DEF OrderInv

LEMMA DayNext ==
  ASSUME FileInv, SizeInv, OrderInv, Next, NEW d \in 1 .. Days, NextDay(d)
  PROVE  SizeInv' /\ OrderInv'
<1>1. /\ disk' = disk /\ fp' = fp /\ buf' = buf /\ current' = current /\ today' = d
      /\ wentback' = (wentback \/ d < today)
      /\ UNCHANGED <<written_bytes, current_date, current_seq, pc, todo, log>>
  BY DEF NextDay, fileVars, current
<1>2. wentback' \in BOOLEAN
  BY <1>1
<1>3. SizeInv'
  BY <1>1, <1>2 DEF SizeInv
<1>4. ASSUME Orderly' PROVE OrderInv'
  <2>1. Orderly
    BY <1>4, WasOrderly
  <2>2. today <= d /\ today \in Nat /\ d \in Nat /\ current_date \in Nat
    <3>1. today \in Nat /\ d \in Nat /\ current_date \in Nat
      BY BoundsAreNatural DEF SizeInv, NoDate
    <3>2. ~wentback'
      BY <1>4 DEF Orderly
    <3>3. ~(d < today)
      BY <1>1, <3>2, Zenon
    <3> QED
      BY <3>1, <3>3
  <2>3. \A f \in DOMAIN disk : f[1] \in Nat
    BY BoundsAreNatural DEF SizeInv, Files
  <2>4. (\A f \in DOMAIN disk : f[1] <= d) /\ (current_date # NoDate => current_date <= d)
    BY <2>1, <2>2, <2>3 DEF OrderInv
  <2> QED
    BY <1>1, <2>1, <2>4 DEF OrderInv
<1> QED
  BY <1>3, <1>4 DEF OrderInv

LEMMA InitSizeOrder ==
  ASSUME Init
  PROVE  SizeInv /\ OrderInv
<1>1. /\ DOMAIN disk = {} /\ fp = FALSE /\ buf = <<>> /\ todo = <<>> /\ pc = "down"
      /\ written_bytes = 0 /\ current_date = NoDate /\ current_seq = 0 /\ today = 1
      /\ log = <<>> /\ wentback = FALSE
  BY DEF Init
<1>2. IsFiniteSet(DOMAIN disk) /\ DOMAIN todo = {}
  BY <1>1, FS_EmptySet
<1>3. 1 \in 1 .. Days
  BY BoundsAreNatural
<1>4. SizeInv
  BY <1>1, <1>2, <1>3, PartSeqs DEF SizeInv
<1>5. Story(disk) \o buf = log
  BY <1>1, StoryOfNone, PartSeqs
<1> QED
  BY <1>1, <1>4, <1>5 DEF OrderInv

LEMMA SizeOrderNext ==
  ASSUME FileInv, SizeInv, OrderInv, Next
  PROVE  SizeInv' /\ OrderInv'
<1>1. CASE LogFileCtor
  BY <1>1, RollNext DEF LogFileCtor
<1>2. CASE AppendRolls
  BY <1>2, RollNext DEF AppendRolls
<1>3. CASE AppendWrites
  BY <1>3, WriteNext
<1>4. CASE StdioWrites
  BY <1>4, StdioNext
<1>5. CASE \E len \in PayloadLens : append_line(len)
  BY <1>5, LineNext
<1>6. CASE flush
  BY <1>6, FlushNext
<1>7. CASE LogFileDtor \/ Killed
  <2>1. Gone
    BY <1>7 DEF LogFileDtor, Killed
  <2> QED
    BY <1>7, <2>1, EndNext
<1>8. CASE \E d \in 1 .. Days : NextDay(d)
  BY <1>8, DayNext
<1> QED
  BY <1>1, <1>2, <1>3, <1>4, <1>5, <1>6, <1>7, <1>8 DEF Next

LEMMA SizeOrderStutter ==
  ASSUME SizeInv, OrderInv, UNCHANGED vars
  PROVE  SizeInv' /\ OrderInv'
<1>1. /\ current' = current
      /\ UNCHANGED <<disk, fp, buf, written_bytes, current_date, current_seq, pc, todo, today,
                     log, wentback>>
  BY DEF vars, fileVars, current
<1>2. SizeInv'
  BY <1>1 DEF SizeInv
<1>3. Orderly' = Orderly
  BY <1>1 DEF Orderly, NumbersInReach
<1> QED
  BY <1>1, <1>2, <1>3 DEF OrderInv

-----------------------------------------------------------------------------
(* The theorems.                                                           *)

\* Whatever is opened, rolled, flushed, killed and restarted: the file that is open
\* exists, and stdio holds no more than was written since the timer flushed.
THEOREM FilesAreSound == Spec => []FileInv
<1>1. FileInv /\ [Next]_vars => FileInv'
  BY NextKeeps, StutterKeeps
<1> QED
  BY InitFileInv, <1>1, PTL DEF Spec

\* open_file's "a" and the numbers that only grow (src/log_server/log_file.h:23):
\* whatever is killed, reopened or rolled, no file loses a byte it had.
THEOREM FilesOnlyGrow == Spec => AppendOnly
<1> DEFINE Grows == \A f \in DOMAIN disk : f \in DOMAIN disk' /\ IsPrefix(disk[f], disk'[f])
<1>1. FileInv /\ [Next]_vars => Grows
  BY NextKeeps, StutterKeeps DEF Kept
<1>2. FileInv /\ [Next]_vars => [Grows]_vars
  BY <1>1
<1> QED
  BY FilesAreSound, <1>2, PTL DEF Spec, AppendOnly

\* src/log_server/main.cpp:52: what a kill can cost is bounded by what was written
\* since the timer's last flush.
THEOREM KillCostsLittle == Spec => []KillCostsOneInterval
<1>1. FileInv => KillCostsOneInterval
  BY DEF FileInv, KillCostsOneInterval
<1> QED
  BY FilesAreSound, <1>1, PTL

\* With it, written_bytes_ stays the size of the open file, and the open file the
\* last by day and number, as the constructor and roll_if_needed choose it.
THEOREM FilesAreInOrder == Spec => [](FileInv /\ SizeInv /\ OrderInv)
<1>1. Init => FileInv /\ SizeInv /\ OrderInv
  BY InitFileInv, InitSizeOrder
<1>2. FileInv /\ SizeInv /\ OrderInv /\ [Next]_vars => (FileInv /\ SizeInv /\ OrderInv)'
  BY NextKeeps, StutterKeeps, SizeOrderNext, SizeOrderStutter
<1> QED
  BY <1>1, <1>2, PTL DEF Spec

\* The members of LogFile, the files and the lines keep their types through append,
\* roll_if_needed, flush, kills and restarts.
THEOREM TypeCorrect == Spec => []TypeOK
<1>1. FileInv /\ SizeInv => TypeOK
  BY DEF FileInv, SizeInv, TypeOK
<1> QED
  BY FilesAreInOrder, <1>1, PTL

\* roll_if_needed goes by written_bytes_, which open_file reads back from the file: it
\* is the size of the open file, so no file outgrows roll_size_ by a whole part.
THEOREM NoFileGrowsTooLong == Spec => []NoFileOverfull
<1>1. FileInv /\ SizeInv /\ OrderInv => NoFileOverfull
  BY DEF FileInv, SizeInv, OrderInv, Orderly, NoFileOverfull
<1> QED
  BY FilesAreInOrder, <1>1, PTL

\* src/log_server/log_file.h:9-14: the files by day and number, then stdio's buffer,
\* are what append wrote, in its order, across rolls, days, kills and restarts.
THEOREM StoryIsTold == Spec => []FilesTellTheStory
<1>1. OrderInv => FilesTellTheStory
  BY DEF OrderInv, Orderly, FilesTellTheStory
<1> QED
  BY FilesAreInOrder, <1>1, PTL

=============================================================================
