------------------------------- MODULE LogFile -------------------------------
(***************************************************************************)
(* LogFile (src/log_server/log_file.cpp) as log_server's single loop       *)
(* thread uses it: lines of decoded frames are appended, a timer flushes,  *)
(* the file is changed when it is full and when the day changes, and the   *)
(* process ends in order or is killed and starts again.                    *)
(*                                                                         *)
(* A file is the sequence of the parts written to it.  append_line() calls *)
(* append() for the prefix, the payload and the newline, and each looks at *)
(* the clock: the day may change, and the process may be killed, between   *)
(* any two steps.  What stdio holds back is in buf; it goes to the kernel  *)
(* when stdio likes, when the file is flushed or closed, and is gone when  *)
(* the process is killed.                                                  *)
(***************************************************************************)
EXTENDS Integers, Sequences, FiniteSets, FiniteSetsExt, SequencesExt

CONSTANTS
    roll_size,      \* roll_size_
    kMaxSeq,        \* the largest number scan_today_max_seq accepts
    PrefixLen,      \* length of "[YYYY-MM-DD HH:MM:SS.mmm] "
    PayloadLens,    \* lengths of payloads
    Days,           \* bound: the days are 1 .. Days
    MaxLines        \* bound: lines appended

ASSUME SizesArePositive ==
    /\ roll_size \in Nat \ {0} /\ kMaxSeq \in Nat \ {0} /\ PrefixLen \in Nat \ {0}
    /\ PayloadLens \subseteq Nat \ {0} /\ IsFiniteSet(PayloadLens) /\ PayloadLens # {}
ASSUME BoundsAreNatural == Days \in Nat \ {0} /\ MaxLines \in Nat

NoDate == 0         \* an empty current_date_

VARIABLES
    disk,           \* the files in basedir_ by <<day, seq>>
    fp,             \* fp_ is not null; the file is <<current_date, current_seq>>
    buf,            \* parts written to fp_ that stdio holds
    written_bytes, current_date, current_seq,
    pc,             \* "idle", in append() before or after roll_if_needed
                    \* ("roll", "write"), or "down": no process
    todo,           \* parts of the line in hand that are still to be appended
    today,          \* the system's date
    lines,          \* history: number of lines so far
    log,            \* history: parts written and not lost when the process was killed
    recent,         \* history: number of parts written since the timer flushed
    wentback        \* history: the date went back

fileVars == <<disk, fp, buf, written_bytes, current_date, current_seq>>
vars == <<fileVars, pc, todo, today, lines, log, recent, wentback>>

Part(n, what, len) == [line |-> n, what |-> what, len |-> len]
Bytes(s) == FoldLeft(LAMBDA total, p : total + p.len, 0, s)

current == <<current_date, current_seq>>

\* scan_today_max_seq on the files df.
scan_today_max_seq(df, day) ==
    LET seqs == {f[2] : f \in {g \in DOMAIN df : g[1] = day /\ g[2] <= kMaxSeq}}
    IN  IF seqs = {} THEN 0 ELSE Max(seqs)

\* The files after fp_, if there is one, is flushed.
Flushed == IF fp THEN [disk EXCEPT ![current] = @ \o buf] ELSE disk

\* Mutant: the file is opened for writing, not for appending.
open_file_Truncates(day, seq) ==
    /\ current_date' = day /\ current_seq' = seq /\ buf' = <<>> /\ fp' = TRUE
    /\ disk' = [f \in DOMAIN Flushed \cup {<<day, seq>>} |->
                    IF f = <<day, seq>> THEN <<>> ELSE Flushed[f]]
    /\ written_bytes' = 0

\* Mutant: written_bytes_ starts at zero in a file that is continued.
open_file_CountsFromZero(day, seq) ==
    /\ current_date' = day /\ current_seq' = seq /\ buf' = <<>> /\ fp' = TRUE
    /\ disk' = [f \in DOMAIN Flushed \cup {<<day, seq>>} |->
                    IF f \in DOMAIN Flushed THEN Flushed[f] ELSE <<>>]
    /\ written_bytes' = 0

\* open_file with current_date_ and current_seq_ set to day and seq.  fopen may
\* fail; else it creates the file or continues it.
open_file(day, seq) ==
    /\ current_date' = day /\ current_seq' = seq /\ buf' = <<>>
    /\ \/ /\ fp' = FALSE
          /\ disk' = Flushed
          /\ written_bytes' = 0
       \/ /\ fp' = TRUE
          /\ disk' = [f \in DOMAIN Flushed \cup {<<day, seq>>} |->
                          IF f \in DOMAIN Flushed THEN Flushed[f] ELSE <<>>]
          /\ written_bytes' = Bytes(disk'[<<day, seq>>])

\* The number roll_if_needed starts with when no file is open: the last file of
\* the day if it is not full.
FirstSeq ==
    LET m == scan_today_max_seq(disk, today)
    IN  IF m = 0 THEN 1
        ELSE IF Bytes(disk[<<today, m>>]) < roll_size THEN m
        ELSE m + 1

NewDay == current_date # NoDate /\ today # current_date

roll_if_needed ==
    \/ NewDay /\ open_file(today, 1)
    \/ ~NewDay /\ fp /\ written_bytes >= roll_size
           /\ open_file(current_date, current_seq + 1)
    \/ ~NewDay /\ ~fp /\ open_file(today, FirstSeq)
    \/ ~NewDay /\ fp /\ written_bytes < roll_size /\ UNCHANGED fileVars

-----------------------------------------------------------------------------
Init ==
    /\ disk = [f \in {} |-> <<>>]
    /\ fp = FALSE /\ buf = <<>> /\ written_bytes = 0
    /\ current_date = NoDate /\ current_seq = 0
    /\ pc = "down" /\ todo = <<>>
    /\ today = 1
    /\ lines = 0 /\ log = <<>> /\ recent = 0 /\ wentback = FALSE

historyVars == <<today, lines, log, recent, wentback>>

\* The process starts; the constructor opens a file.
LogFileCtor ==
    /\ pc = "down"
    /\ roll_if_needed
    /\ pc' = "idle"
    /\ UNCHANGED <<todo, historyVars>>

\* The message callback has a frame with a payload of len bytes: append_line.
append_line(len) ==
    /\ pc = "idle" /\ lines < MaxLines
    /\ lines' = lines + 1
    /\ todo' = <<Part(lines', "prefix", PrefixLen), Part(lines', "payload", len),
                 Part(lines', "newline", 1)>>
    /\ pc' = "roll"
    /\ UNCHANGED <<fileVars, today, log, recent, wentback>>

\* append: first the file is changed if need be,
AppendRolls ==
    /\ pc = "roll"
    /\ roll_if_needed
    /\ pc' = "write"
    /\ UNCHANGED <<todo, historyVars>>

\* then the part is written; without a file it is dropped.
AppendWrites ==
    /\ pc = "write"
    /\ todo' = Tail(todo)
    /\ pc' = IF Len(todo) = 1 THEN "idle" ELSE "roll"
    /\ \/ /\ fp
          /\ buf' = Append(buf, todo[1])
          /\ written_bytes' = written_bytes + todo[1].len
          /\ log' = Append(log, todo[1])
          /\ recent' = recent + 1
       \/ ~fp /\ UNCHANGED <<buf, written_bytes, log, recent>>
    /\ UNCHANGED <<disk, fp, current_date, current_seq, today, lines, wentback>>

\* stdio writes some of what it holds.
StdioWrites ==
    /\ fp
    /\ \E k \in 1 .. Len(buf) :
          /\ disk' = [disk EXCEPT ![current] = @ \o SubSeq(buf, 1, k)]
          /\ buf' = SubSeq(buf, k + 1, Len(buf))
    /\ UNCHANGED <<fp, written_bytes, current_date, current_seq, pc, todo, historyVars>>

\* Mutant: the timer flushes nothing.
flush_Forgotten ==
    /\ pc = "idle"
    /\ recent' = 0
    /\ UNCHANGED <<fileVars, pc, todo, today, lines, log, wentback>>

\* The timer of log_server's main: flush, and the next one is set.
flush ==
    /\ pc = "idle"
    /\ disk' = Flushed
    /\ buf' = <<>>
    /\ recent' = 0
    /\ UNCHANGED <<fp, written_bytes, current_date, current_seq, pc, todo, today,
                   lines, log, wentback>>

\* The members are gone with the process.
Gone ==
    /\ pc' = "down"
    /\ fp' = FALSE /\ buf' = <<>> /\ written_bytes' = 0
    /\ current_date' = NoDate /\ current_seq' = 0
    /\ todo' = <<>>
    /\ recent' = 0
    /\ UNCHANGED <<today, lines, wentback>>

\* Mutant: the destructor closes the descriptor under the stream.
LogFileDtor_NoFlush ==
    /\ pc = "idle"
    /\ Gone
    /\ UNCHANGED <<disk, log>>

\* A signal ends the loop and main returns: the destructor.
LogFileDtor ==
    /\ pc = "idle"
    /\ disk' = Flushed
    /\ Gone
    /\ UNCHANGED log

\* The process is killed.
Killed ==
    /\ pc # "down"
    /\ log' = SubSeq(log, 1, Len(log) - Len(buf))
    /\ Gone
    /\ UNCHANGED disk

\* The date changes.
NextDay(d) ==
    /\ d # today
    /\ today' = d
    /\ wentback' = (wentback \/ d < today)
    /\ UNCHANGED <<fileVars, pc, todo, lines, log, recent>>

Next ==
    \/ LogFileCtor \/ AppendRolls \/ AppendWrites \/ StdioWrites
    \/ \E len \in PayloadLens : append_line(len)
    \/ flush \/ LogFileDtor \/ Killed
    \/ \E d \in 1 .. Days : NextDay(d)

Spec == Init /\ [][Next]_vars

-----------------------------------------------------------------------------
(* Properties.                                                             *)

Files == (1 .. Days) \X (Nat \ {0})
PartSeq == Seq([line : Nat, what : {"prefix", "payload", "newline"}, len : Nat])

TypeOK ==
    /\ DOMAIN disk \subseteq Files /\ \A f \in DOMAIN disk : disk[f] \in PartSeq
    /\ fp \in BOOLEAN /\ buf \in PartSeq /\ written_bytes \in Nat
    /\ current_date \in {NoDate} \cup (1 .. Days) /\ current_seq \in Nat
    /\ pc \in {"idle", "roll", "write", "down"} /\ todo \in PartSeq
    /\ today \in 1 .. Days /\ lines \in Nat /\ log \in PartSeq /\ recent \in Nat
    /\ wentback \in BOOLEAN

\* scan_today_max_seq passes over a number above kMaxSeq, so a process that starts
\* on a day with such a file continues one that is not the last.
NumbersInReach == \A f \in DOMAIN disk : f[2] <= kMaxSeq

Longest == Max(PayloadLens \cup {PrefixLen})

\* The file that is open is there and written_bytes_ is its size, with what stdio
\* holds: after a restart, after a failed open, after the date went back.  So no
\* file outgrows roll_size_ by a whole part, unless the date goes back or a number
\* passes kMaxSeq and an earlier file gets a part more than it should.
NoFileOverfull ==
    /\ fp => current \in DOMAIN disk /\ written_bytes = Bytes(disk[current] \o buf)
    /\ ~wentback /\ NumbersInReach =>
          \A f \in DOMAIN disk : Bytes(disk[f]) < roll_size + Longest

Before(f, g) == f[1] < g[1] \/ (f[1] = g[1] /\ f[2] < g[2])

\* The last file of the set s, and the contents of all files one after the other.
LastOf(s) == CHOOSE f \in s : \A g \in s : g = f \/ Before(g, f)
Story(d) ==
    MapThenFoldSet(LAMBDA last, rest : rest \o last, <<>>, LAMBDA f : d[f], LastOf, DOMAIN d)

\* src/log_server/log_file.h:9-14: the files, by day and number, tell what was
\* written in the order it was written, and the rest is in stdio's buffer;
\* nothing is missing but what stdio held when the process was killed.  It holds
\* as long as the date does not go back, which makes day and number start again,
\* and no number passes kMaxSeq.
FilesTellTheStory == ~wentback /\ NumbersInReach => Story(disk) \o buf = log

\* src/log_server/log_file.h:23: files are only added to, whatever the date does
\* and however often the process starts again.
AppendOnly ==
    [][\A f \in DOMAIN disk : f \in DOMAIN disk' /\ IsPrefix(disk[f], disk'[f])]_vars

\* src/log_server/main.cpp:52: a kill costs no more than what came since the timer
\* flushed.
KillCostsOneInterval == Len(buf) <= recent

=============================================================================
