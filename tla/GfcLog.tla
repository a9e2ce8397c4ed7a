------------------------------- MODULE GfcLog -------------------------------
(***************************************************************************)
(* The log of the gfc library (3rd/gfc-0.1.1/src/gfc_log.c), which the     *)
(* threads of the agent share.  Every logging function calls gfc_log_open, *)
(* which opens the file and at the first call of a new day renames it to   *)
(* the backup of the old one.  gfc_log_open holds a mutex; the writes that *)
(* follow it do not, and each of them reads _gfc_log_file again.           *)
(*                                                                         *)
(* The first gfc_log_open of a process takes the date of a log it finds    *)
(* from gmtime, all others from localtime.                                 *)
(*                                                                         *)
(* The clock counts half days, from the afternoon of day 1: in a time zone *)
(* east of Greenwich the first half of a day is still the day before by    *)
(* gmtime.                                                                 *)
(***************************************************************************)
EXTENDS Naturals, FiniteSets

CONSTANTS
    Threads,    \* the threads that log
    None,       \* no thread; no file
    Zones,      \* where the agent may run: "utc", "east" of Greenwich
    MaxTime,    \* bound: the last half day
    MaxStarts,  \* bound: processes
    MaxLines    \* bound: lines a thread logs in one process

Start == 3

ASSUME LogConstants ==
    /\ None \notin Threads
    /\ Zones \subseteq {"utc", "east"}
    /\ MaxTime \in Nat /\ MaxTime >= Start
    /\ MaxStarts \in Nat \ {0} /\ MaxLines \in Nat

VARIABLES
    zone, time,     \* the clock on the wall
    log,            \* the file <app>.log, or None
    backup,         \* the files <app>-<date>.log, by day
    starts, born,   \* the number of the process and when it began
    crashed,        \* it has written through a pointer to no file
    file,           \* _gfc_log_file: a stream or NULL
    date,           \* _gfc_log_year, _gfc_log_month, _gfc_log_day
    holder,         \* who holds _gfc_log_lock
    pc, now, arg,   \* by thread: statement, its day, the stream read last
    count,          \* lines a thread has begun in this process
    returned        \* lines whose logging function has returned

disk == <<log, backup>>
clock == <<zone, time>>
calls == <<pc, now, arg, count>>
vars == <<clock, disk, starts, born, crashed, file, date, holder, calls, returned>>

Half == Start .. MaxTime
LocalDay(t) == t \div 2
GmDay(t) == IF zone = "east" THEN (t - 1) \div 2 ELSE t \div 2
Days == 0 .. MaxTime \div 2
Unset == 0      \* _gfc_log_year == 0

Line(t) == [start |-> starts, by |-> t, n |-> count[t]]
Lines == [start : 1 .. MaxStarts, by : Threads, n : 1 .. MaxLines]

\* A line is printed in two pieces: "[INFO] <time> - " and the rest.
Pieces == {"head", "rest"}
Piece(l, p) == [line |-> l, piece |-> p]

\* Files are told apart by what they hold and by their time of last change.
File == [text : SUBSET [line : Lines, piece : Pieces], changed : Half]

ASSUME NoFile == None \notin File

\* _gfc_log_file is NULL before any fopen and after one that failed.
IsNull(f) == f \in {"null", "failed"}

Init ==
    /\ zone \in Zones /\ time = Start
    /\ log = None /\ backup = [d \in Days |-> None]
    /\ starts = 1 /\ born = Start /\ crashed = FALSE
    /\ file = "null" /\ date = Unset /\ holder = None
    /\ pc = [t \in Threads |-> "idle"] /\ now = [t \in Threads |-> 0]
    /\ arg = [t \in Threads |-> "none"] /\ count = [t \in Threads |-> 0]
    /\ returned = {}

At(t, p) == ~crashed /\ pc[t] = p
Goto(t, p) == pc' = [pc EXCEPT ![t] = p]

-----------------------------------------------------------------------------
(* gfc_log_open.                                                           *)

\* The date the process keeps once it has looked at a log it did not write.
FirstDate ==
    IF date # Unset THEN date
    ELSE IF log = None THEN LocalDay(time) ELSE GmDay(log.changed)

\* Mutant: there is no mutex.
EnterAnyway(t) ==
    /\ At(t, "idle") /\ count[t] < MaxLines
    /\ holder' = t
    /\ now' = [now EXCEPT ![t] = LocalDay(time)]
    /\ date' = FirstDate
    /\ count' = [count EXCEPT ![t] = @ + 1]
    /\ Goto(t, "compare")
    /\ UNCHANGED <<clock, disk, starts, born, crashed, file, arg, returned>>

Enter(t) ==
    /\ At(t, "idle") /\ count[t] < MaxLines
    /\ holder = None /\ holder' = t
    /\ now' = [now EXCEPT ![t] = LocalDay(time)]
    /\ date' = FirstDate
    /\ count' = [count EXCEPT ![t] = @ + 1]
    /\ Goto(t, "compare")
    /\ UNCHANGED <<clock, disk, starts, born, crashed, file, arg, returned>>

OtherDay(t) == pc[t] = "compare" /\ date # now[t]

\* Threads that have read the pointer before keep it.
Fclose(t) ==
    /\ At(t, "compare") /\ OtherDay(t) /\ ~IsNull(file)
    /\ file' = "closed"
    /\ arg' = [u \in Threads |-> IF arg[u] = "live" THEN "stale" ELSE arg[u]]
    /\ Goto(t, "rename")
    /\ UNCHANGED <<clock, disk, starts, born, crashed, date, holder, now, count, returned>>

\* rename replaces a backup of the same name, and fails if there is no log.
Renamed == [backup EXCEPT ![date] = IF log = None THEN @ ELSE log]

\* Mutant: the day of the new file is not kept.
RenameUndated(t) ==
    /\ ~crashed
    /\ pc[t] = "rename" \/ (OtherDay(t) /\ IsNull(file))
    /\ file' = IF IsNull(file) THEN file ELSE "null"
    /\ backup' = Renamed /\ log' = None
    /\ Goto(t, "open")
    /\ UNCHANGED <<clock, starts, born, crashed, date, holder, now, arg, count, returned>>

Rename(t) ==
    /\ ~crashed
    /\ pc[t] = "rename" \/ (OtherDay(t) /\ IsNull(file))
    /\ file' = IF IsNull(file) THEN file ELSE "null"
    /\ backup' = Renamed /\ log' = None
    /\ date' = now[t]
    /\ Goto(t, "open")
    /\ UNCHANGED <<clock, starts, born, crashed, holder, now, arg, count, returned>>

\* Mutant: the file is opened with "w+".
OpenedEmpty == [text |-> {}, changed |-> time]

Opened == IF log = None THEN [text |-> {}, changed |-> time] ELSE log

\* The end of gfc_log_open; fopen fails without memory, descriptors or room.
Fopen(t) ==
    /\ ~crashed
    /\ pc[t] = "open" \/ (pc[t] = "compare" /\ ~OtherDay(t))
    /\ \/ ~IsNull(file) /\ UNCHANGED <<file, log>>
       \/ IsNull(file) /\ file' = "open" /\ log' = Opened
       \/ IsNull(file) /\ file' = "failed" /\ UNCHANGED log
    /\ holder' = None
    /\ Goto(t, "head")
    /\ UNCHANGED <<clock, backup, starts, born, crashed, date, now, arg, count, returned>>

gfc_log_open(t) == Enter(t) \/ Fclose(t) \/ Rename(t) \/ Fopen(t)

-----------------------------------------------------------------------------
(* The prints of gfc_log_info, gfc_log_warn, gfc_log_debug and             *)
(* gfc_log_error.                                                          *)

\* _gfc_log_file is read as the argument of the next fprintf.
ReadFile(t) ==
    /\ ~crashed /\ pc[t] \in Pieces /\ arg[t] = "none"
    /\ arg' = [arg EXCEPT ![t] =
                  CASE IsNull(file) -> file
                    [] file = "open" -> "live"
                    [] file = "closed" -> "stale"]
    /\ UNCHANGED <<clock, disk, starts, born, crashed, file, date, holder, pc, now,
                   count, returned>>

\* The end of a print; fflush follows the last one.
Printed(t) ==
    /\ arg' = [arg EXCEPT ![t] = "none"]
    /\ Goto(t, IF pc[t] = "head" THEN "rest" ELSE "idle")
    /\ returned' = IF pc[t] = "head" THEN returned ELSE returned \cup {Line(t)}

\* The piece reaches the file of the log.
Append(t) ==
    log' = [text |-> log.text \cup {Piece(Line(t), pc[t])},
            changed |-> IF pc[t] = "head" THEN log.changed ELSE time]

PrintLive(t) ==
    /\ ~crashed /\ pc[t] \in Pieces /\ arg[t] = "live"
    /\ Append(t) /\ Printed(t)
    /\ UNCHANGED <<clock, backup, starts, born, crashed, file, date, holder, now, count>>

\* The stream was closed since it was read: the memory may be gone, nobody's,
\* or that of the stream opened next.
PrintStale(t) ==
    /\ ~crashed /\ pc[t] \in Pieces /\ arg[t] = "stale"
    /\ \/ crashed' = TRUE /\ UNCHANGED <<log, pc, arg, returned>>
       \/ UNCHANGED <<crashed, log>> /\ Printed(t)
       \/ file = "open" /\ Append(t) /\ Printed(t) /\ UNCHANGED crashed
    /\ UNCHANGED <<clock, backup, starts, born, file, date, holder, now, count>>

PrintNull(t) ==
    /\ ~crashed /\ pc[t] \in Pieces /\ IsNull(arg[t])
    /\ crashed' = TRUE
    /\ UNCHANGED <<clock, disk, starts, born, file, date, holder, calls, returned>>

gfc_log_info(t) ==
    gfc_log_open(t) \/ ReadFile(t) \/ PrintLive(t) \/ PrintStale(t) \/ PrintNull(t)

-----------------------------------------------------------------------------
\* Half a day passes.
Tick ==
    /\ time < MaxTime /\ time' = time + 1
    /\ UNCHANGED <<zone, disk, starts, born, crashed, file, date, holder, calls, returned>>

\* The process ends, in whatever it is doing, and gfc_log_init begins another.
gfc_log_init ==
    /\ starts < MaxStarts
    /\ starts' = starts + 1 /\ born' = time /\ crashed' = FALSE
    /\ file' = "null" /\ date' = Unset /\ holder' = None
    /\ pc' = [t \in Threads |-> "idle"] /\ now' = [t \in Threads |-> 0]
    /\ arg' = [t \in Threads |-> "none"] /\ count' = [t \in Threads |-> 0]
    /\ UNCHANGED <<clock, disk, returned>>

Next == Tick \/ gfc_log_init \/ \E t \in Threads : gfc_log_info(t)

Spec == Init /\ [][Next]_vars

-----------------------------------------------------------------------------
(* Properties.                                                             *)

\* gfc_log_open leaves no state behind that its callers cannot handle: the
\* variables are well typed, and only the holder of the mutex is inside it.
TypeOK ==
    /\ zone \in Zones /\ time \in Half
    /\ log \in File \cup {None} /\ backup \in [Days -> File \cup {None}]
    /\ starts \in 1 .. MaxStarts /\ born \in Start .. time /\ crashed \in BOOLEAN
    /\ file \in {"null", "failed", "open", "closed"}
    /\ date \in Days
    /\ pc \in [Threads -> {"idle", "compare", "rename", "open"} \cup Pieces]
    /\ now \in [Threads -> Days]
    /\ arg \in [Threads -> {"none", "live", "stale", "null", "failed"}]
    /\ count \in [Threads -> 0 .. MaxLines] /\ returned \subseteq Lines
    /\ \A t \in Threads : pc[t] \in {"compare", "rename", "open"} <=> holder = t

Text(f) == IF f = None THEN {} ELSE f.text
Whole(l, text) == \A p \in Pieces : Piece(l, p) \in text
Stored(l) == Whole(l, Text(log) \cup UNION {Text(backup[d]) : d \in Days})

\* No rotation loses a line again that was stored, in whatever order threads,
\* midnights and restarts come; but east of Greenwich the first gfc_log_open
\* of a process may rename the log over the backup of the day before, with
\* the lines of the processes before it.
KeepsStored ==
    [][\A l \in returned : Stored(l) =>
           Stored(l)' \/ (zone = "east" /\ l.start < starts)]_vars

\* Until the first midnight a process sees, its threads lose no line and write
\* none into another day's file, although they write outside the mutex and the
\* first of them may rotate the log; it crashes only if fopen has failed.
SafeUntilMidnight ==
    LocalDay(time) = LocalDay(born) =>
        /\ \A l \in returned : l.start = starts => Whole(l, Text(log))
        /\ crashed => \E t \in Threads : arg[t] = "failed"
=============================================================================
