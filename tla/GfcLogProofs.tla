---------------------------- MODULE GfcLogProofs ----------------------------
(***************************************************************************)
(* Theorems about the log of GfcLog, for any number of threads, lines,     *)
(* days and restarts: no rotation loses a stored line, but for the first   *)
(* one of a process east of Greenwich, and until its first midnight a      *)
(* process keeps every line it has logged.                                 *)
(***************************************************************************)
EXTENDS GfcLog, Integers, TLAPS

\* Inside gfc_log_open, and between it and the return of the line.
Critical(t) == pc[t] \in {"compare", "rename", "open"}
Printing(t) == pc[t] \in Pieces

\* The stream of the log is open on the log, and is closed for a moment only.
FileInv ==
    /\ \A t \in Threads : pc[t] # "idle" => count[t] > 0
    /\ file = "open" => log # None
    /\ \A t \in Threads : arg[t] = "live" => file = "open"
    /\ \A t \in Threads : pc[t] = "rename" => file = "closed"
    /\ \A t \in Threads : pc[t] = "open" => IsNull(file)
    /\ file = "closed" => \E t \in Threads : pc[t] = "rename"

\* The date the process keeps runs behind the clock, and not before the last
\* change of the log.
DateInv ==
    /\ \A t \in Threads : pc[t] # "idle" => date # Unset
    /\ \A t \in Threads : pc[t] = "compare" => date <= now[t]
    /\ \A t \in Threads : pc[t] = "rename" => date < now[t]
    /\ \A t \in Threads : pc[t] = "open" => date = now[t]
    /\ \A t \in Threads : now[t] <= LocalDay(time)
    /\ date <= LocalDay(time)
    /\ log # None => log.changed <= time
    /\ (date # Unset /\ log # None) => date <= LocalDay(log.changed)

\* By the clock of gmtime no backup has the name the log would get.
BackupInv ==
    zone = "utc" => \A d \in Days : backup[d] # None => d < FirstDate

\* What this process wrote is where its own rotations do not reach.
OwnInv ==
    /\ \A l \in returned : l.start <= starts
    /\ \A x \in Text(log) :
           x.line.start <= starts /\ (x.line.start = starts => date # Unset)
    /\ \A d \in Days : \A x \in Text(backup[d]) :
           /\ x.line.start <= starts
           /\ x.line.start = starts => date # Unset /\ d < date

\* Before the first midnight of the process: only the first gfc_log_open may
\* rotate, and nothing has been printed before it.
Today == LocalDay(born)
MorningNow ==
    /\ \A t \in Threads : Critical(t) => now[t] = Today
    /\ file # "null" => date = Today
    /\ file # "closed"
    /\ \A t \in Threads : arg[t] \notin {"stale", "null"}
    /\ \A t \in Threads : Printing(t) => file # "null"
    /\ \A t \in Threads : pc[t] = "rest" =>
           file = "open" /\ Piece(Line(t), "head") \in Text(log)
    /\ \A l \in returned : l.start = starts => file = "open" /\ Whole(l, Text(log))
    /\ crashed => \E t \in Threads : arg[t] = "failed"
MorningInv == LocalDay(time) = Today => MorningNow

IInv ==
    TypeOK /\ FileInv /\ DateInv /\ BackupInv /\ OwnInv /\ MorningInv

-----------------------------------------------------------------------------
(* Days.                                                                   *)

LEMMA DayOrder ==
  /\ \A a, b \in Nat : a <= b => LocalDay(a) <= LocalDay(b)
  /\ \A a \in Half : /\ LocalDay(a) \in Days /\ GmDay(a) \in Days
                     /\ GmDay(a) > 0 /\ GmDay(a) <= LocalDay(a)
  /\ \A a \in Half : zone = "utc" => GmDay(a) = LocalDay(a)
  <1>1. \A a, b \in Nat : a <= b => a \div 2 <= b \div 2
    OBVIOUS
  <1>2. \A a \in Half : /\ a \div 2 \in Days /\ (a - 1) \div 2 \in Days
                        /\ (a - 1) \div 2 > 0 /\ (a - 1) \div 2 <= a \div 2
    BY LogConstants DEF Half, Start, Days
  <1>3. ASSUME NEW a \in Half
        PROVE  /\ LocalDay(a) \in Days /\ GmDay(a) \in Days
               /\ GmDay(a) > 0 /\ GmDay(a) <= LocalDay(a)
    <2>1. a \in Nat /\ a >= 3
      BY DEF Half, Start
    <2>2. LocalDay(a) \in Nat /\ LocalDay(a) > 0 /\ LocalDay(a) \in Days
      BY <1>2, <2>1 DEF LocalDay
    <2>3. CASE zone = "east"
      BY <1>2, <2>3 DEF LocalDay, GmDay
    <2>4. CASE zone # "east"
      BY <2>2, <2>4 DEF LocalDay, GmDay
    <2> QED BY <2>2, <2>3, <2>4
  <1>4. \A a \in Half : zone = "utc" => GmDay(a) = LocalDay(a)
    BY DEF LocalDay, GmDay
  <1> QED BY <1>1, <1>3, <1>4 DEF LocalDay

LEMMA FirstDateType ==
  TypeOK /\ DateInv => /\ FirstDate \in Days /\ FirstDate # Unset
                       /\ FirstDate <= LocalDay(time)
                       /\ log # None => FirstDate <= LocalDay(log.changed)
  <1> SUFFICES ASSUME TypeOK, DateInv
               PROVE  /\ FirstDate \in Days /\ FirstDate # Unset
                      /\ FirstDate <= LocalDay(time)
                      /\ log # None => FirstDate <= LocalDay(log.changed)
    OBVIOUS
  <1>1. time \in Half /\ time \in Nat /\ date \in Days /\ date <= LocalDay(time)
    BY DEF TypeOK, DateInv, Half, Start
  <1>2. log # None => /\ log.changed \in Half /\ log.changed \in Nat
                      /\ log.changed <= time
    BY DEF TypeOK, DateInv, File, Half, Start
  <1>3. CASE date # Unset
    BY <1>1, <1>3 DEF FirstDate, DateInv
  <1>4. CASE date = Unset /\ log = None
    BY <1>1, <1>4, DayOrder DEF FirstDate, Unset, Days
  <1>5. CASE date = Unset /\ log # None
    <2>1. FirstDate = GmDay(log.changed)
      BY <1>5 DEF FirstDate
    <2>2. LocalDay(log.changed) <= LocalDay(time)
      BY <1>1, <1>2, <1>5, DayOrder
    <2>3. /\ GmDay(log.changed) \in Days /\ GmDay(log.changed) > 0
          /\ GmDay(log.changed) <= LocalDay(log.changed) /\ LocalDay(log.changed) \in Days
      BY <1>2, <1>5, DayOrder
    <2>4. LocalDay(time) \in Days
      BY <1>1, DayOrder
    <2> QED BY <2>1, <2>2, <2>3, <2>4 DEF Days, Unset
  <1> QED BY <1>3, <1>4, <1>5

-----------------------------------------------------------------------------
(* Types.                                                                  *)

LEMMA Lined ==
  ASSUME TypeOK, FileInv, NEW t \in Threads, pc[t] # "idle"
  PROVE  Line(t) \in Lines
  <1>1. count[t] \in 1 .. MaxLines
    BY LogConstants DEF TypeOK, FileInv
  <1> QED BY <1>1 DEF TypeOK, Line, Lines

LEMMA TypeInit == Init => TypeOK
  <1> SUFFICES ASSUME Init PROVE TypeOK
    OBVIOUS
  <1>1. Start \in Half /\ 0 \in Days /\ Unset \in Days
    BY LogConstants DEF Half, Start, Days, Unset
  <1>2. log \in File \cup {None} /\ backup \in [Days -> File \cup {None}]
    BY DEF Init
  <1>3. now \in [Threads -> Days] /\ count \in [Threads -> 0 .. MaxLines]
    BY <1>1, LogConstants DEF Init
  <1>4. starts \in 1 .. MaxStarts /\ born \in Start .. time
    BY LogConstants DEF Init, Start
  <1>5. \A t \in Threads : pc[t] \in {"compare", "rename", "open"} <=> holder = t
    BY LogConstants DEF Init
  <1> QED BY <1>1, <1>2, <1>3, <1>4, <1>5 DEF Init, TypeOK

\* The piece that is printed makes the log a file again.
LEMMA AppendType ==
  ASSUME TypeOK, FileInv, NEW t \in Threads, Printing(t), file = "open", Append(t)
  PROVE  log' \in File
  <1>1. log \in File /\ time \in Half
    BY DEF TypeOK, FileInv
  <1>2. Piece(Line(t), pc[t]) \in [line : Lines, piece : Pieces]
    BY Lined DEF Printing, Piece, Pieces
  <1>3. log.text \cup {Piece(Line(t), pc[t])} \in SUBSET [line : Lines, piece : Pieces]
    BY <1>1, <1>2 DEF File
  <1>4. (IF pc[t] = "head" THEN log.changed ELSE time) \in Half
    BY <1>1 DEF File
  <1> QED BY <1>3, <1>4 DEF Append, File

LEMMA PrintedType ==
  ASSUME TypeOK, FileInv, NEW t \in Threads, Printing(t), Printed(t)
  PROVE  /\ arg' \in [Threads -> {"none", "live", "stale", "null", "failed"}]
         /\ pc' \in [Threads -> {"idle", "compare", "rename", "open"} \cup Pieces]
         /\ returned' \subseteq Lines
         /\ \A u \in Threads : pc'[u] \in {"compare", "rename", "open"} <=>
                               pc[u] \in {"compare", "rename", "open"}
  BY Lined DEF TypeOK, Printing, Printed, Goto, Pieces


LEMMA TypeOpen ==
  ASSUME TypeOK, FileInv, DateInv, NEW t \in Threads, gfc_log_open(t)
  PROVE  TypeOK'
  <1>1. /\ LocalDay(time) \in Days /\ FirstDate \in Days /\ now[t] \in Days
        /\ \A f : f \in 0 .. MaxLines /\ f < MaxLines => f + 1 \in 0 .. MaxLines
    BY FirstDateType, DayOrder, LogConstants DEF TypeOK
  <1>2. CASE Enter(t)
    <2>1. now' \in [Threads -> Days] /\ date' \in Days
      BY <1>1, <1>2 DEF Enter, TypeOK
    <2>2. count' \in [Threads -> 0 .. MaxLines]
      BY <1>1, <1>2 DEF Enter, TypeOK
    <2>3. /\ pc' \in [Threads -> {"idle", "compare", "rename", "open"} \cup Pieces]
          /\ \A u \in Threads : pc'[u] \in {"compare", "rename", "open"} <=> holder' = u
      BY <1>2, LogConstants DEF Enter, At, Goto, TypeOK
    <2> QED BY <1>2, <2>1, <2>2, <2>3 DEF Enter, TypeOK, clock, disk, File
  <1>3. CASE Fclose(t)
    BY <1>3 DEF Fclose, At, Goto, TypeOK, clock, disk, File, Half
  <1>4. CASE Rename(t)
    <2>1. Renamed \in [Days -> File \cup {None}]
      BY DEF Renamed, TypeOK
    <2>2. /\ pc' \in [Threads -> {"idle", "compare", "rename", "open"} \cup Pieces]
          /\ \A u \in Threads : pc'[u] \in {"compare", "rename", "open"} <=> holder' = u
      BY <1>4 DEF Rename, Goto, OtherDay, TypeOK
    <2> QED BY <1>1, <1>4, <2>1, <2>2 DEF Rename, TypeOK, clock, File, Half
  <1>5. CASE Fopen(t)
    <2>1. Opened \in File
      BY DEF Opened, TypeOK, File
    <2>2. log' \in File \cup {None} /\ file' \in {"null", "failed", "open", "closed"}
      BY <1>5, <2>1 DEF Fopen, TypeOK
    <2>3. /\ pc' \in [Threads -> {"idle", "compare", "rename", "open"} \cup Pieces]
          /\ \A u \in Threads : pc'[u] \in {"compare", "rename", "open"} <=> holder' = u
      BY <1>5, LogConstants DEF Fopen, Goto, TypeOK, Pieces
    <2> QED BY <1>5, <2>2, <2>3 DEF Fopen, TypeOK, clock, File, Half
  <1> QED BY <1>2, <1>3, <1>4, <1>5 DEF gfc_log_open

LEMMA TypePrint ==
  ASSUME TypeOK, FileInv, NEW t \in Threads,
         ReadFile(t) \/ PrintLive(t) \/ PrintStale(t) \/ PrintNull(t)
  PROVE  TypeOK'
  <1>1. CASE ReadFile(t)
    <2>1. arg' \in [Threads -> {"none", "live", "stale", "null", "failed"}]
      BY <1>1 DEF ReadFile, TypeOK, IsNull
    <2> QED BY <1>1, <2>1 DEF ReadFile, TypeOK, clock, disk, File, Half
  <1>2. CASE PrintLive(t)
    <2>1. log' \in File
      BY <1>2, AppendType DEF PrintLive, FileInv, Printing
    <2> QED BY <1>2, <2>1, PrintedType DEF PrintLive, Printing, TypeOK, clock, File, Half
  <1>3. CASE PrintStale(t)
    <2>1. log' \in File \cup {None}
      BY <1>3, AppendType DEF PrintStale, Printing, TypeOK
    <2>2. CASE Printed(t)
      BY <1>3, <2>1, <2>2, PrintedType DEF PrintStale, Printing, TypeOK, clock, File, Half
    <2>3. CASE crashed' = TRUE /\ UNCHANGED <<log, pc, arg, returned>>
      BY <1>3, <2>1, <2>3 DEF PrintStale, TypeOK, clock, File, Half
    <2> QED BY <1>3, <2>2, <2>3 DEF PrintStale
  <1>4. CASE PrintNull(t)
    BY <1>4 DEF PrintNull, TypeOK, clock, disk, calls, File, Half
  <1> QED BY <1>1, <1>2, <1>3, <1>4

LEMMA TypeStep == TypeOK /\ FileInv /\ DateInv /\ [Next]_vars => TypeOK'
  <1> SUFFICES ASSUME TypeOK, FileInv, DateInv, [Next]_vars PROVE TypeOK'
    OBVIOUS
  <1>1. CASE Tick
    <2>1. time' \in Half /\ born' \in Start .. time'
      BY <1>1, LogConstants DEF Tick, TypeOK, Half, Start
    <2> QED BY <1>1, <2>1 DEF Tick, TypeOK, disk, calls, File, Half
  <1>2. CASE gfc_log_init
    <2>1. starts' \in 1 .. MaxStarts
      BY <1>2, LogConstants DEF gfc_log_init, TypeOK
    <2>4. time \in Start .. MaxTime
      BY DEF TypeOK, Half
    <2>5. born' \in Start .. time'
      BY <1>2, <2>4, LogConstants DEF gfc_log_init, clock, Start
    <2>2. now' \in [Threads -> Days] /\ count' \in [Threads -> 0 .. MaxLines]
          /\ date' \in Days
      BY <1>2, LogConstants DEF gfc_log_init, Days, Unset
    <2>3. \A u \in Threads : pc'[u] \in {"compare", "rename", "open"} <=> holder' = u
      BY <1>2, LogConstants DEF gfc_log_init
    <2> QED BY <1>2, <2>1, <2>2, <2>3, <2>5 DEF gfc_log_init, TypeOK, clock, disk, File, Half
  <1>3. ASSUME NEW t \in Threads, gfc_log_info(t) PROVE TypeOK'
    BY <1>3, TypeOpen, TypePrint DEF gfc_log_info
  <1>4. CASE UNCHANGED vars
    BY <1>4 DEF vars, TypeOK, clock, disk, calls, File, Half
  <1> QED BY <1>1, <1>2, <1>3, <1>4 DEF Next


-----------------------------------------------------------------------------
(* The stream and the log.                                                 *)

LEMMA OpenedIsFile == TypeOK => Opened \in File /\ Opened # None
  BY NoFile DEF Opened, TypeOK, File

LEMMA FileStep == TypeOK /\ FileInv /\ [Next]_vars => FileInv'
  <1> SUFFICES ASSUME TypeOK, FileInv, [Next]_vars PROVE FileInv'
    OBVIOUS
  <1>1. CASE Tick \/ UNCHANGED vars
    BY <1>1 DEF Tick, FileInv, IsNull, vars, clock, disk, calls
  <1>2. CASE gfc_log_init
    BY <1>2 DEF gfc_log_init, FileInv, IsNull
  <1>3. ASSUME NEW t \in Threads, gfc_log_info(t) PROVE FileInv'
    <2>1. CASE Enter(t)
      <3>1. \A u \in Threads : pc'[u] # "idle" => count'[u] > 0
        BY <2>1 DEF Enter, At, Goto, FileInv, TypeOK
      <3> QED BY <2>1, <3>1 DEF Enter, At, Goto, FileInv, TypeOK, IsNull, disk
    <2>2. CASE Fclose(t)
      <3>1. \A u \in Threads : pc'[u] = "open" => pc[u] = "open"
        BY <2>2 DEF Fclose, Goto, TypeOK
      <3>2. \A u \in Threads : pc[u] # "open"
        BY <2>2 DEF Fclose, FileInv
      <3> QED BY <2>2, <3>1, <3>2 DEF Fclose, At, Goto, FileInv, TypeOK, disk
    <2>3. CASE Rename(t)
      <3>1. \A u \in Threads : pc'[u] # "rename"
        BY <2>3 DEF Rename, OtherDay, Goto, TypeOK, FileInv
      <3>2. \A u \in Threads : arg'[u] # "live"
        BY <2>3 DEF Rename, FileInv, IsNull
      <3>3. IsNull(file')
        BY <2>3 DEF Rename, IsNull
      <3> QED BY <2>3, <3>1, <3>2, <3>3 DEF Rename, OtherDay, Goto, FileInv, TypeOK, IsNull
    <2>4. CASE Fopen(t)
      <3>1. \A u \in Threads : pc'[u] \notin {"open", "rename"}
        BY <2>4 DEF Fopen, OtherDay, Goto, TypeOK
      <3>2. file' \in {"open", "failed"} /\ (file' = "open" => log' # None)
        BY <2>4, <3>1, OpenedIsFile DEF Fopen, FileInv, TypeOK, Goto, IsNull, OtherDay
      <3> QED BY <2>4, <3>1, <3>2 DEF Fopen, Goto, FileInv, TypeOK, IsNull
    <2>5. CASE ReadFile(t) \/ PrintNull(t)
      BY <2>5 DEF ReadFile, PrintNull, FileInv, TypeOK, IsNull, disk, calls
    <2>6. ASSUME PrintLive(t) \/ PrintStale(t) PROVE FileInv'
      <3>1. log' # None \/ log' = log
        BY <2>6, AppendType, NoFile DEF PrintLive, PrintStale, FileInv, Printing
      <3> QED BY <2>6, <3>1 DEF PrintLive, PrintStale, Printed, Goto, FileInv, TypeOK, IsNull, Pieces
    <2> QED BY <1>3, <2>1, <2>2, <2>3, <2>4, <2>5, <2>6 DEF gfc_log_info, gfc_log_open
  <1> QED BY <1>1, <1>2, <1>3 DEF Next


-----------------------------------------------------------------------------
(* The dates.                                                              *)

\* The mutex.
LEMMA Exclusive ==
  ASSUME TypeOK, NEW t \in Threads, NEW u \in Threads, Critical(t), Critical(u)
  PROVE  t = u
  BY DEF TypeOK, Critical

\* What the clock gives where a date is compared with it.
LEMMA Clock ==
  ASSUME TypeOK, DateInv
  PROVE  /\ time \in Nat /\ LocalDay(time) \in Nat /\ born \in Nat /\ born <= time
         /\ LocalDay(time) \in Days /\ Days \subseteq Int
         /\ log # None => /\ log.changed \in Nat /\ LocalDay(log.changed) \in Nat
                          /\ log.changed <= time
  <1>1. time \in Half /\ Half \subseteq Nat /\ Days \subseteq Int
    BY DEF TypeOK, Half, Days, Start
  <1>2. log # None => log.changed \in Half
    BY DEF TypeOK, File
  <1>3. \A a \in Half : LocalDay(a) \in Nat
    BY DayOrder DEF Days
  <1>4. born \in Nat /\ born <= time
    BY <1>1 DEF TypeOK, Start
  <1>5. LocalDay(time) \in Days
    BY <1>1, DayOrder
  <1> QED BY <1>1, <1>2, <1>3, <1>4, <1>5 DEF DateInv

\* A print moves the time of the last change of the log on to now.
LEMMA DatePrint ==
  ASSUME TypeOK, FileInv, DateInv, NEW t \in Threads, Printing(t), file = "open",
         Append(t)
  PROVE  /\ log' # None /\ log'.changed <= time
         /\ date <= LocalDay(log.changed) /\ date <= LocalDay(log'.changed)
  <1>1. log # None /\ log' # None /\ date # Unset
    BY AppendType, NoFile DEF FileInv, DateInv, Printing, Pieces
  <1>2. log'.changed \in {log.changed, time}
    BY DEF Append
  <1> QED BY <1>1, <1>2, Clock DEF DateInv

LEMMA DateOpen ==
  ASSUME TypeOK, FileInv, DateInv, NEW t \in Threads, gfc_log_open(t)
  PROVE  DateInv'
  <1>0. /\ time \in Nat /\ LocalDay(time) \in Nat /\ date \in Int
        /\ \A u \in Threads : now[u] \in Int
    BY Clock DEF TypeOK
  <1>1. CASE Enter(t)
    <2>1. \A u \in Threads : pc'[u] \notin {"rename", "open"}
      BY <1>1, LogConstants DEF Enter, At, Goto, TypeOK
    <2>2. \A u \in Threads : pc'[u] = "compare" => u = t
      BY <1>1, LogConstants DEF Enter, At, Goto, TypeOK
    <2>3. date' = FirstDate /\ now'[t] = LocalDay(time) /\ time' = time /\ log' = log
      BY <1>1 DEF Enter, TypeOK, clock, disk
    <2>4. \A u \in Threads : now'[u] <= LocalDay(time)
      BY <1>0, <1>1 DEF Enter, TypeOK, DateInv
    <2>5. LocalDay(time') = LocalDay(time)
      BY <2>3
    <2> QED BY <2>1, <2>2, <2>3, <2>4, <2>5, FirstDateType DEF DateInv
  <1>2. CASE Fclose(t)
    <2>1. \A u \in Threads : u # t => pc'[u] = pc[u]
      BY <1>2 DEF Fclose, Goto, TypeOK
    <2>2. pc'[t] = "rename" /\ date < now[t] /\ date # Unset
      BY <1>0, <1>2 DEF Fclose, At, Goto, OtherDay, TypeOK, DateInv
    <2>3. UNCHANGED <<time, log, date, now>>
      BY <1>2 DEF Fclose, clock, disk
    <2> QED BY <2>1, <2>2, <2>3 DEF DateInv
  <1>3. CASE Rename(t)
    <2>1. \A u \in Threads : u # t => pc'[u] = pc[u] /\ pc[u] \notin {"compare", "rename", "open"}
      BY <1>3, Exclusive DEF Rename, OtherDay, Goto, TypeOK, Critical
    <2>2. pc'[t] = "open" /\ date' = now[t] /\ log' = None /\ UNCHANGED <<time, now>>
      BY <1>3 DEF Rename, Goto, TypeOK, clock
    <2>3. date < now[t]
      BY <1>0, <1>3 DEF Rename, OtherDay, DateInv, TypeOK
    <2>4. date >= 0
      BY DEF TypeOK, Days
    <2> QED BY <1>0, <2>1, <2>2, <2>3, <2>4 DEF DateInv, Unset
  <1>4. CASE Fopen(t)
    <2>1. \A u \in Threads : pc'[u] = "idle" => pc[u] = "idle"
      BY <1>4 DEF Fopen, Goto, TypeOK
    <2>2. \A u \in Threads : pc'[u] \in {"compare", "rename", "open"} => pc'[u] = pc[u]
      BY <1>4 DEF Fopen, Goto, TypeOK, Pieces
    <2>3. UNCHANGED <<time, date, now>>
      BY <1>4 DEF Fopen, clock
    <2>4. log' # None => log' = log \/ log'.changed = time
      BY <1>4 DEF Fopen, Opened
    <2>5. \A u \in Threads : pc'[u] # "idle" => date # Unset
      BY <1>4 DEF Fopen, Goto, TypeOK, DateInv
    <2> QED BY <1>0, <2>2, <2>3, <2>4, <2>5, Clock DEF DateInv
  <1> QED BY <1>1, <1>2, <1>3, <1>4 DEF gfc_log_open

LEMMA DateStep == TypeOK /\ FileInv /\ DateInv /\ [Next]_vars => DateInv'
  <1> SUFFICES ASSUME TypeOK, FileInv, DateInv, [Next]_vars PROVE DateInv'
    OBVIOUS
  <1>1. CASE Tick
    <2>1. time' \in Nat /\ time <= time' /\ time' \in Half
      BY <1>1, LogConstants, Clock DEF Tick, Half, Start, TypeOK
    <2>2. LocalDay(time') \in Nat /\ LocalDay(time) <= LocalDay(time')
      BY <2>1, Clock, DayOrder DEF Days
    <2>3. \A u \in Threads : now[u] \in Int
      BY Clock DEF TypeOK
    <2>4. \A u \in Threads : now[u] <= LocalDay(time')
      BY <2>2, <2>3, Clock DEF DateInv
    <2>5. date <= LocalDay(time')
      BY <2>2, Clock DEF DateInv, TypeOK
    <2>6. log # None => log.changed <= time'
      BY <2>1, Clock DEF DateInv
    <2> QED BY <1>1, <2>4, <2>5, <2>6 DEF Tick, DateInv, disk, calls
  <1>2. CASE gfc_log_init
    <2>1. 0 <= LocalDay(time)
      BY Clock
    <2> QED BY <1>2, <2>1 DEF gfc_log_init, DateInv, Unset, clock, disk
  <1>3. ASSUME NEW t \in Threads, gfc_log_info(t) PROVE DateInv'
    <2>1. CASE gfc_log_open(t)
      BY <2>1, DateOpen
    <2>2. CASE ReadFile(t) \/ PrintNull(t)
      BY <2>2 DEF ReadFile, PrintNull, DateInv, clock, disk, calls
    <2>3. ASSUME PrintLive(t) \/ PrintStale(t) PROVE DateInv'
      <3>1. UNCHANGED <<time, date, now>>
        BY <2>3 DEF PrintLive, PrintStale, clock
      <3>2. \A u \in Threads : /\ pc'[u] # "idle" => pc[u] # "idle"
                               /\ Critical(u)' => pc'[u] = pc[u]
        BY <2>3 DEF PrintLive, PrintStale, Printed, Goto, TypeOK, Critical, Pieces
      <3>3. log' = log \/ (Append(t) /\ Printing(t) /\ file = "open")
        BY <2>3 DEF PrintLive, PrintStale, Printing, FileInv
      <3>4. log' # None => /\ log'.changed <= time
                           /\ date # Unset => date <= LocalDay(log'.changed)
        BY <3>3, DatePrint DEF DateInv
      <3> QED BY <3>1, <3>2, <3>4 DEF DateInv, Critical
    <2> QED BY <1>3, <2>1, <2>2, <2>3 DEF gfc_log_info
  <1>4. CASE UNCHANGED vars
    BY <1>4 DEF vars, DateInv, clock, disk, calls
  <1> QED BY <1>1, <1>2, <1>3, <1>4 DEF Next


-----------------------------------------------------------------------------
(* The backups.                                                            *)

DatedFact == TypeOK /\ DateInv => FirstDate \in Days
LEMMA FirstDateNext == DatedFact'
  <1>1. DatedFact
    BY FirstDateType DEF DatedFact
  <1> QED BY <1>1, PTL

\* The date a log is renamed to never goes back, by the clock of gmtime.
LEMMA FirstDateGrows ==
  ASSUME TypeOK, FileInv, DateInv, [Next]_vars, zone = "utc"
  PROVE  FirstDate \in Int /\ FirstDate' \in Int /\ FirstDate <= FirstDate'
  <1>0. TypeOK' /\ DateInv' /\ FirstDate \in Int /\ FirstDate' \in Int /\ date \in Int
    <2>1. TypeOK' /\ DateInv'
      BY TypeStep, DateStep
    <2>2. FirstDate \in Days /\ FirstDate' \in Days
      BY <2>1, FirstDateType, FirstDateNext DEF DatedFact
    <2> QED BY <2>1, <2>2, Clock DEF TypeOK
  <1>1. CASE Tick
    <2>1. /\ time' = time + 1 /\ time \in Nat /\ time' \in Nat
          /\ date' = date /\ log' = log /\ zone' = zone
      BY <1>1, Clock DEF Tick, disk
    <2>2. LocalDay(time) <= LocalDay(time')
      BY <2>1, DayOrder
    <2>3. CASE log = None /\ date = Unset
      <3>1. FirstDate = LocalDay(time) /\ FirstDate' = LocalDay(time')
        BY <2>1, <2>3 DEF FirstDate, LocalDay
      <3> QED BY <1>0, <2>2, <3>1
    <2>4. CASE log # None \/ date # Unset
      <3>1. FirstDate' = FirstDate
        BY <2>1, <2>4 DEF FirstDate, GmDay
      <3> QED BY <1>0, <3>1
    <2> QED BY <2>3, <2>4
  <1>2. CASE gfc_log_init
    <2>1. date' = Unset /\ log' = log /\ time' = time /\ zone' = zone
      BY <1>2 DEF gfc_log_init, disk, clock
    <2>2. CASE log = None
      <3>1. FirstDate' = LocalDay(time)
        BY <2>1, <2>2 DEF FirstDate, LocalDay
      <3> QED BY <1>0, <3>1, FirstDateType
    <2>3. CASE log # None
      <3>1. FirstDate' = GmDay(log.changed)
        BY <2>1, <2>3 DEF FirstDate, GmDay
      <3>2. log.changed \in Half
        BY <2>3 DEF TypeOK, File
      <3>3. GmDay(log.changed) = LocalDay(log.changed)
        BY <3>2 DEF GmDay, LocalDay
      <3> QED BY <1>0, <2>3, <3>1, <3>3, FirstDateType
    <2> QED BY <2>2, <2>3
  <1>3. ASSUME NEW t \in Threads, gfc_log_info(t) PROVE FirstDate <= FirstDate'
    <2>1. CASE Enter(t)
      <3>1. FirstDate' = FirstDate
        BY <2>1, FirstDateType DEF Enter, FirstDate
      <3> QED BY <1>0, <3>1
    <2>2. CASE Rename(t)
      <3>1. date # Unset /\ date' = now[t] /\ now[t] \in Int /\ now[t] \in Days
        BY <2>2, Clock DEF Rename, OtherDay, DateInv, TypeOK
      <3>2. date < now[t]
        BY <1>0, <2>2, <3>1 DEF Rename, OtherDay, DateInv
      <3>3. date' # Unset
        BY <3>1, <3>2 DEF TypeOK, Unset, Days
      <3>4. FirstDate = date /\ FirstDate' = date'
        BY <3>1, <3>3 DEF FirstDate
      <3> QED BY <1>0, <3>1, <3>2, <3>4
    <2>3. CASE ~Enter(t) /\ ~Rename(t)
      <3>1. date' = date /\ date # Unset
        BY <1>3, <2>3 DEF gfc_log_info, gfc_log_open, Fclose, Fopen, ReadFile, PrintLive,
               PrintStale, PrintNull, At, DateInv, Pieces
      <3> QED BY <1>0, <3>1 DEF FirstDate
    <2> QED BY <2>1, <2>2, <2>3
  <1>4. CASE UNCHANGED vars
    <2>1. FirstDate' = FirstDate
      BY <1>4 DEF vars, FirstDate, GmDay, clock, disk
    <2> QED BY <1>0, <2>1
  <1> QED BY <1>0, <1>1, <1>2, <1>3, <1>4 DEF Next

\* Where a rename puts the file, and that its date is known.
LEMMA Renaming ==
  ASSUME TypeOK, FileInv, DateInv, NEW t \in Threads, Rename(t)
  PROVE  /\ backup' = Renamed /\ log' = None /\ starts' = starts /\ zone' = zone
         /\ date \in Days /\ date # Unset /\ FirstDate = date
         /\ date \in Int /\ date' \in Int /\ date < date' /\ date' # Unset
  <1>1. /\ date # Unset /\ date' = now[t] /\ now[t] \in Int /\ date \in Int
        /\ date >= 0 /\ date \in Days
    BY Clock DEF Rename, OtherDay, DateInv, TypeOK, Days
  <1>2. date < now[t]
    BY <1>1 DEF Rename, OtherDay, DateInv
  <1> QED BY <1>1, <1>2 DEF Rename, FirstDate, Unset, clock

LEMMA Moved ==
  ASSUME [Next]_vars, ~\E t \in Threads : Rename(t)
  PROVE  backup' = backup
  BY DEF Next, gfc_log_info, gfc_log_open, Enter, Fclose, Fopen, ReadFile, PrintLive,
         PrintStale, PrintNull, Tick, gfc_log_init, vars, disk

LEMMA ZoneFixed == [Next]_vars => zone' = zone
  BY DEF Next, gfc_log_info, gfc_log_open, Enter, Fclose, Rename, Fopen, ReadFile, PrintLive,
         PrintStale, PrintNull, Tick, gfc_log_init, vars, disk, clock

LEMMA BackupStep ==
  TypeOK /\ FileInv /\ DateInv /\ BackupInv /\ [Next]_vars => BackupInv'
  <1> SUFFICES ASSUME TypeOK, FileInv, DateInv, BackupInv, [Next]_vars,
                      zone = "utc", NEW d \in Days, backup'[d] # None
               PROVE  d < FirstDate'
    BY ZoneFixed DEF BackupInv
  <1>1. FirstDate \in Int /\ FirstDate' \in Int /\ FirstDate <= FirstDate' /\ d \in Int
    BY FirstDateGrows, Clock
  <1>2. CASE backup[d] # None
    <2>1. d < FirstDate
      BY <1>2 DEF BackupInv
    <2> QED BY <1>1, <2>1
  <1>3. CASE backup[d] = None
    <2>1. backup' # backup
      BY <1>3
    <2>2. backup' = Renamed /\ date \in Days /\ date < date' /\ date' # Unset
      BY <2>1, Moved, Renaming
    <2>3. d = date
      BY <1>3, <2>2 DEF Renamed, TypeOK
    <2> QED BY <2>2, <2>3 DEF FirstDate
  <1> QED BY <1>2, <1>3


-----------------------------------------------------------------------------
(* What the files hold.                                                    *)

\* Without a rotation the log only grows, by what a thread prints.
LEMMA LogGrows ==
  ASSUME TypeOK, FileInv, DateInv, [Next]_vars, ~\E t \in Threads : Rename(t)
  PROVE  /\ backup' = backup /\ Text(log) \subseteq Text(log')
         /\ \A x \in Text(log') : x \in Text(log) \/
               (starts' = starts /\ \E t \in Threads :
                   Printing(t) /\ x = Piece(Line(t), pc[t]))
  <1>1. backup' = backup
    BY DEF Next, gfc_log_info, gfc_log_open, Enter, Fclose, Fopen, ReadFile, PrintLive,
           PrintStale, PrintNull, Tick, gfc_log_init, vars, disk
  <1>2. CASE log' = log
    BY <1>1, <1>2
  <1>3. ASSUME NEW t \in Threads, Fopen(t), log' = Opened PROVE Text(log') = Text(log)
    BY <1>3, NoFile, OpenedIsFile DEF Opened, Text
  <1>4. ASSUME NEW t \in Threads, Printing(t), file = "open", Append(t)
        PROVE  Text(log') = Text(log) \cup {Piece(Line(t), pc[t])}
    BY <1>4, AppendType, NoFile DEF Append, Text, FileInv
  <1>5. \/ log' = log
        \/ \E t \in Threads : Fopen(t) /\ log' = Opened
        \/ starts' = starts /\ \E t \in Threads : Printing(t) /\ file = "open" /\ Append(t)
    BY DEF Next, gfc_log_info, gfc_log_open, Enter, Fclose, Fopen, ReadFile, PrintLive, FileInv,
           PrintStale, PrintNull, Tick, gfc_log_init, vars, disk, Printing
  <1> QED BY <1>1, <1>2, <1>3, <1>4, <1>5

\* The date is only changed by the first call of a process and by a rotation.
LEMMA DateKept ==
  ASSUME TypeOK, FileInv, DateInv, [Next]_vars, ~\E t \in Threads : Rename(t),
         ~gfc_log_init, date # Unset
  PROVE  date' = date
  BY DEF Next, gfc_log_info, gfc_log_open, Enter, Fclose, Fopen, ReadFile, PrintLive,
         PrintStale, PrintNull, Tick, vars, FirstDate

\* A line returns in the process that logged it, or had returned before.
LEMMA ReturnedNow ==
  ASSUME [Next]_vars, NEW l \in returned'
  PROVE  l \in returned \/ (starts' = starts /\ l.start = starts)
  <1>1. \/ returned' = returned
        \/ starts' = starts /\ \E t \in Threads : returned' = returned \cup {Line(t)}
    BY DEF Next, gfc_log_info, gfc_log_open, Enter, Fclose, Rename, Fopen, ReadFile, PrintLive,
         PrintStale, PrintNull, Printed, Tick, gfc_log_init, vars, calls
  <1> QED BY <1>1 DEF Line

LEMMA OwnStep ==
  TypeOK /\ FileInv /\ DateInv /\ OwnInv /\ [Next]_vars => OwnInv'
  <1> SUFFICES ASSUME TypeOK, FileInv, DateInv, OwnInv, [Next]_vars PROVE OwnInv'
    OBVIOUS
  <1>0. starts \in Nat /\ \A l \in returned : l.start \in Nat
    BY DEF TypeOK, Lines
  <1>1. starts' \in {starts, starts + 1}
    BY DEF Next, gfc_log_info, gfc_log_open, Enter, Fclose, Rename, Fopen, ReadFile, PrintLive,
         PrintStale, PrintNull, Tick, gfc_log_init, vars
  <1>2. \A l \in returned' : l.start <= starts'
    BY <1>0, <1>1, ReturnedNow DEF OwnInv
  <1>3. /\ \A x \in Text(log) : x.line.start \in Nat
        /\ \A d \in Days : \A x \in Text(backup[d]) : x.line.start \in Nat
    BY DEF TypeOK, Text, File, Lines
  <1>4. CASE gfc_log_init
    <2>1. starts' = starts + 1 /\ log' = log /\ backup' = backup
      BY <1>4 DEF gfc_log_init, disk
    <2>2. /\ \A x \in Text(log) : x.line.start <= starts /\ x.line.start # starts'
          /\ \A d \in Days : \A x \in Text(backup[d]) :
                x.line.start <= starts /\ x.line.start # starts'
      BY <1>0, <1>3, <2>1 DEF OwnInv
    <2>3. /\ \A x \in Text(log) : x.line.start <= starts'
          /\ \A d \in Days : \A x \in Text(backup[d]) : x.line.start <= starts'
      BY <1>0, <1>3, <2>1, <2>2
    <2> QED BY <1>2, <2>1, <2>2, <2>3 DEF OwnInv
  <1>5. CASE \E t \in Threads : Rename(t)
    <2>1. /\ backup' = Renamed /\ log' = None /\ starts' = starts
          /\ date \in Days /\ date # Unset /\ date < date' /\ date' # Unset
      BY <1>5, Renaming
    <2>2. date' \in Int /\ date \in Int
      BY <1>5, Renaming
    <2>3. ASSUME NEW d \in Days, NEW x \in Text(backup'[d])
          PROVE  /\ x.line.start <= starts
                 /\ x.line.start = starts => d < date'
      <3>1. CASE x \in Text(backup[d])
        BY <2>1, <2>2, <3>1, Clock DEF OwnInv
      <3>2. CASE x \notin Text(backup[d])
        <4>1. d = date /\ x \in Text(log)
          BY <2>1, <2>3, <3>2 DEF Renamed, TypeOK
        <4> QED BY <2>1, <4>1 DEF OwnInv
      <3> QED BY <3>1, <3>2
    <2>4. Text(log') = {}
      BY <2>1 DEF Text
    <2> QED BY <1>2, <2>1, <2>3, <2>4 DEF OwnInv
  <1>6. CASE ~gfc_log_init /\ ~\E t \in Threads : Rename(t)
    <2>1. starts' = starts /\ (date # Unset => date' = date) /\ backup' = backup
      BY <1>6, DateKept, LogGrows DEF Next, gfc_log_info, gfc_log_open, Enter, Fclose, Fopen,
             ReadFile, PrintLive, PrintStale, PrintNull, Tick, vars
    <2>2. ASSUME NEW x \in Text(log')
          PROVE  x.line.start <= starts /\ (x.line.start = starts => date' # Unset)
      <3>1. CASE x \in Text(log)
        BY <2>1, <3>1 DEF OwnInv
      <3>2. CASE x \notin Text(log)
        <4>1. PICK t \in Threads : Printing(t) /\ x = Piece(Line(t), pc[t])
          BY <1>6, <2>2, <3>2, LogGrows
        <4>2. date # Unset /\ x.line.start = starts
          BY <4>1 DEF DateInv, Printing, Pieces, Piece, Line
        <4> QED BY <1>0, <2>1, <4>2
      <3> QED BY <3>1, <3>2
    <2>3. \A d \in Days : \A x \in Text(backup[d]) :
             /\ x.line.start <= starts
             /\ x.line.start = starts => date' # Unset /\ d < date'
      BY <2>1 DEF OwnInv
    <2> QED BY <1>2, <2>1, <2>2, <2>3 DEF OwnInv
  <1> QED BY <1>4, <1>5, <1>6

\* What a step keeps of the pieces that are stored.
LEMMA KeptStep ==
  ASSUME TypeOK, FileInv, DateInv, BackupInv, OwnInv, [Next]_vars,
         NEW l \in returned, Stored(l), ~(zone = "east" /\ l.start < starts)
  PROVE  Stored(l)'
  <1>1. SUFFICES ASSUME NEW p \in Pieces
                 PROVE  Piece(l, p) \in Text(log') \cup UNION {Text(backup'[d]) : d \in Days}
    BY DEF Stored, Whole
  <1>2. Piece(l, p) \in Text(log) \/ \E d \in Days : Piece(l, p) \in Text(backup[d])
    BY DEF Stored, Whole
  <1>3. CASE ~\E t \in Threads : Rename(t)
    BY <1>2, <1>3, LogGrows
  <1>4. CASE \E t \in Threads : Rename(t)
    <2>1. /\ backup' = Renamed /\ date \in Days /\ date \in Int /\ FirstDate = date
          /\ date # Unset
      BY <1>4, Renaming
    <2>2. CASE Piece(l, p) \in Text(log)
      <3>1. backup'[date] = log
        BY <2>1, <2>2 DEF Renamed, Text, TypeOK
      <3> QED BY <2>1, <2>2, <3>1
    <2>3. ASSUME NEW d \in Days, Piece(l, p) \in Text(backup[d]), d # date
          PROVE  Piece(l, p) \in Text(backup'[d])
      BY <2>1, <2>3 DEF Renamed, TypeOK
    <2>4. ASSUME Piece(l, p) \in Text(backup[date]) PROVE FALSE
      <3>1. backup[date] # None
        BY <2>4 DEF Text
      <3>2. zone # "utc"
        BY <2>1, <3>1 DEF BackupInv
      <3>3. zone = "east" /\ l.start \in Nat /\ starts \in Nat
        BY <3>2, LogConstants DEF TypeOK, Lines
      <3>4. l.start = starts
        BY <3>3 DEF OwnInv
      <3>5. date < date
        BY <2>1, <2>4, <3>4 DEF OwnInv, Piece
      <3> QED BY <2>1, <3>5
    <2> QED BY <1>2, <2>2, <2>3, <2>4
  <1> QED BY <1>3, <1>4

-----------------------------------------------------------------------------
(* The first day of a process.                                             *)

\* A process that has a date has one that a file of today has.
LEMMA TodayIsSet == TypeOK => Today \in Nat /\ Today # Unset
  <1> SUFFICES ASSUME TypeOK PROVE Today \in Nat /\ Today # Unset
    OBVIOUS
  <1>1. born \in Half
    <2>1. born \in Start .. time /\ time \in Start .. MaxTime
      BY DEF TypeOK, Half
    <2> QED BY <2>1, LogConstants DEF Half, Start
  <1>2. LocalDay(born) \in Days /\ GmDay(born) \in Days
        /\ GmDay(born) > 0 /\ GmDay(born) <= LocalDay(born)
    BY <1>1, DayOrder
  <1> QED BY <1>2 DEF Today, Days, Unset

LEMMA MorningOpen ==
  ASSUME TypeOK, FileInv, DateInv, MorningNow, LocalDay(time) = Today,
         NEW t \in Threads, gfc_log_open(t)
  PROVE  MorningNow'
  <1>0. born' = born /\ Today' = Today /\ starts' = starts /\ ~crashed' /\ returned' = returned
    BY DEF gfc_log_open, Enter, Fclose, Rename, Fopen, At, Today, LocalDay
  <1>1. CASE Enter(t)
    <2>1. file # "null" => date' = Today
      BY <1>1, TodayIsSet DEF Enter, FirstDate, MorningNow
    <2>2. \A u \in Threads : Critical(u)' => now'[u] = Today
      BY <1>1 DEF Enter, Goto, TypeOK, Critical, MorningNow
    <2>3. \A u \in Threads : Printing(u)' => Printing(u) /\ pc'[u] = pc[u] /\ count'[u] = count[u]
      BY <1>1 DEF Enter, Goto, TypeOK, Printing, Pieces
    <2>4. file' = file /\ log' = log /\ arg' = arg
      BY <1>1 DEF Enter, disk
    <2>5. \A u \in Threads : pc'[u] = "rest" => pc[u] = "rest" /\ count'[u] = count[u]
      BY <2>3 DEF Printing, Pieces
    <2>6. \A u \in Threads : pc'[u] = "rest" =>
             file' = "open" /\ Piece(Line(u), "head")' \in Text(log')
      BY <1>0, <2>4, <2>5 DEF MorningNow, Piece, Line
    <2> QED BY <1>0, <2>1, <2>2, <2>3, <2>4, <2>6 DEF MorningNow
  <1>2. CASE Fclose(t)
    BY <1>2 DEF Fclose, At, OtherDay, IsNull, Critical, MorningNow
  <1>3. CASE Rename(t)
    <2>1. now[t] = Today /\ date # now[t]
      BY <1>3 DEF Rename, OtherDay, FileInv, Critical, MorningNow, DateInv, TypeOK
    <2>2. file = "null" /\ file' = "null"
      BY <1>3, <2>1 DEF Rename, OtherDay, FileInv, IsNull, MorningNow
    <2>3. date' = Today /\ arg' = arg /\ now' = now
      BY <1>3, <2>1 DEF Rename
    <2>4. \A u \in Threads : pc'[u] = pc[u] \/ (u = t /\ pc'[u] = "open")
      BY <1>3 DEF Rename, Goto, TypeOK
    <2>5. \A u \in Threads : pc[u] # "rest" /\ ~Printing(u)
      BY <2>2 DEF MorningNow
    <2>6. \A u \in Threads : pc'[u] # "rest" /\ ~Printing(u)'
      BY <2>4, <2>5 DEF Printing, Pieces
    <2>7. \A u \in Threads : Critical(u)' => now'[u] = Today
      BY <2>1, <2>3, <2>4 DEF Critical, MorningNow
    <2>8. \A l \in returned : l.start # starts
      BY <2>2 DEF MorningNow
    <2> QED BY <1>0, <2>2, <2>3, <2>6, <2>7, <2>8 DEF MorningNow
  <1>4. CASE Fopen(t)
    <2>1. date' = Today /\ arg' = arg /\ now' = now /\ count' = count
      BY <1>4 DEF Fopen, OtherDay, Critical, MorningNow, DateInv
    <2>2. file' \in {"open", "failed"} /\ (file = "open" => file' = "open" /\ log' = log)
      BY <1>4 DEF Fopen, IsNull, MorningNow, TypeOK
    <2>3. \A u \in Threads : pc'[u] = pc[u] \/ (u = t /\ pc'[u] = "head")
      BY <1>4 DEF Fopen, Goto, TypeOK
    <2>4. \A u \in Threads : Critical(u)' => now'[u] = Today
      BY <2>1, <2>3 DEF Critical, MorningNow
    <2>5. \A u \in Threads : pc'[u] = "rest" =>
             file' = "open" /\ Piece(Line(u), "head")' \in Text(log')
      BY <1>0, <2>1, <2>2, <2>3 DEF MorningNow, Piece, Line
    <2>6. \A l \in returned : l.start = starts => file' = "open" /\ Whole(l, Text(log'))
      BY <2>2 DEF MorningNow
    <2>7. \A u \in Threads : arg'[u] \notin {"stale", "null"}
      BY <2>1 DEF MorningNow
    <2> QED BY <1>0, <2>1, <2>2, <2>4, <2>5, <2>6, <2>7 DEF MorningNow
  <1> QED BY <1>1, <1>2, <1>3, <1>4 DEF gfc_log_open

LEMMA MorningPrint ==
  ASSUME TypeOK, FileInv, DateInv, MorningNow, LocalDay(time) = Today,
         NEW t \in Threads,
         ReadFile(t) \/ PrintLive(t) \/ PrintStale(t) \/ PrintNull(t)
  PROVE  MorningNow'
  <1>0. /\ born' = born /\ Today' = Today /\ starts' = starts /\ file' = file
        /\ date' = date /\ now' = now /\ count' = count
    BY DEF ReadFile, PrintLive, PrintStale, PrintNull, Today, LocalDay, calls
  <1>1. CASE ReadFile(t)
    <2>1. \A u \in Threads : arg'[u] \notin {"stale", "null"}
      BY <1>1 DEF ReadFile, MorningNow, Printing, IsNull, TypeOK
    <2> QED BY <1>0, <1>1, <2>1 DEF ReadFile, MorningNow, Critical, Printing, disk, Piece, Line
  <1>2. CASE PrintLive(t)
    <2>1. file = "open" /\ Text(log') = Text(log) \cup {Piece(Line(t), pc[t])}
      BY <1>2, AppendType, NoFile DEF PrintLive, FileInv, Printing, Append, Text
    <2>2. \A u \in Threads : u # t => pc'[u] = pc[u]
      BY <1>2 DEF PrintLive, Printed, Goto, TypeOK
    <2>3. pc[t] \in Pieces /\ pc'[t] = IF pc[t] = "head" THEN "rest" ELSE "idle"
      BY <1>2 DEF PrintLive, Printed, Goto, TypeOK
    <2>4. \A u \in Threads : arg'[u] \notin {"stale", "null"}
      BY <1>2 DEF PrintLive, Printed, MorningNow, TypeOK
    <2>5. \A u \in Threads : Critical(u)' => now'[u] = Today
      BY <1>0, <2>2, <2>3 DEF Critical, MorningNow
    <2>6. \A u \in Threads : pc'[u] = "rest" => Piece(Line(u), "head")' \in Text(log')
      <3>1. ASSUME NEW u \in Threads, pc'[u] = "rest"
            PROVE  Piece(Line(u), "head") \in Text(log')
        BY <2>1, <2>2, <2>3, <3>1 DEF MorningNow
      <3> QED BY <1>0, <3>1 DEF Piece, Line
    <2>7. \A l \in returned' : l.start = starts => Whole(l, Text(log'))
      <3>1. CASE pc[t] = "head"
        BY <1>2, <2>1, <3>1 DEF PrintLive, Printed, MorningNow, Whole
      <3>2. CASE pc[t] = "rest"
        <4>1. Whole(Line(t), Text(log'))
          BY <2>1, <3>2 DEF MorningNow, Whole, Pieces
        <4> QED BY <1>2, <2>1, <3>2, <4>1 DEF PrintLive, Printed, MorningNow, Whole
      <3> QED BY <2>3, <3>1, <3>2 DEF Pieces
    <2> QED BY <1>0, <1>2, <2>1, <2>4, <2>5, <2>6, <2>7 DEF PrintLive, MorningNow
  <1>3. CASE PrintStale(t)
    BY <1>3 DEF PrintStale, MorningNow
  <1>4. CASE PrintNull(t)
    <2>1. arg[t] = "failed"
      BY <1>4 DEF PrintNull, IsNull, MorningNow
    <2> QED BY <1>0, <1>4, <2>1 DEF PrintNull, MorningNow, Critical, Printing, disk, calls,
              Piece, Line
  <1> QED BY <1>1, <1>2, <1>3, <1>4

LEMMA MorningStep ==
  TypeOK /\ FileInv /\ DateInv /\ OwnInv /\ MorningInv /\ [Next]_vars => MorningInv'
  <1> SUFFICES ASSUME TypeOK, FileInv, DateInv, OwnInv, MorningInv, [Next]_vars,
                      (LocalDay(time) = Today)'
               PROVE  MorningNow'
    BY DEF MorningInv
  <1>1. CASE Tick
    <2>1. born' = born /\ born \in Nat /\ time \in Nat /\ time' \in Nat
          /\ born <= time /\ time <= time'
      BY <1>1, Clock DEF Tick
    <2>2. LocalDay(born) <= LocalDay(time) /\ LocalDay(time) <= LocalDay(time')
      BY <2>1, DayOrder
    <2>3. LocalDay(born) = LocalDay(time')
      BY <2>1 DEF Today, LocalDay
    <2>4. LocalDay(time) \in Nat /\ LocalDay(born) \in Nat
      BY Clock, TodayIsSet DEF Today
    <2>5. LocalDay(time) = Today
      BY <2>2, <2>3, <2>4 DEF Today
    <2>6. MorningNow
      BY <2>5 DEF MorningInv
    <2> QED BY <1>1, <2>6 DEF Tick, MorningNow, disk, calls, Today, LocalDay, Critical,
              Printing, Piece, Line
  <1>2. CASE gfc_log_init
    <2>1. \A l \in returned : l.start # starts'
      BY <1>2 DEF gfc_log_init, OwnInv, TypeOK, Lines
    <2> QED BY <1>2, <2>1 DEF gfc_log_init, MorningNow, Critical, Printing, Pieces
  <1>3. ASSUME NEW t \in Threads, gfc_log_info(t) PROVE MorningNow'
    <2>1. time' = time /\ born' = born
      BY <1>3 DEF gfc_log_info, gfc_log_open, Enter, Fclose, Rename, Fopen, ReadFile,
             PrintLive, PrintStale, PrintNull, clock
    <2>2. LocalDay(time) = Today
      BY <2>1 DEF Today, LocalDay
    <2>3. MorningNow
      BY <2>2 DEF MorningInv
    <2> QED BY <1>3, <2>2, <2>3, MorningOpen, MorningPrint DEF gfc_log_info
  <1>4. CASE UNCHANGED vars
    <2>1. LocalDay(time) = Today
      BY <1>4 DEF vars, clock, Today, LocalDay
    <2> QED BY <1>4, <2>1 DEF MorningInv, MorningNow, vars, clock, disk, calls, Today,
              LocalDay, Critical, Printing, Piece, Line
  <1> QED BY <1>1, <1>2, <1>3, <1>4 DEF Next

-----------------------------------------------------------------------------
(* The theorems.                                                           *)

LEMMA InitInv == Init => IInv
  <1> SUFFICES ASSUME Init PROVE IInv
    OBVIOUS
  <1>1. FileInv
    BY DEF Init, FileInv, IsNull
  <1>2. DateInv
    <2>1. Start \div 2 >= 0
      BY DEF Start
    <2>2. LocalDay(time) >= 0 /\ 0 <= LocalDay(time)
      BY <2>1 DEF Init, LocalDay, Start
    <2> QED BY <2>2 DEF Init, DateInv, Unset
  <1>3. BackupInv
    BY DEF Init, BackupInv
  <1>4. OwnInv
    BY DEF Init, OwnInv, Text
  <1>5. MorningInv
    BY DEF Init, MorningInv, MorningNow, Critical, Printing, Pieces
  <1> QED BY TypeInit, <1>1, <1>2, <1>3, <1>4, <1>5 DEF IInv

LEMMA InvStep == IInv /\ [Next]_vars => IInv'
  BY TypeStep, FileStep, DateStep, BackupStep, OwnStep, MorningStep DEF IInv

LEMMA InvAlways == Spec => []IInv
  <1> QED BY InitInv, InvStep, PTL DEF Spec

\* The variables of the log stay well typed and gfc_log_open is the code of
\* one thread at a time, for any number of threads, lines, days and restarts.
THEOREM TypeCorrect == Spec => []TypeOK
  <1>1. IInv => TypeOK
    BY DEF IInv
  <1> QED BY <1>1, InvAlways, PTL

\* gfc_log_open's rotation loses no stored line: it moves it to a backup no
\* later rotation replaces, unless gmtime dated the log (KeepsStored).
THEOREM LinesAreKept == Spec => KeepsStored
  <1>1. IInv /\ [Next]_vars =>
          [\A l \in returned : Stored(l) =>
              Stored(l)' \/ (zone = "east" /\ l.start < starts)]_vars
    BY KeptStep DEF IInv
  <1> QED BY <1>1, InvAlways, PTL DEF Spec, KeepsStored

\* On the first day of a process its lines are in the log when gfc_log_info
\* returns, and it dies of a print only after a failed fopen.
THEOREM MorningIsSafe == Spec => []SafeUntilMidnight
  <1>1. IInv => SafeUntilMidnight
    BY DEF IInv, MorningInv, MorningNow, SafeUntilMidnight, Today
  <1> QED BY <1>1, InvAlways, PTL
=============================================================================
