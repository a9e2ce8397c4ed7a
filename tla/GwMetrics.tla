------------------------------ MODULE GwMetrics ------------------------------
(***************************************************************************)
(* The metrics of the agent: gw_app_init creates a round robin file for    *)
(* each metric, the thread gw_os_start of linux/gw_os.c writes a sample    *)
(* into both of them every five seconds, and gw_os_cpu and gw_os_memory    *)
(* report the last minute of one to the web server.                        *)
(*                                                                         *)
(* A file is what rrd_create, rrd_update and rrd_fetch of rrdtool-1.8.0    *)
(* make of it: row n is the average over the step that ends at n * Step.   *)
(* An average is modelled by the set of the samples that have a part in    *)
(* it; a row nothing is known of is the empty set.                         *)
(*                                                                         *)
(* The file is mapped into memory by both threads, and the locks of fcntl  *)
(* that rrd_open takes are those of a process: they do not keep its        *)
(* threads apart.  So rrd_update is two steps, the rows first and the time *)
(* of the update last, and a request or the end of the process may come    *)
(* between them.                                                           *)
(***************************************************************************)
EXTENDS Integers

CONSTANTS
    None,       \* no file
    Step,       \* "-s 5"
    Pause,      \* sleep(5)
    Window,     \* "now-60"
    Heartbeat,  \* "GAUGE:600"
    Lead,       \* the 10 seconds before its creation a file begins at
    Begin,      \* when the first process starts
    MaxTime,    \* bound: the last instant
    MaxStarts,  \* bound: processes
    MaxLate     \* bound: how long the collector is kept waiting in all

ASSUME MetricsConstants ==
    /\ Step \in Nat \ {0} /\ Pause \in Nat \ {0} /\ Window \in Nat \ {0}
    /\ Heartbeat \in Nat /\ Heartbeat >= Step
    /\ Lead \in Nat /\ Begin \in Nat /\ Begin >= Window /\ Begin >= Lead
    /\ MaxTime \in Nat /\ MaxTime >= Begin
    /\ MaxStarts \in Nat \ {0} /\ MaxLate \in Nat

VARIABLES
    now,        \* time(NULL)
    starts,     \* the number of the process
    running,    \* _gw_os_collect_running = 1
    pc, wake,   \* the collector: its statement, and when its sleep ends
    late,       \* how long it was kept waiting
    rrd,        \* the files, by metric
    fresh,      \* metrics whose file this process has created
    sample,     \* what rrd_update is writing
    whole,      \* metrics whose file no process has left half updated
    taken,      \* samples since the file was created, by metric
    after       \* samples since gw_app_stop, by metric

history == <<whole, taken, after>>
vars == <<now, starts, running, pc, wake, late, rrd, fresh, sample, history>>

Metrics == {"cpu", "memory"}
Time == 0 .. MaxTime
Rows == 0 .. MaxTime \div Step + 1

\* The value of a sample stands for the time since the sample before it.
Sample == [from : Time, at : Time, by : 1 .. MaxStarts]
Meets(s, t) == s.from < t + Step /\ s.at > t
Unknown == {}

\* ahead counts the rows that were written after last_up.
File == [last_up : Time, row : [Rows -> SUBSET Sample], ahead : Nat,
         scratch : SUBSET Sample, unkn : 0 .. Step - 1]

ASSUME NoFile == None \notin File /\ None \notin Sample

-----------------------------------------------------------------------------
(* rrdtool.                                                                *)

\* Mutant: the time in the step is not reduced.
CreatedUnreduced == [last_up |-> now - Lead, row |-> [n \in Rows |-> Unknown],
                     ahead |-> 0, scratch |-> {}, unkn |-> now - Lead]

\* rrd_create: the file begins Lead seconds ago, within a step.
Created == [last_up |-> now - Lead, row |-> [n \in Rows |-> Unknown],
            ahead |-> 0, scratch |-> {}, unkn |-> (now - Lead) % Step]

\* calculate_elapsed_steps: the steps that have ended since the last update.
Elapsed(f, s) == (s.at \div Step) - (f.last_up \div Step)

\* sec_open_pdp: what was left of the step in which the last update fell.
Open(f) == (Step - (f.last_up % Step)) % Step

\* Mutant: a pause as long as the heartbeat is too long.
ClosedAtHeartbeat(f, s, interval) ==
    IF interval >= Heartbeat \/ 2 * f.unkn > Step THEN Unknown ELSE f.scratch \cup {s}

\* process_pdp_st of a step that has a part in scratch.
Closed(f, s, interval) ==
    IF interval > Heartbeat \/ 2 * f.unkn > Step THEN Unknown ELSE f.scratch \cup {s}

\* process_arg: the first step that has ended is closed on its own if it was
\* open and is not the only one, and the rest are given the value together.
Ended(f, s, n) ==
    LET interval == s.at - f.last_up
        apart == Elapsed(f, s) > 1 /\ Open(f) > 0
    IN  IF ~apart THEN Closed(f, s, interval)
        ELSE IF n = f.last_up \div Step + 1 THEN Closed(f, s, Open(f))
        ELSE IF interval - Open(f) > Heartbeat THEN Unknown ELSE {s}

\* What is read as row n: rrd_fetch counts back from last_up, in rows that may
\* be ahead of it.
Read(f, n) == IF n <= f.last_up \div Step THEN f.row[n + f.ahead] ELSE Unknown

\* Mutant: the part of a step that is still open is not begun anew.
BegunOver(f, s) == f.scratch \cup {s}

\* simple_update or the end of process_pdp_st.
Begun(f, s) ==
    CASE Elapsed(f, s) = 0 -> f.scratch \cup {s}
      [] Elapsed(f, s) # 0 /\ s.at % Step = 0 -> {}
      [] OTHER -> {s}

\* process_arg up to its last statements, with write_to_rras.
Written(f, s) ==
    [last_up |-> f.last_up,
     row |-> [n \in Rows |-> IF n > f.last_up \div Step /\ n <= s.at \div Step
                             THEN Ended(f, s, n) ELSE Read(f, n)],
     ahead |-> Elapsed(f, s),
     scratch |-> Begun(f, s),
     unkn |-> IF Elapsed(f, s) = 0 THEN f.unkn ELSE 0]

\* The end of process_arg: last_up.
Updated(f, s) == [f EXCEPT !.last_up = s.at, !.ahead = 0]

\* rrd_fetch: the times between which it returns rows.
Start == (now - Window) - ((now - Window) % Step)
End == now + (Step - (now % Step))

-----------------------------------------------------------------------------
\* rrd_create writes another file and renames it; when that fails the agent
\* goes on with the file it has.
Init ==
    /\ now \in Begin .. Begin + Step - 1 /\ now <= MaxTime
    /\ starts = 1 /\ running = TRUE /\ pc = "check" /\ wake = 0 /\ late = 0
    /\ sample = None /\ whole = Metrics
    /\ fresh \in SUBSET Metrics
    /\ rrd = [m \in Metrics |-> IF m \in fresh THEN Created ELSE None]
    /\ taken = [m \in Metrics |-> {}] /\ after = [m \in Metrics |-> 0]

\* Mutant: a file that exists is kept.
KeepFiles ==
    /\ pc = "down" /\ starts < MaxStarts
    /\ starts' = starts + 1 /\ running' = TRUE /\ pc' = "check"
    /\ fresh' = Metrics
    /\ rrd' = [m \in Metrics |-> IF rrd[m] = None THEN Created ELSE rrd[m]]
    /\ taken' = [m \in Metrics |-> IF rrd[m] = None THEN {} ELSE taken[m]]
    /\ whole' = {m \in Metrics : rrd[m] = None \/ m \in whole}
    /\ after' = [m \in Metrics |-> 0]
    /\ UNCHANGED <<now, wake, late, sample>>

gw_app_init ==
    /\ pc = "down" /\ starts < MaxStarts
    /\ starts' = starts + 1 /\ running' = TRUE /\ pc' = "check"
    /\ fresh' \in SUBSET Metrics
    /\ rrd' = [m \in Metrics |-> IF m \in fresh' THEN Created ELSE rrd[m]]
    /\ taken' = [m \in Metrics |-> IF m \in fresh' THEN {} ELSE taken[m]]
    /\ whole' = fresh' \cup whole
    /\ after' = [m \in Metrics |-> 0]
    /\ UNCHANGED <<now, wake, late, sample>>

\* The process ends, in whatever the collector is doing.
Exit ==
    /\ pc # "down" /\ pc' = "down" /\ sample' = None
    /\ whole' = IF sample = None THEN whole ELSE whole \ {pc}
    /\ UNCHANGED <<now, starts, running, wake, late, rrd, fresh, taken, after>>

gw_app_stop ==
    /\ pc # "down" /\ running /\ running' = FALSE
    /\ UNCHANGED <<now, starts, pc, wake, late, rrd, fresh, sample, history>>

-----------------------------------------------------------------------------
(* gw_os_start.                                                            *)

\* Mutant: the flag is not looked at.
CheckNothing ==
    /\ pc = "check" /\ pc' = "cpu"
    /\ UNCHANGED <<now, starts, running, wake, late, rrd, fresh, sample, history>>

Check ==
    /\ pc = "check" /\ pc' = IF running THEN "cpu" ELSE "ended"
    /\ UNCHANGED <<now, starts, running, wake, late, rrd, fresh, sample, history>>

\* rrd_update of "N:<value>" fails without a file, and for a time that is not
\* after the last.
Updatable(m) == IF rrd[m] = None THEN FALSE ELSE rrd[m].last_up < now

Monitor(m) ==
    /\ pc = m /\ sample = None /\ Updatable(m)
    /\ sample' = [from |-> rrd[m].last_up, at |-> now, by |-> starts]
    /\ rrd' = [rrd EXCEPT ![m] = Written(@, sample')]
    /\ after' = [after EXCEPT ![m] = IF running THEN 0 ELSE @ + 1]
    /\ UNCHANGED <<now, starts, running, pc, wake, late, fresh, whole, taken>>

\* The end of rrd_update, or its error.
Finish(m) ==
    /\ pc = m /\ sample' = None
    /\ \/ /\ sample # None
          /\ rrd' = [rrd EXCEPT ![m] = Updated(@, sample)]
          /\ taken' = [taken EXCEPT ![m] = @ \cup {sample}]
       \/ /\ sample = None /\ ~Updatable(m)
          /\ UNCHANGED <<rrd, taken>>
    /\ UNCHANGED <<now, starts, running, late, fresh, whole, after>>

gw_os_cpu_monitor ==
    \/ Monitor("cpu")
    \/ Finish("cpu") /\ pc' = "memory" /\ UNCHANGED wake

gw_os_memory_monitor ==
    \/ Monitor("memory")
    \/ Finish("memory") /\ pc' = "sleep" /\ wake' = now + Pause

Due == pc \in {"check"} \cup Metrics \/ (pc = "sleep" /\ now >= wake)

Wake ==
    /\ pc = "sleep" /\ now >= wake /\ pc' = "check"
    /\ UNCHANGED <<now, starts, running, wake, late, rrd, fresh, sample, history>>

Tick ==
    /\ now < MaxTime /\ now' = now + 1
    /\ Due => late < MaxLate
    /\ late' = IF Due THEN late + 1 ELSE late
    /\ UNCHANGED <<starts, running, pc, wake, rrd, fresh, sample, history>>

gw_os_start == Check \/ gw_os_cpu_monitor \/ gw_os_memory_monitor \/ Wake

Next == Tick \/ gw_app_init \/ gw_app_stop \/ Exit \/ gw_os_start

Spec == Init /\ [][Next]_vars

-----------------------------------------------------------------------------
(* gw_os_cpu and gw_os_memory.                                             *)

\* Mutant: every row of rrd_fetch is reported.
CountAll == (End - Start) \div Step

Count == (End - Start) \div Step - 1

\* What a request is answered now: by time, the value; -1 if it is unknown.
Times == {Start + i * Step : i \in 0 .. Count - 1}
Reply(m) == [t \in Times |-> Read(rrd[m], t \div Step + 1)]

Answered(m) == pc # "down" /\ rrd[m] # None

-----------------------------------------------------------------------------
(* Properties.                                                             *)

\* The state of the collector and of the round robin files is well formed.
TypeOK ==
    /\ now \in Begin .. MaxTime /\ starts \in 1 .. MaxStarts /\ running \in BOOLEAN
    /\ pc \in {"down", "check", "cpu", "memory", "sleep", "ended"}
    /\ wake \in 0 .. MaxTime + Pause /\ late \in 0 .. MaxLate
    /\ rrd \in [Metrics -> File \cup {None}] /\ fresh \subseteq Metrics
    /\ sample \in Sample \cup {None} /\ whole \subseteq Metrics
    /\ taken \in [Metrics -> SUBSET Sample] /\ after \in [Metrics -> Nat]

\* A reply is about the steps of the last minute that have ended, each labelled
\* with its beginning: count drops the row that rrd_fetch adds for the step
\* that has not.
LastMinuteOnly ==
    Times = {t \in Time : t % Step = 0 /\ t + Step <= now /\ t + Step > now - Window}

Known(m) == IF pc = m /\ sample # None THEN taken[m] \cup {sample} ELSE taken[m]

\* A value in a reply is the average of just the samples whose time meets its
\* step, whatever pauses, stops and restarts came between, if no process ended
\* within rrd_update; a request that comes within it finds each value at the
\* step before its own, or as many steps before as have just ended.
ReportsWhatWasMeasured ==
    \A m \in whole : Answered(m) =>
        \A t \in Times : Reply(m)[t] # Unknown =>
            Reply(m)[t] = {s \in Known(m) : Meets(s, t + rrd[m].ahead * Step)}

\* A reply has -1 only for a step that the last sample does not reach, that
\* began before the file did, or in a pause longer than the heartbeat.
MissesOnlyGaps ==
    \A m \in whole : Answered(m) =>
        \A t \in Times : Reply(m)[t] = Unknown =>
            LET u == t + rrd[m].ahead * Step
            IN  \/ t + Step > rrd[m].last_up
                \/ \A s \in Known(m) : u < s.from
                \/ \E s \in Known(m) : Meets(s, u) /\ s.at - s.from > Heartbeat

\* What a process reports it has measured itself, unless its rrd_create failed
\* and left it the file of the process before it.
OnlyThisProcess ==
    \A m \in fresh : Answered(m) =>
        \A t \in Times : \A s \in Reply(m)[t] : s.by = starts

\* After gw_app_stop the collector ends the pass it is in, at most: it writes
\* no metric twice.
StopsAfterPass == \A m \in Metrics : after[m] <= 1
=============================================================================
