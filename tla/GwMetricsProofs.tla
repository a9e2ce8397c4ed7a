--------------------------- MODULE GwMetricsProofs ---------------------------
(***************************************************************************)
(* Theorems about the metrics of GwMetrics, for every length of the step,  *)
(* the pause, the window and the heartbeat, and any number of restarts.    *)
(***************************************************************************)
EXTENDS GwMetrics, TLAPS

\* rrd_update has written its rows of m.
Within(m) == pc = m /\ sample # None

\* The file and the sample that is being written to it.
FileInv ==
    /\ \A m \in Metrics : rrd[m] # None =>
           /\ rrd[m].last_up <= now
           /\ rrd[m].ahead + (rrd[m].last_up \div Step) <= now \div Step
           /\ rrd[m].ahead = 0 \/ Within(m) \/ m \notin whole
    /\ sample # None =>
           /\ pc \in Metrics /\ rrd[pc] # None /\ sample.by = starts
           /\ sample.from = rrd[pc].last_up /\ sample.from < sample.at
           /\ sample.at <= now /\ rrd[pc].ahead = Elapsed(rrd[pc], sample)

-----------------------------------------------------------------------------
(* Steps.                                                                  *)

LEMMA StepFacts ==
  /\ Step \in Nat /\ Step > 0
  /\ \A a \in Nat : /\ a \div Step \in Nat /\ a % Step \in 0 .. Step - 1
                    /\ a = Step * (a \div Step) + (a % Step)
  /\ \A a, b \in Nat : a <= b => a \div Step <= b \div Step
  <1>1. \A a, s \in Nat : s > 0 => /\ a \div s \in Nat /\ a % s \in 0 .. s - 1
                                   /\ a = s * (a \div s) + (a % s)
    OBVIOUS
  <1>2. \A a, b, s \in Nat : s > 0 /\ a <= b => a \div s <= b \div s
    OBVIOUS
  <1>3. Step \in Nat /\ Step > 0
    BY MetricsConstants
  <1> QED BY <1>1, <1>2, <1>3

LEMMA RowsFacts ==
  /\ Time \subseteq Nat /\ Rows \subseteq Nat /\ MaxTime \div Step \in Rows
  /\ \A t \in Time : t \div Step \in Rows /\ t \div Step + 1 \in Rows
                     /\ t \div Step <= MaxTime \div Step
  <1>1. MaxTime \in Nat /\ Time \subseteq Nat /\ \A t \in Time : t <= MaxTime
    BY MetricsConstants DEF Time
  <1>2. \A t \in Time : t \div Step \in Nat /\ t \div Step <= MaxTime \div Step
    BY <1>1, StepFacts
  <1>3. MaxTime \div Step \in Nat
    BY <1>1, StepFacts
  <1> QED BY <1>1, <1>2, <1>3 DEF Rows

LEMMA NowTime ==
  TypeOK => now \in Time /\ now \in Nat /\ starts \in Nat /\ now - Lead \in Time
  BY MetricsConstants DEF TypeOK, Time

-----------------------------------------------------------------------------
(* Types.                                                                  *)

LEMMA CreatedType == TypeOK => Created \in File
  <1> SUFFICES ASSUME TypeOK PROVE Created \in File
    OBVIOUS
  <1>1. now - Lead \in Time /\ (now - Lead) % Step \in 0 .. Step - 1
    BY NowTime, StepFacts, RowsFacts
  <1>2. [n \in Rows |-> Unknown] \in [Rows -> SUBSET Sample]
    BY DEF Unknown
  <1> QED BY <1>1, <1>2 DEF Created, File

LEMMA EndedType ==
  ASSUME NEW f \in File, NEW s \in Sample, NEW n
  PROVE  Ended(f, s, n) \in SUBSET Sample
  <1>1. \A i : Closed(f, s, i) \in SUBSET Sample
    BY DEF Closed, File, Unknown
  <1> QED BY <1>1 DEF Ended, Unknown

LEMMA ReadType ==
  ASSUME NEW f \in File, NEW n \in Rows,
         f.ahead + (f.last_up \div Step) <= MaxTime \div Step
  PROVE  Read(f, n) \in SUBSET Sample
  <1>1. f.ahead \in Nat /\ f.last_up \div Step \in Nat /\ n \in Nat
        /\ MaxTime \div Step \in Nat
    BY RowsFacts, StepFacts DEF File
  <1>2. n <= f.last_up \div Step => n + f.ahead \in Rows
    BY <1>1 DEF Rows
  <1> QED BY <1>2 DEF Read, File, Unknown

LEMMA WrittenType ==
  ASSUME NEW f \in File, NEW s \in Sample, f.last_up <= s.at,
         f.ahead + (f.last_up \div Step) <= MaxTime \div Step
  PROVE  /\ Written(f, s) \in File
         /\ Written(f, s).last_up = f.last_up /\ Written(f, s).ahead = Elapsed(f, s)
         /\ Elapsed(f, s) + (f.last_up \div Step) = s.at \div Step
  <1>1. /\ f.last_up \in Nat /\ s.at \in Nat
        /\ f.last_up \div Step \in Nat /\ s.at \div Step \in Nat
        /\ f.last_up \div Step <= s.at \div Step
    BY RowsFacts, StepFacts DEF File, Sample
  <1>2. Elapsed(f, s) \in Nat
    BY <1>1 DEF Elapsed
  <1>3. [n \in Rows |-> IF n > f.last_up \div Step /\ n <= s.at \div Step
                        THEN Ended(f, s, n) ELSE Read(f, n)] \in [Rows -> SUBSET Sample]
    BY EndedType, ReadType
  <1>4. /\ Written(f, s) \in File
        /\ Written(f, s).last_up = f.last_up /\ Written(f, s).ahead = Elapsed(f, s)
    <2>1. Begun(f, s) \in SUBSET Sample
      BY DEF Begun, File
    <2>2. (IF Elapsed(f, s) = 0 THEN f.unkn ELSE 0) \in 0 .. Step - 1
      BY StepFacts DEF File
    <2> QED BY <1>2, <1>3, <2>1, <2>2 DEF Written, File
  <1>5. Elapsed(f, s) + (f.last_up \div Step) = s.at \div Step
    BY <1>1 DEF Elapsed
  <1> QED BY <1>4, <1>5

LEMMA UpdatedType ==
  ASSUME NEW f \in File, NEW s \in Sample
  PROVE  /\ Updated(f, s) \in File
         /\ Updated(f, s).last_up = s.at /\ Updated(f, s).ahead = 0
         /\ Updated(f, s).row = f.row /\ Updated(f, s).scratch = f.scratch
  BY DEF Updated, File, Sample

\* The next actions, as what they do to the files.
LEMMA TypeStep == TypeOK /\ FileInv /\ [Next]_vars => TypeOK'
  <1> SUFFICES ASSUME TypeOK, FileInv, [Next]_vars PROVE TypeOK'
    OBVIOUS
  <1>1. CASE Tick
    <2>1. now' \in Begin .. MaxTime /\ late' \in 0 .. MaxLate
      BY <1>1, MetricsConstants DEF Tick, TypeOK
    <2> QED BY <1>1, <2>1 DEF Tick, TypeOK, history
  <1>2. CASE gw_app_init
    <2>1. starts' \in 1 .. MaxStarts
      BY <1>2, MetricsConstants DEF gw_app_init, TypeOK
    <2>2. rrd' \in [Metrics -> File \cup {None}]
      BY <1>2, CreatedType DEF gw_app_init, TypeOK
    <2>3. taken' \in [Metrics -> SUBSET Sample] /\ after' \in [Metrics -> Nat]
      BY <1>2 DEF gw_app_init, TypeOK
    <2>4. fresh' \subseteq Metrics /\ whole' \subseteq Metrics
      BY <1>2 DEF gw_app_init, TypeOK
    <2> QED BY <1>2, <2>1, <2>2, <2>3, <2>4 DEF gw_app_init, TypeOK
  <1>3. CASE gw_app_stop \/ Exit \/ Check \/ Wake
    BY <1>3 DEF gw_app_stop, Exit, Check, Wake, TypeOK, history
  <1>4. ASSUME NEW m \in Metrics, Monitor(m) PROVE TypeOK'
    <2>1. /\ rrd[m] # None /\ rrd[m] \in File
          /\ rrd[m].last_up < now /\ rrd[m].last_up \in Time
      BY <1>4 DEF Monitor, Updatable, TypeOK, File
    <2>2. sample' \in Sample /\ sample'.at = now
      BY <1>4, <2>1, NowTime DEF Monitor, Sample, TypeOK
    <2>3. Written(rrd[m], sample') \in File
      <3>1. now \div Step <= MaxTime \div Step
        BY NowTime, RowsFacts
      <3>2. rrd[m].ahead + (rrd[m].last_up \div Step) <= MaxTime \div Step
        <4>1. rrd[m].ahead + (rrd[m].last_up \div Step) <= now \div Step
          BY <2>1 DEF FileInv
        <4>2. rrd[m].ahead \in Nat /\ rrd[m].last_up \div Step \in Nat
          BY <2>1, RowsFacts, StepFacts DEF File
        <4>3. now \div Step \in Nat /\ MaxTime \div Step \in Nat
          BY NowTime, RowsFacts, StepFacts
        <4> QED BY <3>1, <4>1, <4>2, <4>3
      <3>3. rrd[m].last_up <= sample'.at
        <4>1. now \in Nat /\ rrd[m].last_up \in Nat
          BY <2>1, NowTime DEF Time
        <4> QED BY <2>1, <2>2, <4>1
      <3> QED BY <2>1, <2>2, <3>2, <3>3, WrittenType
    <2>4. rrd' \in [Metrics -> File \cup {None}]
      BY <1>4, <2>3 DEF Monitor, TypeOK
    <2>5. after' \in [Metrics -> Nat]
      BY <1>4 DEF Monitor, TypeOK
    <2> QED BY <1>4, <2>2, <2>4, <2>5 DEF Monitor, TypeOK
  <1>5. ASSUME NEW m \in Metrics, Finish(m)
        PROVE  /\ rrd' \in [Metrics -> File \cup {None}]
               /\ taken' \in [Metrics -> SUBSET Sample]
    <2>1. CASE sample = None
      BY <1>5, <2>1 DEF Finish, TypeOK
    <2>2. CASE sample # None
      <3>1. rrd[m] \in File /\ sample \in Sample
        BY <1>5, <2>2 DEF Finish, FileInv, TypeOK
      <3>2. Updated(rrd[m], sample) \in File
        BY <3>1, UpdatedType
      <3> QED BY <1>5, <2>2, <3>1, <3>2 DEF Finish, TypeOK
    <2> QED BY <2>1, <2>2
  <1>6. ASSUME NEW m \in Metrics, Finish(m), pc' \in {"memory", "sleep"},
               wake' \in {wake, now + Pause}
        PROVE  TypeOK'
    <2>1. wake' \in 0 .. MaxTime + Pause
      BY <1>6, MetricsConstants DEF TypeOK
    <2> QED BY <1>5, <1>6, <2>1 DEF Finish, TypeOK
  <1>7. CASE UNCHANGED vars
    BY <1>7 DEF vars, TypeOK, history
  <1> QED BY <1>1, <1>2, <1>3, <1>4, <1>6, <1>7 DEF Next, gw_os_start, gw_os_cpu_monitor,
         gw_os_memory_monitor, Metrics


-----------------------------------------------------------------------------
(* The file and the update that is under way.                              *)

LEMMA Between ==
  ASSUME TypeOK, NEW m \in Metrics, rrd[m] # None
  PROVE  /\ rrd[m] \in File /\ rrd[m].last_up \in Nat /\ rrd[m].ahead \in Nat
         /\ rrd[m].last_up \div Step \in Nat /\ rrd[m].last_up \in Time
  <1>1. rrd[m] \in File
    BY DEF TypeOK
  <1>2. rrd[m].last_up \in Time /\ rrd[m].ahead \in Nat
    BY <1>1 DEF File
  <1> QED BY <1>1, <1>2, RowsFacts, StepFacts

LEMMA MonitorFacts ==
  ASSUME TypeOK, FileInv, NEW m \in Metrics, Monitor(m)
  PROVE  /\ rrd[m] # None /\ sample' \in Sample /\ sample' # None
         /\ sample'.from = rrd[m].last_up /\ sample'.at = now /\ sample'.by = starts
         /\ rrd[m].last_up < now /\ rrd'[m] = Written(rrd[m], sample')
         /\ rrd'[m] \in File /\ rrd'[m] # None /\ rrd'[m].last_up = rrd[m].last_up
         /\ rrd'[m].ahead = Elapsed(rrd[m], sample')
         /\ rrd'[m].ahead + (rrd'[m].last_up \div Step) = now \div Step
         /\ \A k \in Metrics : k # m => rrd'[k] = rrd[k]
         /\ pc = m /\ pc' = pc /\ now' = now /\ starts' = starts
  <1>1. rrd[m] # None /\ rrd[m].last_up < now
    BY DEF Monitor, Updatable
  <1>2. /\ sample'.from = rrd[m].last_up /\ sample'.at = now /\ sample'.by = starts
        /\ rrd'[m] = Written(rrd[m], sample') /\ pc = m /\ pc' = pc /\ now' = now
        /\ starts' = starts /\ \A k \in Metrics : k # m => rrd'[k] = rrd[k]
    BY DEF Monitor, TypeOK
  <1>3. sample' \in Sample
    BY <1>1, Between, NowTime DEF Monitor, Sample, TypeOK
  <1>4. now \in Nat /\ now \div Step \in Nat /\ MaxTime \div Step \in Nat
        /\ now \div Step <= MaxTime \div Step
    BY NowTime, RowsFacts, StepFacts
  <1>5. rrd[m].ahead + (rrd[m].last_up \div Step) <= MaxTime \div Step
    <2>1. rrd[m].ahead + (rrd[m].last_up \div Step) <= now \div Step
      BY <1>1 DEF FileInv
    <2> QED BY <1>1, <1>4, <2>1, Between
  <1>6. rrd[m].last_up <= sample'.at
    BY <1>1, <1>2, <1>4, Between
  <1>7. /\ Written(rrd[m], sample') \in File
        /\ Written(rrd[m], sample').last_up = rrd[m].last_up
        /\ Written(rrd[m], sample').ahead = Elapsed(rrd[m], sample')
        /\ Elapsed(rrd[m], sample') + (rrd[m].last_up \div Step) = sample'.at \div Step
    BY <1>1, <1>3, <1>5, <1>6, Between, WrittenType
  <1>8. sample' # None /\ rrd'[m] # None
    BY <1>2, <1>7, NoFile, <1>3
  <1> QED BY <1>1, <1>2, <1>3, <1>7, <1>8

LEMMA FinishFacts ==
  ASSUME TypeOK, FileInv, NEW m \in Metrics, Finish(m), sample # None
  PROVE  /\ rrd[m] # None /\ rrd[m] \in File /\ sample \in Sample
         /\ rrd'[m] = Updated(rrd[m], sample) /\ rrd'[m] \in File /\ rrd'[m] # None
         /\ rrd'[m].last_up = sample.at /\ rrd'[m].ahead = 0 /\ sample' = None
         /\ \A k \in Metrics : k # m => rrd'[k] = rrd[k]
         /\ pc = m /\ now' = now /\ whole' = whole
  <1>1. pc = m /\ rrd[m] # None /\ rrd[m] \in File /\ sample \in Sample
    BY Between DEF Finish, FileInv, TypeOK
  <1>2. /\ rrd'[m] = Updated(rrd[m], sample) /\ sample' = None /\ now' = now
        /\ whole' = whole /\ \A k \in Metrics : k # m => rrd'[k] = rrd[k]
    BY DEF Finish, TypeOK
  <1> QED BY <1>1, <1>2, UpdatedType, NoFile

LEMMA FileStep == TypeOK /\ FileInv /\ [Next]_vars => FileInv'
  <1> SUFFICES ASSUME TypeOK, FileInv, [Next]_vars PROVE FileInv'
    OBVIOUS
  <1>1. CASE Tick
    <2>1. now' = now + 1 /\ now \in Nat /\ now' \in Nat /\ now \div Step \in Nat
          /\ now' \div Step \in Nat /\ now \div Step <= now' \div Step
      BY <1>1, NowTime, StepFacts DEF Tick
    <2>2. UNCHANGED <<pc, rrd, sample, whole, starts>>
      BY <1>1 DEF Tick, history
    <2>3. \A m \in Metrics : rrd[m] # None =>
             /\ rrd[m].last_up <= now'
             /\ rrd[m].ahead + (rrd[m].last_up \div Step) <= now' \div Step
      BY <2>1, Between DEF FileInv
    <2>4. sample # None => sample.at <= now'
      <3>1. sample # None => sample.at \in Nat /\ sample.at <= now
        BY DEF FileInv, TypeOK, Sample, Time
      <3> QED BY <2>1, <3>1
    <2> QED BY <2>2, <2>3, <2>4 DEF FileInv, Within, Elapsed
  <1>2. CASE gw_app_init
    <2>1. sample = None /\ sample' = None /\ now' = now
      BY <1>2 DEF gw_app_init, FileInv, Metrics
    <2>2. ASSUME NEW m \in Metrics, rrd'[m] # None
          PROVE  /\ rrd'[m].last_up <= now
                 /\ rrd'[m].ahead + (rrd'[m].last_up \div Step) <= now \div Step
                 /\ rrd'[m].ahead = 0 \/ m \notin whole'
      <3>1. CASE m \in fresh'
        <4>1. rrd'[m] = Created
          BY <1>2, <3>1 DEF gw_app_init
        <4>2. now - Lead \in Nat /\ now - Lead <= now /\ now \in Nat
          BY NowTime, MetricsConstants DEF Time
        <4>3. (now - Lead) \div Step \in Nat /\ (now - Lead) \div Step <= now \div Step
          BY <4>2, StepFacts
        <4>4. rrd'[m].last_up = now - Lead /\ rrd'[m].ahead = 0
          BY <4>1 DEF Created
        <4> QED BY <4>2, <4>3, <4>4
      <3>2. CASE m \notin fresh'
        <4>1. rrd'[m] = rrd[m]
          BY <1>2, <3>2 DEF gw_app_init
        <4>2. rrd[m].ahead = 0 \/ m \notin whole'
          BY <1>2, <2>1, <2>2, <3>2, <4>1 DEF gw_app_init, FileInv, Within
        <4> QED BY <2>2, <4>1, <4>2 DEF FileInv
      <3> QED BY <3>1, <3>2
    <2> QED BY <2>1, <2>2 DEF FileInv
  <1>3. CASE gw_app_stop \/ UNCHANGED vars
    BY <1>3 DEF gw_app_stop, vars, history, FileInv, Within, Elapsed
  <1>4. CASE Exit
    BY <1>4 DEF Exit, history, FileInv, Within
  <1>5. CASE Check \/ Wake
    <2>1. sample = None /\ pc # "down"
      BY <1>5 DEF Check, Wake, FileInv, Metrics
    <2> QED BY <1>5, <2>1 DEF Check, Wake, history, FileInv, Within
  <1>6. ASSUME NEW m \in Metrics, Monitor(m) PROVE FileInv'
    <2>1. \A k \in Metrics : rrd'[k] # None =>
             /\ rrd'[k].last_up <= now
             /\ rrd'[k].ahead + (rrd'[k].last_up \div Step) <= now \div Step
      <3>1. rrd'[m].ahead + (rrd'[m].last_up \div Step) <= now \div Step
        BY <1>6, MonitorFacts, NowTime, StepFacts
      <3>2. rrd'[m].last_up <= now
        BY <1>6, MonitorFacts, NowTime, Between
      <3> QED BY <1>6, <3>1, <3>2, MonitorFacts DEF FileInv
    <2>2. \A k \in Metrics : rrd'[k] # None =>
             rrd'[k].ahead = 0 \/ Within(k)' \/ k \notin whole'
      <3>1. sample = None /\ pc # "down" /\ whole' = whole
        BY <1>6 DEF Monitor, Metrics
      <3> QED BY <1>6, <3>1, MonitorFacts DEF FileInv, Within
    <2>3. Elapsed(rrd'[m], sample') = Elapsed(rrd[m], sample')
      BY <1>6, MonitorFacts DEF Elapsed
    <2>4. sample'.from < sample'.at /\ sample'.at <= now
      BY <1>6, MonitorFacts, NowTime
    <2>5. Elapsed(rrd[pc], sample)' = Elapsed(rrd'[m], sample')
      BY <1>6, MonitorFacts DEF Elapsed
    <2> QED BY <1>6, <2>1, <2>2, <2>3, <2>4, <2>5, MonitorFacts DEF FileInv
  <1>7. ASSUME NEW m \in Metrics, Finish(m) PROVE FileInv'
    <2>1. CASE sample = None
      <3>1. pc # "down" /\ sample' = None /\ UNCHANGED <<now, rrd, whole>>
        BY <1>7, <2>1 DEF Finish, Metrics
      <3> QED BY <2>1, <3>1 DEF FileInv, Within
    <2>2. CASE sample # None
      <3>1. sample.at \in Nat /\ now \in Nat /\ sample.at <= now
        BY <1>7, <2>2, FinishFacts, NowTime DEF FileInv, Sample, Time
      <3>2. sample.at \div Step <= now \div Step /\ sample.at \div Step \in Nat
        BY <3>1, StepFacts
      <3>3. pc # "down" /\ \A k \in Metrics : k # m => ~Within(k)
        BY <1>7, <2>2, FinishFacts DEF Within, Metrics
      <3> QED BY <1>7, <2>2, <3>1, <3>2, <3>3, FinishFacts DEF FileInv, Within
    <2> QED BY <2>1, <2>2
  <1> QED BY <1>1, <1>2, <1>3, <1>4, <1>5, <1>6, <1>7 DEF Next, gw_os_start,
         gw_os_cpu_monitor, gw_os_memory_monitor, Metrics


LEMMA InitInv == Init => TypeOK /\ FileInv
  <1> SUFFICES ASSUME Init PROVE TypeOK /\ FileInv
    OBVIOUS
  <1>1. now \in Begin .. MaxTime /\ now \in Nat /\ now - Lead \in Time
        /\ now - Lead \in Nat /\ now - Lead <= now
    BY MetricsConstants DEF Init, Time
  <1>2. /\ (now - Lead) \div Step \in Nat /\ (now - Lead) \div Step <= now \div Step
        /\ (now - Lead) % Step \in 0 .. Step - 1
    BY <1>1, StepFacts
  <1>3. [n \in Rows |-> Unknown] \in [Rows -> SUBSET Sample]
    BY DEF Unknown
  <1>4. Created \in File
    BY <1>1, <1>2, <1>3 DEF Created, File
  <1>5. rrd \in [Metrics -> File \cup {None}] /\ fresh \subseteq Metrics
    BY <1>4 DEF Init
  <1>6. starts \in 1 .. MaxStarts /\ wake \in 0 .. MaxTime + Pause /\ late \in 0 .. MaxLate
    BY MetricsConstants DEF Init
  <1>7. TypeOK
    BY <1>1, <1>5, <1>6 DEF Init, TypeOK
  <1>8. \A m \in Metrics : rrd[m] # None => rrd[m] = Created
    BY DEF Init
  <1>9. Created.last_up = now - Lead /\ Created.ahead = 0
    BY DEF Created
  <1>10. sample = None
    BY DEF Init
  <1> QED BY <1>1, <1>2, <1>7, <1>8, <1>9, <1>10 DEF FileInv

LEMMA Always == Spec => [](TypeOK /\ FileInv)
  <1>1. TypeOK /\ FileInv /\ [Next]_vars => (TypeOK /\ FileInv)'
    BY TypeStep, FileStep
  <1> QED BY InitInv, <1>1, PTL DEF Spec

\* Whatever the collector, requests, stops and restarts do, the files are well
\* formed: no row of rrd_update is written outside of the file.
THEOREM TypeCorrect == Spec => []TypeOK
  <1> QED BY Always, PTL


-----------------------------------------------------------------------------
(* After gw_app_stop.                                                      *)

\* A metric that was written since gw_app_stop is behind the collector, and
\* the flag is not set again before the process ends.
PassInv ==
    \A m \in Metrics :
        /\ after[m] \in {0, 1}
        /\ after[m] = 1 => /\ ~running /\ ~(pc = m /\ sample = None)
                           /\ m = "memory" => pc # "cpu"

LEMMA PassStep == TypeOK /\ FileInv /\ PassInv /\ [Next]_vars => PassInv'
  <1> SUFFICES ASSUME TypeOK, FileInv, PassInv, [Next]_vars PROVE PassInv'
    OBVIOUS
  <1>1. CASE Tick \/ gw_app_stop \/ UNCHANGED vars
    BY <1>1 DEF Tick, gw_app_stop, vars, history, PassInv
  <1>2. CASE gw_app_init
    BY <1>2 DEF gw_app_init, PassInv
  <1>3. CASE Exit \/ Check \/ Wake
    <2>1. pc' \notin Metrics \/ (running /\ running' = running)
      BY <1>3 DEF Exit, Check, Wake, Metrics
    <2>2. after' = after /\ running' = running
      BY <1>3 DEF Exit, Check, Wake, history
    <2> QED BY <2>1, <2>2 DEF PassInv, Metrics
  <1>4. ASSUME NEW m \in Metrics, Monitor(m) PROVE PassInv'
    <2>1. /\ pc = m /\ sample = None /\ pc' = m /\ sample' # None /\ running' = running
      BY <1>4, MonitorFacts DEF Monitor
    <2>2. after[m] = 0
      BY <2>1 DEF PassInv
    <2>3. /\ after'[m] = IF running THEN 0 ELSE 1
          /\ \A k \in Metrics : k # m => after'[k] = after[k]
      BY <1>4, <2>2 DEF Monitor, TypeOK
    <2> QED BY <2>1, <2>3 DEF PassInv, Metrics
  <1>5. CASE gw_os_cpu_monitor /\ ~Monitor("cpu")
    <2>1. pc = "cpu" /\ pc' = "memory" /\ UNCHANGED <<after, running>>
      BY <1>5 DEF gw_os_cpu_monitor, Finish
    <2> QED BY <2>1 DEF PassInv, Metrics
  <1>6. CASE gw_os_memory_monitor /\ ~Monitor("memory")
    <2>1. pc' = "sleep" /\ UNCHANGED <<after, running>>
      BY <1>6 DEF gw_os_memory_monitor, Finish
    <2> QED BY <2>1 DEF PassInv, Metrics
  <1> QED BY <1>1, <1>2, <1>3, <1>4, <1>5, <1>6 DEF Next, gw_os_start, gw_os_cpu_monitor,
         gw_os_memory_monitor, Metrics

\* After gw_app_stop no metric is written twice: gw_os_start looks at its flag
\* in every pass, and a pass writes each metric once.
THEOREM StopsSoon == Spec => []StopsAfterPass
  <1>1. Init => PassInv
    BY DEF Init, PassInv
  <1>2. PassInv => StopsAfterPass
    BY DEF PassInv, StopsAfterPass
  <1> QED BY Always, <1>1, <1>2, PassStep, PTL DEF Spec

-----------------------------------------------------------------------------
(* Whose samples a file holds.                                             *)

OwnFile(f) ==
    /\ \A s \in f.scratch : s.by = starts
    /\ \A n \in Rows : \A s \in f.row[n] : s.by = starts
OwnInv == \A m \in fresh : rrd[m] # None => OwnFile(rrd[m])

\* Every row that is read is one of the file.
LEMMA ReadOwn ==
  ASSUME TypeOK, FileInv, NEW m \in Metrics, rrd[m] # None, OwnFile(rrd[m]),
         NEW n \in Nat, NEW s \in Read(rrd[m], n)
  PROVE  s.by = starts
  <1>1. now \in Nat /\ now \div Step \in Nat /\ MaxTime \div Step \in Nat
        /\ now \div Step <= MaxTime \div Step
    BY NowTime, RowsFacts, StepFacts
  <1>2. rrd[m].ahead + (rrd[m].last_up \div Step) <= now \div Step
    BY DEF FileInv
  <1>3. n <= rrd[m].last_up \div Step => n + rrd[m].ahead \in Rows
    BY <1>1, <1>2, Between DEF Rows
  <1> QED BY <1>3 DEF Read, Unknown, OwnFile

LEMMA OwnWritten ==
  ASSUME TypeOK, FileInv, NEW m \in Metrics, Monitor(m), OwnFile(rrd[m])
  PROVE  OwnFile(rrd'[m])
  <1>1. /\ rrd[m] # None /\ rrd'[m] = Written(rrd[m], sample') /\ sample'.by = starts
        /\ rrd[m] \in File
    BY MonitorFacts, Between
  <1>2. \A n, i : \A s \in Closed(rrd[m], sample', i) : s.by = starts
    BY <1>1 DEF Closed, OwnFile, Unknown
  <1>3. \A n : \A s \in Ended(rrd[m], sample', n) : s.by = starts
    BY <1>1, <1>2 DEF Ended, Unknown
  <1>4. \A n \in Rows : \A s \in rrd'[m].row[n] : s.by = starts
    <2> SUFFICES ASSUME NEW n \in Rows, NEW s \in rrd'[m].row[n] PROVE s.by = starts
      OBVIOUS
    <2>1. n \in Nat
      BY RowsFacts
    <2>2. s \in Ended(rrd[m], sample', n) \/ s \in Read(rrd[m], n)
      BY <1>1 DEF Written, File
    <2> QED BY <1>1, <1>3, <2>1, <2>2, ReadOwn
  <1>5. \A s \in rrd'[m].scratch : s.by = starts
    BY <1>1 DEF Written, Begun, OwnFile
  <1> QED BY <1>4, <1>5 DEF OwnFile

LEMMA OwnStep == TypeOK /\ FileInv /\ OwnInv /\ [Next]_vars => OwnInv'
  <1> SUFFICES ASSUME TypeOK, FileInv, OwnInv, [Next]_vars PROVE OwnInv'
    OBVIOUS
  <1>1. CASE UNCHANGED <<rrd, fresh, starts>>
    BY <1>1 DEF OwnInv, OwnFile
  <1>2. CASE gw_app_init
    <2>1. \A m \in fresh' : rrd'[m] = Created
      BY <1>2 DEF gw_app_init
    <2> QED BY <2>1 DEF OwnInv, OwnFile, Created, Unknown
  <1>3. ASSUME NEW m \in Metrics, Monitor(m) PROVE OwnInv'
    <2>1. fresh' = fresh /\ starts' = starts /\ fresh \subseteq Metrics
      BY <1>3 DEF Monitor, TypeOK
    <2>2. \A k \in Metrics : k # m => rrd'[k] = rrd[k]
      BY <1>3, MonitorFacts
    <2>3. m \in fresh => OwnFile(rrd'[m])
      BY <1>3, MonitorFacts, OwnWritten DEF OwnInv
    <2> QED BY <2>1, <2>2, <2>3 DEF OwnInv, OwnFile
  <1>4. ASSUME NEW m \in Metrics, Finish(m) PROVE OwnInv'
    <2>1. fresh' = fresh /\ starts' = starts /\ fresh \subseteq Metrics
      BY <1>4 DEF Finish, TypeOK
    <2>2. CASE sample = None
      BY <1>4, <2>1, <2>2 DEF Finish, OwnInv, OwnFile
    <2>3. CASE sample # None
      <3>1. /\ rrd[m] # None /\ rrd[m] \in File /\ rrd'[m] = Updated(rrd[m], sample)
            /\ sample.by = starts /\ \A k \in Metrics : k # m => rrd'[k] = rrd[k]
        BY <1>4, <2>3, FinishFacts DEF FileInv
      <3>2. rrd'[m].row = rrd[m].row /\ rrd'[m].scratch = rrd[m].scratch
        BY <1>4, <2>3, <3>1, FinishFacts, UpdatedType
      <3>3. m \in fresh => OwnFile(rrd'[m])
        BY <3>1, <3>2 DEF OwnInv, OwnFile
      <3> QED BY <2>1, <3>1, <3>3 DEF OwnInv, OwnFile
    <2> QED BY <2>2, <2>3
  <1> QED BY <1>1, <1>2, <1>3, <1>4 DEF Next, gw_os_start, gw_os_cpu_monitor,
         gw_os_memory_monitor, Metrics, Tick, gw_app_stop, Exit, Check, Wake, vars


-----------------------------------------------------------------------------
(* The times of a reply.                                                   *)

First == (now - Window) \div Step
Last == now \div Step

LEMMA Bounds ==
  TypeOK => /\ First \in Nat /\ Last \in Nat /\ now \in Nat /\ now - Window \in Nat
            /\ Start = Step * First /\ End = Step * Last + Step /\ Count = Last - First
  <1> SUFFICES ASSUME TypeOK
               PROVE  /\ First \in Nat /\ Last \in Nat /\ now \in Nat /\ now - Window \in Nat
                      /\ Start = Step * First /\ End = Step * Last + Step
                      /\ Count = Last - First
    OBVIOUS
  <1>1. now \in Nat /\ now - Window \in Nat
    BY MetricsConstants DEF TypeOK
  <1>2. /\ First \in Nat /\ Last \in Nat
        /\ now - Window = Step * First + ((now - Window) % Step)
        /\ now = Step * Last + (now % Step)
        /\ (now - Window) % Step \in 0 .. Step - 1 /\ now % Step \in 0 .. Step - 1
    BY <1>1, StepFacts DEF First, Last
  <1>3. Start = Step * First /\ End = Step * Last + Step
    BY <1>1, <1>2, StepFacts DEF Start, End
  <1>4. \A s, a, b \in Nat : s > 0 => (s * b + s - s * a) \div s = b + 1 - a
    <2>1. \A s, a, b \in Nat : s * b + s - s * a = s * (b + 1 - a)
      OBVIOUS
    <2>2. \A s \in Nat, c \in Int : s > 0 => (s * c) \div s = c
      OBVIOUS
    <2> QED BY <2>1, <2>2
  <1>5. (End - Start) \div Step = Last + 1 - First
    BY <1>2, <1>3, <1>4, StepFacts
  <1> QED BY <1>1, <1>2, <1>3, <1>5 DEF Count

LEMMA TimesAre == TypeOK => Times = {Step * k : k \in First .. Last - 1}
  <1> SUFFICES ASSUME TypeOK PROVE Times = {Step * k : k \in First .. Last - 1}
    OBVIOUS
  <1>1. ASSUME NEW i \in 0 .. Count - 1
        PROVE  First + i \in First .. Last - 1 /\ Start + i * Step = Step * (First + i)
    <2>1. i \in Nat
      BY Bounds
    <2>2. First + i \in First .. Last - 1
      BY <2>1, Bounds
    <2>3. Step * First + i * Step = Step * (First + i)
      BY <2>1, Bounds, StepFacts
    <2> QED BY <2>2, <2>3, Bounds
  <1>2. ASSUME NEW k \in First .. Last - 1
        PROVE  k - First \in 0 .. Count - 1 /\ Start + (k - First) * Step = Step * k
    <2>1. k \in Nat /\ k - First \in Nat /\ k - First \in 0 .. Count - 1
      BY Bounds
    <2>2. Step * First + (k - First) * Step = Step * k
      BY <2>1, Bounds, StepFacts
    <2> QED BY <2>1, <2>2, Bounds
  <1> QED BY <1>1, <1>2 DEF Times

LEMMA TimeNat ==
  ASSUME TypeOK, NEW t \in Times
  PROVE  /\ t \in Nat /\ t \div Step \in First .. Last - 1 /\ t = Step * (t \div Step)
  <1>1. PICK k \in First .. Last - 1 : t = Step * k
    BY TimesAre
  <1>2. k \in Nat
    BY Bounds
  <1>3. \A s, c \in Nat : s > 0 => (s * c) \div s = c /\ s * c \in Nat
    OBVIOUS
  <1> QED BY <1>1, <1>2, <1>3, StepFacts

LEMMA LastMinuteType == TypeOK => LastMinuteOnly
  <1> SUFFICES ASSUME TypeOK PROVE LastMinuteOnly
    OBVIOUS
  <1>1. /\ now = Step * Last + (now % Step) /\ now % Step \in 0 .. Step - 1
        /\ now - Window = Step * First + ((now - Window) % Step)
        /\ (now - Window) % Step \in 0 .. Step - 1
    BY Bounds, StepFacts DEF First, Last
  <1>2. ASSUME NEW k \in First .. Last - 1
        PROVE  /\ Step * k \in Time /\ (Step * k) % Step = 0
               /\ Step * k + Step <= now /\ Step * k + Step > now - Window
    <2>1. k \in Nat /\ First <= k /\ k + 1 <= Last
      BY Bounds
    <2>2. Step * k \in Nat /\ Step * k + Step = Step * (k + 1)
      BY <2>1, StepFacts
    <2>3. Step * (k + 1) <= Step * Last /\ Step * First <= Step * k
      BY <2>1, Bounds, StepFacts
    <2>4. Step * k + Step <= now
      BY <1>1, <2>2, <2>3, Bounds, StepFacts
    <2>5. Step * k + Step > now - Window
      BY <1>1, <2>2, <2>3, Bounds, StepFacts
    <2>6. \A s, c \in Nat : s > 0 => (s * c) % s = 0
      OBVIOUS
    <2>7. now <= MaxTime /\ MaxTime \in Nat
      BY MetricsConstants DEF TypeOK
    <2>8. Step * k \in Time
      BY <2>2, <2>4, <2>7, Bounds, StepFacts DEF Time
    <2> QED BY <2>1, <2>4, <2>5, <2>6, <2>8, StepFacts
  <1>3. ASSUME NEW t \in Time, t % Step = 0, t + Step <= now, t + Step > now - Window
        PROVE  \E k \in First .. Last - 1 : t = Step * k
    <2>1. t \in Nat /\ t \div Step \in Nat /\ t = Step * (t \div Step)
      BY <1>3, RowsFacts, StepFacts
    <2> DEFINE k == t \div Step
    <2>2. k \in Nat /\ t = Step * k
      BY <2>1
    <2> HIDE DEF k
    <2>3. k < Last
      <3>1. Step * k + Step < Step * Last + Step
        BY <1>1, <1>3, <2>2, Bounds, StepFacts
      <3> QED BY <2>2, <3>1, Bounds, StepFacts
    <2>4. First <= k
      <3>1. Step * First < Step * k + Step
        <4>1. (now - Window) % Step >= 0 /\ (now - Window) % Step \in Int
          BY <1>1, StepFacts
        <4>2. Step * First \in Nat /\ Step * First <= now - Window
          BY <1>1, <4>1, Bounds, StepFacts
        <4> QED BY <1>3, <2>2, <4>2, Bounds, StepFacts
      <3>2. Step * k + Step = Step * (k + 1)
        BY <2>2, StepFacts
      <3>3. First < k + 1
        BY <2>2, <3>1, <3>2, Bounds, StepFacts
      <3> QED BY <2>2, <3>3, Bounds
    <2> QED BY <2>2, <2>3, <2>4, Bounds
  <1>4. Times \subseteq {t \in Time : t % Step = 0 /\ t + Step <= now /\ t + Step > now - Window}
    BY <1>2, TimesAre
  <1>5. {t \in Time : t % Step = 0 /\ t + Step <= now /\ t + Step > now - Window} \subseteq Times
    BY <1>3, TimesAre
  <1> QED BY <1>4, <1>5 DEF LastMinuteOnly

\* count drops just the row of the step that has not ended: a reply is about
\* the steps of the last minute, each labelled with its beginning.
THEOREM LastMinute == Spec => []LastMinuteOnly
  <1> QED BY Always, LastMinuteType, PTL

\* A process reports what it has measured itself, if its rrd_create has made
\* the file anew.
THEOREM ReportsItsOwn == Spec => []OnlyThisProcess
  <1>1. Init => OwnInv
    BY DEF Init, OwnInv, OwnFile, Created, Unknown
  <1>2. TypeOK /\ FileInv /\ OwnInv => OnlyThisProcess
    <2> SUFFICES ASSUME TypeOK, FileInv, OwnInv, NEW m \in fresh, Answered(m),
                        NEW t \in Times, NEW s \in Reply(m)[t]
                 PROVE  s.by = starts
      BY DEF OnlyThisProcess
    <2>1. m \in Metrics /\ rrd[m] # None /\ OwnFile(rrd[m])
      BY DEF TypeOK, Answered, OwnInv
    <2>2. t \div Step + 1 \in Nat /\ s \in Read(rrd[m], t \div Step + 1)
      BY TimeNat, Bounds DEF Reply
    <2> QED BY <2>1, <2>2, ReadOwn
  <1> QED BY Always, <1>1, <1>2, OwnStep, PTL DEF Spec


-----------------------------------------------------------------------------
(* What a row says.                                                        *)

\* The samples whose time meets the step that ends at n * Step.
In(K, n) == {s \in K : s.from < Step * n /\ s.at > Step * n - Step}

\* Rows are of the samples taken, and scratch of those that reach into the
\* step that is open.
RowsOf(m) ==
    rrd[m] # None =>
        /\ \A s \in taken[m] : s.from < s.at /\ s.at <= rrd[m].last_up
        /\ m \in whole =>
              /\ \A n \in Rows : n <= (rrd[m].last_up \div Step) + rrd[m].ahead =>
                     rrd[m].row[n] \in {{}, In(Known(m), n)}
              /\ ~Within(m) => rrd[m].scratch =
                     {s \in taken[m] : s.at > Step * (rrd[m].last_up \div Step)}
              /\ Within(m) => rrd[m].scratch =
                     {s \in Known(m) : s.at > Step * (sample.at \div Step)}

RowInv == \A m \in Metrics : RowsOf(m)

LEMMA StepOf ==
  \A a \in Nat : /\ Step * (a \div Step) <= a /\ a < Step * (a \div Step) + Step
                 /\ Step * (a \div Step) \in Nat
                 /\ a % Step = 0 <=> a = Step * (a \div Step)
  <1> SUFFICES ASSUME NEW a \in Nat
               PROVE  /\ Step * (a \div Step) <= a /\ a < Step * (a \div Step) + Step
                      /\ Step * (a \div Step) \in Nat
                      /\ a % Step = 0 <=> a = Step * (a \div Step)
    OBVIOUS
  <1>1. /\ a \div Step \in Nat /\ a % Step \in 0 .. Step - 1
        /\ a = Step * (a \div Step) + (a % Step) /\ Step \in Nat
    BY StepFacts
  <1>2. Step * (a \div Step) \in Nat
    BY <1>1
  <1> QED BY <1>1, <1>2

LEMMA Times2 ==
  \A a, b \in Nat : /\ a <= b => Step * a <= Step * b
                    /\ a < b => Step * a + Step <= Step * b
                    /\ Step * a \in Nat
  <1>1. \A s, a, b \in Nat : /\ a <= b => s * a <= s * b
                             /\ a < b => s * a + s <= s * b
                             /\ s * a \in Nat
    <2>1. \A s, a, b \in Nat : a <= b => s * a <= s * b
      OBVIOUS
    <2>2. \A s, a \in Nat : s * (a + 1) = s * a + s /\ s * a \in Nat
      OBVIOUS
    <2>3. ASSUME NEW s \in Nat, NEW a \in Nat, NEW b \in Nat, a < b
          PROVE  s * a + s <= s * b
      <3>1. a + 1 \in Nat /\ a + 1 <= b
        BY <2>3
      <3> QED BY <2>1, <2>2, <3>1
    <2> QED BY <2>1, <2>2, <2>3
  <1> QED BY <1>1, StepFacts

\* An update of the file f with the sample s, after the samples K.
Follows(f, s, K) ==
    /\ f \in File /\ s \in Sample /\ K \subseteq Sample
    /\ s.from = f.last_up /\ s.from < s.at
    /\ \A o \in K : o.from < o.at /\ o.at <= f.last_up
    /\ f.scratch = {o \in K : o.at > Step * (f.last_up \div Step)}

LEMMA FollowsNat ==
  ASSUME NEW f, NEW s, NEW K, Follows(f, s, K)
  PROVE  /\ f.last_up \in Nat /\ s.at \in Nat /\ s.from \in Nat
         /\ f.last_up \div Step \in Nat /\ s.at \div Step \in Nat
         /\ f.last_up \div Step <= s.at \div Step
         /\ \A o \in K : o.from \in Nat /\ o.at \in Nat
  <1>1. /\ f.last_up \in Nat /\ s.at \in Nat /\ s.from \in Nat /\ f.last_up <= s.at
        /\ \A o \in K : o.from \in Nat /\ o.at \in Nat
    BY DEF Follows, File, Sample, Time
  <1> QED BY <1>1, StepFacts

\* The sample that ends a step has a part in it.
LEMMA SampleMeets ==
  ASSUME NEW f, NEW s, NEW K, Follows(f, s, K), NEW n \in Rows,
         f.last_up \div Step < n, n <= s.at \div Step
  PROVE  s.from < Step * n /\ s.at > Step * n - Step
  <1> DEFINE p == f.last_up \div Step
  <1>1. n \in Nat /\ p \in Nat /\ Step \in Nat /\ Step > 0 /\ Step * n \in Nat
    BY RowsFacts, StepFacts, FollowsNat, Times2
  <1>2. /\ Step * p <= f.last_up /\ f.last_up < Step * p + Step /\ Step * p \in Nat
        /\ Step * p + Step <= Step * n
    BY <1>1, FollowsNat, StepOf, Times2
  <1>3. Step * n <= s.at
    <2>1. Step * n <= Step * (s.at \div Step) /\ Step * (s.at \div Step) <= s.at
          /\ Step * (s.at \div Step) \in Nat
      BY <1>1, FollowsNat, StepOf, Times2
    <2> QED BY <1>1, <2>1, FollowsNat
  <1>4. s.from = f.last_up /\ f.last_up \in Nat /\ s.at \in Nat
    BY FollowsNat DEF Follows
  <1> HIDE DEF p
  <1>5. s.from < Step * n
    BY <1>1, <1>2, <1>4
  <1>6. s.at > Step * n - Step
    BY <1>1, <1>3, <1>4
  <1> QED BY <1>5, <1>6

LEMMA NewRow ==
  ASSUME NEW f, NEW s, NEW K, Follows(f, s, K), NEW n \in Rows,
         f.last_up \div Step < n, n <= s.at \div Step
  PROVE  Ended(f, s, n) \in {{}, In(K \cup {s}, n)}
  <1> DEFINE p == f.last_up \div Step
  <1>1. n \in Nat /\ p \in Nat /\ Step \in Nat /\ Step > 0 /\ Step * n \in Nat
    BY RowsFacts, StepFacts, FollowsNat, Times2
  <1>2. /\ Step * p <= f.last_up /\ f.last_up < Step * p + Step /\ Step * p \in Nat
        /\ Step * p + Step <= Step * n
    BY <1>1, FollowsNat, StepOf, Times2
  <1>4. s.from < Step * n /\ s.at > Step * n - Step
    BY SampleMeets
  <1>5. \A o \in K : o.from < Step * n
    BY <1>1, <1>2, FollowsNat DEF Follows
  <1>6. ASSUME n = p + 1 PROVE f.scratch \cup {s} = In(K \cup {s}, n)
    <2>1. Step * n - Step = Step * p
      BY <1>1, <1>6
    <2>2. f.scratch = {o \in K : o.at > Step * n - Step}
      BY <2>1 DEF Follows
    <2> QED BY <1>4, <1>5, <2>2 DEF In
  <1>7. ASSUME n # p + 1 \/ Open(f) = 0 PROVE In(K \cup {s}, n) = {s}
    <2>1. f.last_up <= Step * n - Step
      <3>1. CASE n # p + 1
        <4>1. p + 1 \in Nat /\ p + 1 < n
          BY <1>1, <3>1
        <4>2. Step * (p + 1) + Step <= Step * n
          BY <1>1, <4>1, Times2
        <4>3. Step * (p + 1) = Step * p + Step
          BY <1>1
        <4> QED BY <1>1, <1>2, <4>2, <4>3, FollowsNat
      <3>2. CASE Open(f) = 0
        <4>1. f.last_up % Step \in 0 .. Step - 1
          BY StepFacts, FollowsNat
        <4>2. \A a \in 1 .. Step - 1 : a % Step = a
          BY <1>1
        <4>3. f.last_up % Step = 0
          BY <1>1, <3>2, <4>1, <4>2 DEF Open
        <4>4. f.last_up = Step * p
          BY <4>3, StepOf, FollowsNat
        <4> QED BY <1>1, <1>2, <4>4
      <3> QED BY <1>7, <3>1, <3>2
    <2>2. \A o \in K : ~(o.at > Step * n - Step)
      BY <1>1, <2>1, FollowsNat DEF Follows
    <2> QED BY <1>4, <2>2 DEF In
  <1>8. ASSUME Open(f) = 0 PROVE f.scratch = {}
    <2>1. f.last_up % Step \in 0 .. Step - 1
      BY StepFacts, FollowsNat
    <2>2. \A a \in 1 .. Step - 1 : a % Step = a
      BY <1>1
    <2>3. f.last_up % Step = 0
      BY <1>1, <1>8, <2>1, <2>2 DEF Open
    <2>4. f.last_up = Step * p
      BY <2>3, StepOf, FollowsNat
    <2>5. \A o \in K : ~(o.at > Step * p)
      BY <2>4, FollowsNat DEF Follows
    <2> QED BY <2>5 DEF Follows
  <1>9. CASE Elapsed(f, s) > 1 /\ Open(f) > 0
    <2>1. Ended(f, s, n) \in {{}, IF n = p + 1 THEN f.scratch \cup {s} ELSE {s}}
      BY <1>9 DEF Ended, Closed, Unknown
    <2> QED BY <1>6, <1>7, <2>1
  <1>10. CASE ~(Elapsed(f, s) > 1 /\ Open(f) > 0)
    <2>1. Ended(f, s, n) \in {{}, f.scratch \cup {s}}
      BY <1>10 DEF Ended, Closed, Unknown
    <2>2. CASE n = p + 1
      BY <1>6, <2>1, <2>2
    <2>3. CASE n # p + 1
      <3>1. Elapsed(f, s) > 1
        BY <1>1, <2>3, FollowsNat DEF Elapsed
      <3>2. Open(f) \in Nat
        BY <1>1, StepFacts, FollowsNat DEF Open
      <3>3. Open(f) = 0
        BY <1>10, <3>1, <3>2
      <3> QED BY <1>7, <1>8, <2>1, <3>3
    <2> QED BY <2>2, <2>3
  <1> QED BY <1>9, <1>10

LEMMA NewScratch ==
  ASSUME NEW f, NEW s, NEW K, Follows(f, s, K)
  PROVE  Begun(f, s) = {o \in K \cup {s} : o.at > Step * (s.at \div Step)}
  <1>1. /\ Step * (s.at \div Step) <= s.at /\ Step * (s.at \div Step) \in Nat
        /\ s.at % Step = 0 <=> s.at = Step * (s.at \div Step)
        /\ Step * (f.last_up \div Step) <= f.last_up
        /\ f.last_up < Step * (f.last_up \div Step) + Step
        /\ Step * (f.last_up \div Step) \in Nat /\ Step \in Nat
    BY FollowsNat, StepOf, StepFacts
  <1>2. CASE Elapsed(f, s) = 0
    <2>1. s.at \div Step = f.last_up \div Step
      BY <1>2, FollowsNat DEF Elapsed
    <2>2. s.at > Step * (f.last_up \div Step)
      BY <1>1, FollowsNat DEF Follows
    <2> QED BY <1>2, <2>1, <2>2 DEF Begun, Follows
  <1>3. CASE Elapsed(f, s) # 0
    <2>1. f.last_up \div Step < s.at \div Step
      BY <1>3, FollowsNat DEF Elapsed
    <2>2. Step * (f.last_up \div Step) + Step <= Step * (s.at \div Step)
      BY <2>1, FollowsNat, Times2
    <2>3. \A o \in K : ~(o.at > Step * (s.at \div Step))
      BY <1>1, <2>2, FollowsNat DEF Follows
    <2>4. Begun(f, s) = IF s.at % Step = 0 THEN {} ELSE {s}
      BY <1>3 DEF Begun
    <2> QED BY <1>1, <2>3, <2>4, FollowsNat
  <1> QED BY <1>2, <1>3


\* Steps that change nothing of the file of m, and are not within an update.
LEMMA RowsSame ==
  ASSUME NEW m \in Metrics, RowsOf(m), rrd'[m] = rrd[m], taken'[m] = taken[m],
         m \in whole' => m \in whole, ~Within(m), ~Within(m)'
  PROVE  RowsOf(m)'
  BY DEF RowsOf, Known, Within, In

LEMMA RowsFresh ==
  ASSUME NEW m \in Metrics, rrd'[m] = Created, taken'[m] = {}, ~Within(m)'
  PROVE  RowsOf(m)'
  BY DEF RowsOf, Known, Within, In, Created, Unknown

LEMMA MonitorRows ==
  ASSUME TypeOK, FileInv, NEW m \in Metrics, RowsOf(m), Monitor(m)
  PROVE  RowsOf(m)'
  <1> DEFINE f == rrd[m]
             g == rrd'[m]
             s == sample'
             K == taken[m]
  <1>1. /\ taken' = taken /\ whole' = whole /\ pc = m /\ pc' = m /\ sample = None
        /\ g = Written(f, s) /\ s # None /\ g.last_up = f.last_up /\ f # None
        /\ s \in Sample /\ s.from = f.last_up /\ s.at = now /\ f.last_up < now
    BY MonitorFacts DEF Monitor
  <1>2. ~Within(m) /\ Within(m)' /\ Known(m) = K /\ Known(m)' = K \cup {s}
    BY <1>1 DEF Within, Known
  <1>3. CASE m \notin whole
    BY <1>1, <1>3 DEF RowsOf
  <1>4. CASE m \in whole
    <2>1. f.ahead = 0 /\ f \in File /\ f.last_up \div Step \in Nat
      BY <1>1, <1>2, <1>4, Between DEF FileInv
    <2>2. Follows(f, s, K)
      BY <1>1, <1>2, <1>4, <2>1 DEF Follows, RowsOf, TypeOK
    <2>3. g.scratch = Begun(f, s) /\ g.ahead = Elapsed(f, s)
      BY <1>1, MonitorFacts DEF Written
    <2>4. g.scratch = {o \in K \cup {s} : o.at > Step * (s.at \div Step)}
      BY <2>2, <2>3, NewScratch
    <2>5. (g.last_up \div Step) + g.ahead = s.at \div Step
      BY <1>1, <2>1, <2>2, <2>3, FollowsNat DEF Elapsed
    <2>6. ASSUME NEW n \in Rows, n <= s.at \div Step
          PROVE  g.row[n] \in {{}, In(K \cup {s}, n)}
      <3>1. n \in Nat
        BY RowsFacts
      <3>2. g.row[n] = IF n > f.last_up \div Step /\ n <= s.at \div Step
                       THEN Ended(f, s, n) ELSE Read(f, n)
        BY <1>1 DEF Written
      <3>3. CASE n > f.last_up \div Step
        BY <2>2, <2>6, <3>2, <3>3, NewRow
      <3>4. CASE ~(n > f.last_up \div Step)
        <4>1. n <= f.last_up \div Step /\ n + f.ahead = n
          BY <2>1, <3>1, <3>4
        <4>2. g.row[n] = f.row[n]
          BY <3>2, <3>4, <4>1 DEF Read
        <4>3. n <= (f.last_up \div Step) + f.ahead
          BY <2>1, <3>1, <4>1
        <4>4. f.row[n] \in {{}, In(K, n)}
          BY <1>1, <1>2, <1>4, <4>3 DEF RowsOf
        <4>5. Step * n <= f.last_up /\ Step * n \in Nat
          BY <2>1, <3>1, <4>1, FollowsNat, <2>2, Times2, StepOf
        <4>6. ~(s.from < Step * n)
          BY <1>1, <2>2, <4>5, FollowsNat
        <4> QED BY <4>2, <4>4, <4>6 DEF In
      <3> QED BY <3>3, <3>4
    <2>7. \A o \in K : o.from < o.at /\ o.at <= g.last_up
      BY <1>1 DEF RowsOf
    <2> QED BY <1>1, <1>2, <2>4, <2>5, <2>6, <2>7 DEF RowsOf
  <1> QED BY <1>3, <1>4

LEMMA FinishRows ==
  ASSUME TypeOK, FileInv, NEW m \in Metrics, RowsOf(m), Finish(m), sample # None
  PROVE  RowsOf(m)'
  <1> DEFINE f == rrd[m]
             g == rrd'[m]
             K == taken[m]
  <1>1. /\ whole' = whole /\ pc = m /\ sample' = None /\ f # None /\ f \in File
        /\ g = Updated(f, sample) /\ sample \in Sample
        /\ g.last_up = sample.at /\ g.ahead = 0
        /\ g.row = f.row /\ g.scratch = f.scratch
    BY FinishFacts, UpdatedType
  <1>2. taken'[m] = K \cup {sample}
    BY DEF Finish, TypeOK
  <1>3. Within(m) /\ ~Within(m)' /\ Known(m) = K \cup {sample} /\ Known(m)' = K \cup {sample}
    BY <1>1, <1>2 DEF Within, Known
  <1>4. /\ f.last_up \in Nat /\ sample.at \in Nat /\ sample.from = f.last_up
        /\ f.last_up < sample.at /\ f.ahead = Elapsed(f, sample)
        /\ f.last_up \div Step \in Nat /\ sample.at \div Step \in Nat
    BY <1>1, Between, RowsFacts, StepFacts DEF FileInv, Sample
  <1>5. (f.last_up \div Step) + f.ahead = (g.last_up \div Step) + g.ahead
    BY <1>1, <1>4 DEF Elapsed
  <1>6. \A o \in K \cup {sample} : o.from < o.at /\ o.at <= g.last_up
    <2>1. \A o \in K : o.from < o.at /\ o.at <= f.last_up
      BY <1>1 DEF RowsOf
    <2>2. \A o \in K : o.at \in Nat
      <3>1. K \subseteq Sample
        BY DEF TypeOK
      <3> QED BY <3>1, RowsFacts DEF Sample
    <2> QED BY <1>1, <1>4, <2>1, <2>2
  <1> QED BY <1>1, <1>2, <1>3, <1>5, <1>6 DEF RowsOf


LEMMA RowsStep == TypeOK /\ FileInv /\ RowInv /\ [Next]_vars => RowInv'
  <1> SUFFICES ASSUME TypeOK, FileInv, RowInv, [Next]_vars, NEW m \in Metrics
               PROVE  RowsOf(m)'
    BY DEF RowInv
  <1>1. RowsOf(m)
    BY DEF RowInv
  <1>2. CASE UNCHANGED <<rrd, sample, pc, taken, whole>>
    BY <1>1, <1>2 DEF RowsOf, Known, Within, In
  <1>3. CASE gw_app_init
    <2>1. sample = None /\ sample' = None
      BY <1>3 DEF gw_app_init, FileInv, Metrics
    <2>2. CASE m \in fresh'
      <3>1. rrd'[m] = Created /\ taken'[m] = {} /\ ~Within(m)'
        BY <1>3, <2>1, <2>2 DEF gw_app_init, Within
      <3> QED BY <3>1, RowsFresh
    <2>3. CASE m \notin fresh'
      <3>1. rrd'[m] = rrd[m] /\ taken'[m] = taken[m] /\ m \in whole' => m \in whole
        BY <1>3, <2>3 DEF gw_app_init
      <3> QED BY <1>1, <1>3, <2>1, <2>3, <3>1, RowsSame DEF gw_app_init, Within
    <2> QED BY <2>2, <2>3
  <1>4. CASE Exit
    <2>1. /\ rrd' = rrd /\ taken' = taken /\ ~Within(m)'
      BY <1>4 DEF Exit, Within
    <2>2. CASE Within(m)
      <3>1. m \notin whole'
        BY <1>4, <2>2 DEF Exit, Within
      <3> QED BY <1>1, <2>1, <3>1 DEF RowsOf
    <2>3. CASE ~Within(m)
      <3>1. m \in whole' => m \in whole
        BY <1>4 DEF Exit
      <3> QED BY <1>1, <2>1, <2>3, <3>1, RowsSame
    <2> QED BY <2>2, <2>3
  <1>5. CASE Check \/ Wake
    <2>1. sample = None /\ sample' = None
      BY <1>5 DEF Check, Wake, FileInv, Metrics
    <2>2. rrd' = rrd /\ taken' = taken /\ whole' = whole
      BY <1>5 DEF Check, Wake, history
    <2> QED BY <1>1, <2>1, <2>2, RowsSame DEF Within
  <1>6. ASSUME NEW k \in Metrics, Monitor(k) PROVE RowsOf(m)'
    <2>1. CASE k = m
      BY <1>1, <1>6, <2>1, MonitorRows
    <2>2. CASE k # m
      <3>1. rrd'[m] = rrd[m] /\ pc = k /\ pc' = k
        BY <1>6, <2>2, MonitorFacts
      <3>2. taken' = taken /\ whole' = whole
        BY <1>6 DEF Monitor
      <3> QED BY <1>1, <2>2, <3>1, <3>2, RowsSame DEF Within
    <2> QED BY <2>1, <2>2
  <1>7. ASSUME NEW k \in Metrics, Finish(k) PROVE RowsOf(m)'
    <2>1. CASE sample = None
      <3>1. rrd' = rrd /\ taken' = taken /\ whole' = whole /\ sample' = None
        BY <1>7, <2>1 DEF Finish
      <3> QED BY <1>1, <2>1, <3>1, RowsSame DEF Within
    <2>2. CASE sample # None /\ k = m
      BY <1>1, <1>7, <2>2, FinishRows
    <2>3. CASE sample # None /\ k # m
      <3>1. rrd'[m] = rrd[m] /\ pc = k /\ whole' = whole /\ sample' = None
        BY <1>7, <2>3, FinishFacts
      <3>2. taken'[m] = taken[m]
        BY <1>7, <2>3 DEF Finish, TypeOK
      <3> QED BY <1>1, <2>3, <3>1, <3>2, RowsSame DEF Within
    <2> QED BY <2>1, <2>2, <2>3
  <1> QED BY <1>2, <1>3, <1>4, <1>5, <1>6, <1>7 DEF Next, gw_os_start, gw_os_cpu_monitor,
         gw_os_memory_monitor, Metrics, Tick, gw_app_stop, vars, history

\* Where the row of a reply's step is in the file, and which step it stands for.
\* The step that ends at x begins at u.
LEMMA StepBegins ==
  ASSUME NEW u \in Nat, NEW x, x = u + Step
  PROVE  x - Step = u
  BY StepFacts

LEMMA ReplyRow ==
  ASSUME TypeOK, FileInv, NEW m \in Metrics, rrd[m] # None, NEW t \in Times,
         t + Step <= rrd[m].last_up \/ t \div Step + 1 <= rrd[m].last_up \div Step
  PROVE  LET f == rrd[m]
             n == t \div Step + 1
             u == t + f.ahead * Step
         IN  /\ n \in Nat /\ n <= f.last_up \div Step /\ n + f.ahead \in Rows
             /\ n + f.ahead <= (f.last_up \div Step) + f.ahead
             /\ Step * (n + f.ahead) = u + Step /\ u \in Nat
  <1> DEFINE f == rrd[m]
             n == t \div Step + 1
  <1>1. /\ f \in File /\ f.ahead \in Nat /\ f.last_up \div Step \in Nat /\ f.last_up \in Nat
        /\ f.ahead + (f.last_up \div Step) <= now \div Step
    BY Between DEF FileInv
  <1>2. t \in Nat /\ t \div Step \in Nat /\ t = Step * (t \div Step) /\ n \in Nat
    <2>1. t \in Nat /\ t = Step * (t \div Step)
      BY TimeNat
    <2>2. t \div Step \in Nat
      BY <2>1, StepFacts
    <2> HIDE DEF f
    <2> QED BY <2>1, <2>2
  <1>3. n <= f.last_up \div Step
    <2>1. CASE t + Step <= f.last_up
      <3>1. (t + Step) \div Step <= f.last_up \div Step
        <4>1. t + Step \in Nat
          BY <1>2, StepFacts
        <4> QED BY <1>1, <2>1, <4>1, StepFacts
      <3>2. \A s, c \in Nat : s > 0 => (s * c + s) \div s = c + 1
        <4>1. \A s, c \in Nat : s * c + s = s * (c + 1) /\ c + 1 \in Nat
          OBVIOUS
        <4>2. \A s, c \in Nat : s > 0 => (s * c) \div s = c
          OBVIOUS
        <4> QED BY <4>1, <4>2
      <3>3. (t + Step) \div Step = n
        BY <1>2, <3>2, StepFacts
      <3> QED BY <3>1, <3>3
    <2> QED BY <2>1
  <1>4. /\ n + f.ahead \in Rows
        /\ n + f.ahead <= (f.last_up \div Step) + f.ahead
    <2>1. now \div Step \in Nat /\ MaxTime \div Step \in Nat
          /\ now \div Step <= MaxTime \div Step
      BY NowTime, RowsFacts, StepFacts
    <2>2. n + f.ahead <= (f.last_up \div Step) + f.ahead
      BY <1>1, <1>2, <1>3
    <2>3. n + f.ahead <= MaxTime \div Step
      BY <1>1, <1>2, <2>1, <2>2
    <2> QED BY <1>1, <1>2, <2>1, <2>2, <2>3 DEF Rows
  <1>5. Step * (n + f.ahead) = t + f.ahead * Step + Step /\ t + f.ahead * Step \in Nat
    <2>1. \A a, b, c \in Nat : /\ a * ((b + 1) + c) = (a * b) + (c * a) + a
                              /\ (a * b) + (c * a) \in Nat
      OBVIOUS
    <2> DEFINE k == t \div Step
    <2>2. k \in Nat /\ t = Step * k /\ n = k + 1
      BY <1>2
    <2> HIDE DEF k, n
    <2>3. /\ Step * ((k + 1) + f.ahead) = (Step * k) + (f.ahead * Step) + Step
          /\ (Step * k) + (f.ahead * Step) \in Nat
      BY <1>1, <2>1, <2>2, StepFacts
    <2> QED BY <2>2, <2>3
  <1> QED BY <1>1, <1>2, <1>3, <1>4, <1>5

LEMMA RowsSay == TypeOK /\ FileInv /\ RowInv => ReportsWhatWasMeasured
  <1> SUFFICES ASSUME TypeOK, FileInv, RowInv, NEW m \in whole, Answered(m),
                      NEW t \in Times, Reply(m)[t] # Unknown
               PROVE  Reply(m)[t] = {s \in Known(m) : Meets(s, t + rrd[m].ahead * Step)}
    BY DEF ReportsWhatWasMeasured
  <1> DEFINE f == rrd[m]
             n == t \div Step + 1
  <1>1. m \in Metrics /\ f # None /\ RowsOf(m)
    BY DEF TypeOK, Answered, RowInv
  <1>4. Reply(m)[t] = Read(f, n)
    BY DEF Reply
  <1>5. n <= f.last_up \div Step /\ Reply(m)[t] = f.row[n + f.ahead]
    BY <1>4 DEF Read
  <1>6. /\ n + f.ahead \in Rows
        /\ n + f.ahead <= (f.last_up \div Step) + f.ahead
        /\ Step * (n + f.ahead) = t + f.ahead * Step + Step /\ t + f.ahead * Step \in Nat
    BY <1>1, <1>5, ReplyRow
  <1>7. Reply(m)[t] = In(Known(m), n + f.ahead)
    BY <1>1, <1>5, <1>6 DEF RowsOf, Unknown
  <1>9. ASSUME NEW s \in Known(m)
        PROVE  /\ s.at \in Nat
               /\ s.at > Step * (n + f.ahead) - Step <=> s.at > t + f.ahead * Step
    <2>1. s \in Sample
      BY <1>1 DEF Known, TypeOK
    <2>2. s.at \in Nat
      BY <2>1, RowsFacts DEF Sample
    <2>3. Step * (n + f.ahead) - Step = t + f.ahead * Step
      BY <1>6, StepBegins, Zenon
    <2> QED BY <2>2, <2>3
  <1> QED BY <1>6, <1>7, <1>9 DEF In, Meets

\* A value in a reply is the average of just the samples whose time meets its
\* step, also for a request that comes while the collector writes the file,
\* and over any number of stops and restarts.
THEOREM ReportsAreTrue == Spec => []ReportsWhatWasMeasured
  <1>1. Init => RowInv
    <2> SUFFICES ASSUME Init, NEW m \in Metrics PROVE RowsOf(m)
      BY DEF RowInv
    <2>1. /\ rrd[m] # None => rrd[m] = Created
          /\ taken[m] = {} /\ sample = None
      BY DEF Init
    <2> QED BY <2>1 DEF RowsOf, Known, Within, In, Created, Unknown
  <1> QED BY Always, <1>1, RowsStep, RowsSay, PTL DEF Spec

-----------------------------------------------------------------------------
(* Why a row says nothing.                                                 *)

\* The step of row n began before any sample did, or a sample that meets it
\* stands for more than the heartbeat.
Before(K, n) == \A s \in K : Step * n - Step < s.from
Gap(K, n) == \E s \in In(K, n) : s.at - s.from > Heartbeat

\* A row that was written, or is behind the creation of the file, says nothing
\* for one of these reasons.  The time before the creation is charged only to
\* the step that was open at it.
GapsOf(m) ==
    rrd[m] # None /\ m \in whole =>
        /\ \A n \in Rows :
               n <= (rrd[m].last_up \div Step) + rrd[m].ahead /\ rrd[m].row[n] = {} =>
                   Before(Known(m), n) \/ Gap(Known(m), n)
        /\ rrd[m].unkn > 0 =>
               /\ rrd[m].ahead = 0
               /\ Step * (rrd[m].last_up \div Step) < rrd[m].last_up
               /\ \A s \in Known(m) : Step * (rrd[m].last_up \div Step) < s.from

GapInv == \A m \in Metrics : GapsOf(m)

LEMMA OpenFacts ==
  ASSUME NEW f, NEW s, NEW K, Follows(f, s, K)
  PROVE  /\ Open(f) \in 0 .. Step - 1
         /\ Step * (f.last_up \div Step) < f.last_up => Open(f) > 0
  <1>1. /\ f.last_up % Step \in 0 .. Step - 1 /\ Step \in Nat /\ Step > 0
        /\ f.last_up = Step * (f.last_up \div Step) + (f.last_up % Step)
        /\ Step * (f.last_up \div Step) \in Nat
    BY StepFacts, StepOf, FollowsNat
  <1>2. \A a \in Nat : a % Step \in 0 .. Step - 1
    BY StepFacts
  <1>3. \A a \in 1 .. Step - 1 : a % Step = a
    <2>1. Step \in Nat /\ Step > 0
      BY StepFacts
    <2> QED BY <2>1
  <1>4. Step - (f.last_up % Step) \in Nat
    <2> DEFINE r == f.last_up % Step
    <2>1. r \in 0 .. Step - 1 /\ Step \in Nat
      BY <1>1
    <2> HIDE DEF r
    <2>2. Step - r \in Nat
      BY <2>1
    <2> QED BY <2>2 DEF r
  <1>5. Step * (f.last_up \div Step) < f.last_up => Step - (f.last_up % Step) \in 1 .. Step - 1
    <2> DEFINE r == f.last_up % Step
               q == Step * (f.last_up \div Step)
    <2>1. r \in 0 .. Step - 1 /\ q \in Nat /\ f.last_up = q + r
      BY <1>1
    <2> HIDE DEF r, q
    <2>2. q < f.last_up => Step - r \in 1 .. Step - 1
      BY <1>1, <2>1
    <2> QED BY <2>2 DEF r, q
  <1> QED BY <1>2, <1>3, <1>4, <1>5 DEF Open

\* A step that ends and is given no value.
LEMMA NewGap ==
  ASSUME NEW f, NEW s, NEW K, Follows(f, s, K), NEW n \in Rows,
         f.last_up \div Step < n, n <= s.at \div Step, Ended(f, s, n) = {},
         f.unkn > 0 => /\ Step * (f.last_up \div Step) < f.last_up
                       /\ \A o \in K : Step * (f.last_up \div Step) < o.from
  PROVE  Before(K \cup {s}, n) \/ Gap(K \cup {s}, n)
  <1> DEFINE p == f.last_up \div Step
             interval == s.at - f.last_up
  <1>1. /\ n \in Nat /\ p \in Nat /\ Step \in Nat /\ Step > 0 /\ Heartbeat \in Nat
        /\ Heartbeat >= Step /\ f.unkn \in Nat /\ s.from = f.last_up /\ interval \in Nat
    <2>1. n \in Nat /\ p \in Nat /\ Step \in Nat /\ Step > 0
      BY RowsFacts, StepFacts, FollowsNat
    <2>2. Heartbeat \in Nat /\ Heartbeat >= Step
      BY MetricsConstants
    <2>3. f.unkn \in Nat /\ s.from = f.last_up
      BY StepFacts DEF Follows, File
    <2>4. interval \in Nat
      <3>1. s.from < s.at
        BY DEF Follows
      <3>2. s.from \in Nat /\ s.at \in Nat
        BY FollowsNat
      <3> QED BY <2>3, <3>1, <3>2
    <2> QED BY <2>1, <2>2, <2>3, <2>4
  <1>2. s \in In(K \cup {s}, n)
    BY SampleMeets DEF In
  <1>3. interval > Heartbeat => Gap(K \cup {s}, n)
    BY <1>1, <1>2 DEF Gap
  <1>4. f.unkn > 0 /\ n = p + 1 => Before(K \cup {s}, n)
    <2>1. n = p + 1 => Step * n - Step = Step * p
      BY <1>1
    <2> QED BY <1>1, <2>1 DEF Before
  <1>5. \A i : Closed(f, s, i) = {} => i > Heartbeat \/ f.unkn > 0
    BY <1>1 DEF Closed, Unknown
  <1>6. CASE Elapsed(f, s) > 1 /\ Open(f) > 0
    <2>1. CASE n = p + 1
      <3>1. Closed(f, s, Open(f)) = {}
        BY <1>6, <2>1 DEF Ended
      <3>2. ~(Open(f) > Heartbeat)
        BY <1>1, OpenFacts
      <3> QED BY <1>4, <1>5, <2>1, <3>1, <3>2
    <2>2. CASE n # p + 1
      <3>1. interval - Open(f) > Heartbeat
        BY <1>6, <2>2 DEF Ended
      <3> QED BY <1>1, <1>3, <3>1, OpenFacts
    <2> QED BY <2>1, <2>2
  <1>7. CASE ~(Elapsed(f, s) > 1 /\ Open(f) > 0)
    <2>1. Closed(f, s, interval) = {}
      BY <1>7 DEF Ended
    <2>2. f.unkn > 0 => n = p + 1
      <3>1. f.unkn > 0 => ~(Elapsed(f, s) > 1)
        BY <1>7, OpenFacts
      <3> DEFINE q == s.at \div Step
      <3>2. q \in Nat /\ (Elapsed(f, s) > 1 <=> q - p > 1)
        BY FollowsNat DEF Elapsed
      <3>3. p < n /\ n <= q
        OBVIOUS
      <3> HIDE DEF p, q
      <3> QED BY <1>1, <3>1, <3>2, <3>3
    <2> QED BY <1>3, <1>4, <1>5, <2>1, <2>2
  <1> QED BY <1>6, <1>7

\* Steps that change nothing of the file of m, and are not within an update.
LEMMA GapsSame ==
  ASSUME NEW m \in Metrics, GapsOf(m), rrd'[m] = rrd[m], taken'[m] = taken[m],
         m \in whole' => m \in whole, ~Within(m), ~Within(m)'
  PROVE  GapsOf(m)'
  BY DEF GapsOf, Known, Within, In, Before, Gap

LEMMA GapsFresh ==
  ASSUME TypeOK, NEW m \in Metrics, rrd'[m] = Created, taken'[m] = {}, ~Within(m)'
  PROVE  GapsOf(m)'
  <1> DEFINE c == now - Lead
  <1>1. c \in Nat
    BY NowTime, RowsFacts
  <1>2. Step * (c \div Step) < c \/ c % Step = 0
    BY <1>1, StepOf
  <1>3. Known(m)' = {}
    BY DEF Known, Within
  <1>4. rrd'[m].last_up = c /\ rrd'[m].unkn = c % Step /\ rrd'[m].ahead = 0
    BY DEF Created
  <1> QED BY <1>2, <1>3, <1>4 DEF GapsOf, Before

LEMMA MonitorGaps ==
  ASSUME TypeOK, FileInv, NEW m \in Metrics, RowsOf(m), GapsOf(m), Monitor(m)
  PROVE  GapsOf(m)'
  <1> DEFINE f == rrd[m]
             g == rrd'[m]
             s == sample'
             K == taken[m]
  <1>1. /\ taken' = taken /\ whole' = whole /\ pc = m /\ pc' = m /\ sample = None
        /\ g = Written(f, s) /\ s # None /\ g.last_up = f.last_up /\ f # None
        /\ s \in Sample /\ s.from = f.last_up /\ s.at = now /\ f.last_up < now
    BY MonitorFacts DEF Monitor
  <1>2. ~Within(m) /\ Known(m) = K /\ Known(m)' = K \cup {s}
    BY <1>1 DEF Within, Known
  <1>3. CASE m \notin whole
    BY <1>1, <1>3 DEF GapsOf
  <1>4. CASE m \in whole
    <2>1. f.ahead = 0 /\ f \in File /\ f.last_up \div Step \in Nat
      BY <1>1, <1>2, <1>4, Between DEF FileInv
    <2>2. Follows(f, s, K)
      BY <1>1, <1>2, <1>4, <2>1 DEF Follows, RowsOf, TypeOK
    <2>3. /\ f.unkn > 0 =>
               /\ Step * (f.last_up \div Step) < f.last_up
               /\ \A o \in K : Step * (f.last_up \div Step) < o.from
          /\ \A n \in Rows : n <= f.last_up \div Step /\ f.row[n] = {} =>
               Before(K, n) \/ Gap(K, n)
      <3>1. \A n \in Rows : n <= f.last_up \div Step =>
               n <= (f.last_up \div Step) + f.ahead
        BY <2>1
      <3> QED BY <1>1, <1>2, <1>4, <3>1 DEF GapsOf
    <2>4. (g.last_up \div Step) + g.ahead = s.at \div Step
      BY <1>1, <2>1, <2>2, FollowsNat, MonitorFacts DEF Elapsed
    <2>5. ASSUME NEW n \in Rows, n <= s.at \div Step, g.row[n] = {}
          PROVE  Before(K \cup {s}, n) \/ Gap(K \cup {s}, n)
      <3>1. n \in Nat
        BY RowsFacts
      <3>2. g.row[n] = IF n > f.last_up \div Step /\ n <= s.at \div Step
                       THEN Ended(f, s, n) ELSE Read(f, n)
        BY <1>1 DEF Written
      <3>3. CASE n > f.last_up \div Step
        BY <2>2, <2>3, <2>5, <3>2, <3>3, NewGap
      <3>4. CASE ~(n > f.last_up \div Step)
        <4>1. n <= f.last_up \div Step /\ n + f.ahead = n
          BY <2>1, <3>1, <3>4
        <4>2. f.row[n] = {}
          BY <2>5, <3>2, <3>4, <4>1 DEF Read
        <4>3. Before(K, n) \/ Gap(K, n)
          BY <2>3, <4>1, <4>2
        <4>4. Step * n <= s.from /\ Step * n \in Nat /\ s.from \in Nat
          BY <1>1, <2>1, <2>2, <3>1, <4>1, FollowsNat, Times2, StepOf
        <4>5. Step * n - Step < s.from
          BY <4>4, StepFacts
        <4> QED BY <4>3, <4>5 DEF Before, Gap, In
      <3> QED BY <3>3, <3>4
    <2>6. g.unkn > 0 =>
             /\ g.ahead = 0
             /\ Step * (g.last_up \div Step) < g.last_up
             /\ \A o \in K \cup {s} : Step * (g.last_up \div Step) < o.from
      <3>1. g.unkn = IF Elapsed(f, s) = 0 THEN f.unkn ELSE 0
        BY <1>1 DEF Written
      <3>2. g.ahead = Elapsed(f, s)
        BY MonitorFacts
      <3> QED BY <1>1, <2>3, <3>1, <3>2
    <2> QED BY <1>1, <1>2, <2>4, <2>5, <2>6 DEF GapsOf
  <1> QED BY <1>3, <1>4

LEMMA FinishGaps ==
  ASSUME TypeOK, FileInv, NEW m \in Metrics, GapsOf(m), Finish(m), sample # None
  PROVE  GapsOf(m)'
  <1> DEFINE f == rrd[m]
             g == rrd'[m]
             K == taken[m]
  <1>1. /\ whole' = whole /\ pc = m /\ sample' = None /\ f # None /\ f \in File
        /\ g = Updated(f, sample) /\ sample \in Sample
        /\ g.last_up = sample.at /\ g.ahead = 0 /\ g.row = f.row
    BY FinishFacts, UpdatedType
  <1>u. g.unkn = f.unkn
    BY <1>1 DEF Updated, File
  <1>2. taken'[m] = K \cup {sample}
    BY DEF Finish, TypeOK
  <1>3. Known(m) = K \cup {sample} /\ Known(m)' = K \cup {sample}
    BY <1>1, <1>2 DEF Within, Known
  <1>4. /\ f.last_up \in Nat /\ sample.at \in Nat /\ f.last_up < sample.at
        /\ f.ahead = Elapsed(f, sample)
        /\ f.last_up \div Step \in Nat /\ sample.at \div Step \in Nat
    BY <1>1, Between, RowsFacts, StepFacts DEF FileInv, Sample
  <1>5. (f.last_up \div Step) + f.ahead = (g.last_up \div Step) + g.ahead
    BY <1>1, <1>4 DEF Elapsed
  <1>6. ASSUME g.unkn > 0, m \in whole
        PROVE  /\ Step * (g.last_up \div Step) < g.last_up
               /\ \A o \in K \cup {sample} : Step * (g.last_up \div Step) < o.from
    <2>1. /\ Step * (f.last_up \div Step) < f.last_up /\ f.ahead = 0
          /\ \A o \in K \cup {sample} : Step * (f.last_up \div Step) < o.from
      BY <1>1, <1>3, <1>6, <1>u DEF GapsOf
    <2>2. f.last_up \div Step = sample.at \div Step
      BY <1>4, <2>1 DEF Elapsed
    <2>3. Step * (f.last_up \div Step) \in Nat
      BY <1>4, StepOf
    <2> QED BY <1>1, <1>4, <2>1, <2>2, <2>3
  <1> QED BY <1>1, <1>3, <1>5, <1>6 DEF GapsOf

LEMMA GapsStep == TypeOK /\ FileInv /\ RowInv /\ GapInv /\ [Next]_vars => GapInv'
  <1> SUFFICES ASSUME TypeOK, FileInv, RowInv, GapInv, [Next]_vars, NEW m \in Metrics
               PROVE  GapsOf(m)'
    BY DEF GapInv
  <1>1. RowsOf(m) /\ GapsOf(m)
    BY DEF RowInv, GapInv
  <1>2. CASE UNCHANGED <<rrd, sample, pc, taken, whole>>
    BY <1>1, <1>2 DEF GapsOf, Known, In, Before, Gap
  <1>3. CASE gw_app_init
    <2>1. sample = None /\ sample' = None
      BY <1>3 DEF gw_app_init, FileInv, Metrics
    <2>2. CASE m \in fresh'
      <3>1. now' = now /\ rrd'[m] = Created /\ taken'[m] = {} /\ ~Within(m)'
        BY <1>3, <2>1, <2>2 DEF gw_app_init, Within
      <3> QED BY <3>1, GapsFresh
    <2>3. CASE m \notin fresh'
      <3>1. rrd'[m] = rrd[m] /\ taken'[m] = taken[m] /\ m \in whole' => m \in whole
        BY <1>3, <2>3 DEF gw_app_init
      <3> QED BY <1>1, <1>3, <2>1, <2>3, <3>1, GapsSame DEF gw_app_init, Within
    <2> QED BY <2>2, <2>3
  <1>4. CASE Exit
    <2>1. /\ rrd' = rrd /\ taken' = taken /\ ~Within(m)'
      BY <1>4 DEF Exit, Within
    <2>2. CASE Within(m)
      <3>1. m \notin whole'
        BY <1>4, <2>2 DEF Exit, Within
      <3> QED BY <3>1 DEF GapsOf
    <2>3. CASE ~Within(m)
      <3>1. m \in whole' => m \in whole
        BY <1>4 DEF Exit
      <3> QED BY <1>1, <2>1, <2>3, <3>1, GapsSame
    <2> QED BY <2>2, <2>3
  <1>5. CASE Check \/ Wake
    <2>1. sample = None /\ sample' = None
      BY <1>5 DEF Check, Wake, FileInv, Metrics
    <2>2. rrd' = rrd /\ taken' = taken /\ whole' = whole
      BY <1>5 DEF Check, Wake, history
    <2> QED BY <1>1, <2>1, <2>2, GapsSame DEF Within
  <1>6. ASSUME NEW k \in Metrics, Monitor(k) PROVE GapsOf(m)'
    <2>1. CASE k = m
      BY <1>1, <1>6, <2>1, MonitorGaps
    <2>2. CASE k # m
      <3>1. rrd'[m] = rrd[m] /\ pc = k /\ pc' = k
        BY <1>6, <2>2, MonitorFacts
      <3>2. taken' = taken /\ whole' = whole
        BY <1>6 DEF Monitor
      <3> QED BY <1>1, <2>2, <3>1, <3>2, GapsSame DEF Within
    <2> QED BY <2>1, <2>2
  <1>7. ASSUME NEW k \in Metrics, Finish(k) PROVE GapsOf(m)'
    <2>1. CASE sample = None
      <3>1. rrd' = rrd /\ taken' = taken /\ whole' = whole /\ sample' = None
        BY <1>7, <2>1 DEF Finish
      <3> QED BY <1>1, <2>1, <3>1, GapsSame DEF Within
    <2>2. CASE sample # None /\ k = m
      BY <1>1, <1>7, <2>2, FinishGaps
    <2>3. CASE sample # None /\ k # m
      <3>1. rrd'[m] = rrd[m] /\ pc = k /\ whole' = whole /\ sample' = None
        BY <1>7, <2>3, FinishFacts
      <3>2. taken'[m] = taken[m]
        BY <1>7, <2>3 DEF Finish, TypeOK
      <3> QED BY <1>1, <2>3, <3>1, <3>2, GapsSame DEF Within
    <2> QED BY <2>1, <2>2, <2>3
  <1> QED BY <1>2, <1>3, <1>4, <1>5, <1>6, <1>7 DEF Next, gw_os_start, gw_os_cpu_monitor,
         gw_os_memory_monitor, Metrics, Tick, gw_app_stop, vars, history

LEMMA GapsSay == TypeOK /\ FileInv /\ GapInv => MissesOnlyGaps
  <1> SUFFICES ASSUME TypeOK, FileInv, GapInv, NEW m \in whole, Answered(m),
                      NEW t \in Times, Reply(m)[t] = Unknown,
                      ~(t + Step > rrd[m].last_up)
               PROVE  LET u == t + rrd[m].ahead * Step
                      IN  \/ \A s \in Known(m) : u < s.from
                          \/ \E s \in Known(m) : Meets(s, u) /\ s.at - s.from > Heartbeat
    BY DEF MissesOnlyGaps
  <1> DEFINE f == rrd[m]
             n == t \div Step + 1
             u == t + f.ahead * Step
  <1>1. m \in Metrics /\ f # None /\ GapsOf(m)
    BY DEF TypeOK, Answered, GapInv
  <1>2. n \in Nat /\ n <= f.last_up \div Step /\ n + f.ahead \in Rows
        /\ n + f.ahead <= (f.last_up \div Step) + f.ahead
        /\ Step * (n + f.ahead) = u + Step /\ u \in Nat
    <2>1. t + Step \in Nat /\ f.last_up \in Nat
      <3>1. t \in Nat /\ Step \in Nat
        BY TimeNat, StepFacts
      <3>2. f.last_up \in Nat
        BY <1>1, Between
      <3> QED BY <3>1, <3>2
    <2>2. t + Step <= f.last_up
      BY <2>1
    <2> QED BY <1>1, <2>2, ReplyRow
  <1>3. f.row[n + f.ahead] = {}
    BY <1>2 DEF Reply, Read, Unknown
  <1>4. Before(Known(m), n + f.ahead) \/ Gap(Known(m), n + f.ahead)
    BY <1>1, <1>2, <1>3 DEF GapsOf
  <1>5. \A s \in Known(m) : s.at \in Nat /\ s.from \in Nat
    <2>1. Known(m) \subseteq Sample
      BY <1>1, NoFile DEF Known, TypeOK
    <2> QED BY <2>1, RowsFacts DEF Sample
  <1>6. Step * (n + f.ahead) - Step = u
    BY <1>2, StepBegins, Zenon
  <1> HIDE DEF u, n
  <1>7. CASE Before(Known(m), n + f.ahead)
    BY <1>6, <1>7 DEF Before, u
  <1>8. CASE Gap(Known(m), n + f.ahead)
    BY <1>2, <1>6, <1>8 DEF Gap, In, Meets, u
  <1> QED BY <1>4, <1>7, <1>8

\* A reply has -1 only for a step the last sample does not reach, one that
\* began before the file did, or one within a pause of the collector that is
\* longer than the heartbeat: no sample is lost by the rows being written in
\* two steps, nor by the part of a step left open between two updates.
THEOREM MissesAreGaps == Spec => []MissesOnlyGaps
  <1>1. Init => RowInv /\ GapInv
    <2> SUFFICES ASSUME Init, NEW m \in Metrics PROVE RowsOf(m) /\ GapsOf(m)
      BY DEF RowInv, GapInv
    <2>1. /\ rrd[m] # None => rrd[m] = Created
          /\ taken[m] = {} /\ sample = None
      BY DEF Init
    <2>2. Known(m) = {}
      BY <2>1 DEF Known
    <2>3. now - Lead \in Nat
      BY InitInv, NowTime, RowsFacts
    <2>4. (now - Lead) % Step > 0 => Step * ((now - Lead) \div Step) < now - Lead
      BY <2>3, StepOf, StepFacts
    <2>5. RowsOf(m)
      BY <2>1 DEF RowsOf, Known, Within, In, Created, Unknown
    <2>6. GapsOf(m)
      BY <2>1, <2>2, <2>4 DEF GapsOf, Created, Before
    <2> QED BY <2>5, <2>6
  <1> QED BY Always, <1>1, RowsStep, GapsStep, GapsSay, PTL DEF Spec
=============================================================================
