-------------------------- MODULE GwLifecycleProofs --------------------------
(***************************************************************************)
(* Proofs about GwLifecycle for every number of restarts, every platform   *)
(* and every set of workers that can be created.                           *)
(***************************************************************************)
EXTENDS GwLifecycle, TLAPS

\* The assumptions on the constants, with the one arithmetic fact about runs.
LEMMA Constants ==
    /\ MaxStarts \in Nat /\ MaxStarts # 0 /\ 1 \in Runs
    /\ Runs \subseteq Nat
    /\ PortConflict \in BOOLEAN
BY MaxStartsAssumption, EnvironmentAssumption DEF Runs

\* The initial values of Init have the types of TypeOK.
LEMMA TypeInit == Init => TypeOK
<1> SUFFICES ASSUME Init PROVE TypeOK
  OBVIOUS
<1>1. quitting \in BOOLEAN /\ initCalled \in BOOLEAN
  BY Zenon DEF Init
<1>2. /\ snmp_daemon_running \in 0..2 /\ snmp_trap_running \in 0..1
      /\ http_web_running \in 0..1 /\ os_collect_running \in 0..1
  BY DEF Init
<1>3. /\ trap \in [Runs -> TrapPcs] /\ daemon \in [Runs -> DaemonPcs]
      /\ os \in [Runs -> OsPcs] /\ http \in [Runs -> HttpPcs]
  BY DEF Init, TrapPcs, DaemonPcs, OsPcs, HttpPcs
<1> QED
  BY <1>1, <1>2, <1>3, Constants DEF Init, TypeOK, UiPcs

\* No action of the application, of a worker or of the console breaks TypeOK.
LEMMA TypeStep == TypeOK /\ [Next]_vars => TypeOK'
<1> SUFFICES ASSUME TypeOK, [Next]_vars PROVE TypeOK'
  OBVIOUS
<1>1. CASE CreateTrap
  BY <1>1, Constants DEF CreateTrap, Created, TypeOK, Runs, UiPcs, TrapPcs, DaemonPcs, OsPcs, HttpPcs, control, flags, threads, snmp
<1>2. CASE CreateDaemon
  BY <1>2, Constants DEF CreateDaemon, Created, StartedDaemonFlag, TypeOK, Runs, UiPcs, TrapPcs, DaemonPcs, OsPcs, HttpPcs, control, flags, threads, snmp
<1>3. CASE CreateOs
  BY <1>3, Constants DEF CreateOs, Created, TypeOK, Runs, UiPcs, TrapPcs, DaemonPcs, OsPcs, HttpPcs, control, flags, threads, snmp
<1>4. CASE CreateHttp
  BY <1>4, Constants DEF CreateHttp, Created, TypeOK, Runs, UiPcs, TrapPcs, DaemonPcs, OsPcs, HttpPcs, control, flags, threads, snmp
<1>5. CASE MenuStart
  BY <1>5, Constants DEF MenuStart, TypeOK, Runs, UiPcs, TrapPcs, DaemonPcs, OsPcs, HttpPcs, control, flags, threads, snmp
<1>6. CASE MenuStop
  BY <1>6, Constants DEF MenuStop, TypeOK, Runs, UiPcs, TrapPcs, DaemonPcs, OsPcs, HttpPcs, control, flags, threads, snmp
<1>7. CASE MenuExit
  BY <1>7, Constants DEF MenuExit, TypeOK, Runs, UiPcs, TrapPcs, DaemonPcs, OsPcs, HttpPcs, control, flags, threads, snmp
<1>8. CASE StopDaemon
  BY <1>8, Constants DEF StopDaemon, TypeOK, Runs, UiPcs, TrapPcs, DaemonPcs, OsPcs, HttpPcs, control, flags, threads, snmp
<1>9. CASE StopTrap
  BY <1>9, Constants DEF StopTrap, TypeOK, Runs, UiPcs, TrapPcs, DaemonPcs, OsPcs, HttpPcs, control, flags, threads, snmp
<1>10. CASE StopHttp
  BY <1>10, Constants DEF StopHttp, TypeOK, Runs, UiPcs, TrapPcs, DaemonPcs, OsPcs, HttpPcs, control, flags, threads, snmp
<1>11. CASE StopOs
  BY <1>11, Constants DEF StopOs, TypeOK, Runs, UiPcs, TrapPcs, DaemonPcs, OsPcs, HttpPcs, control, flags, threads, snmp
<1>12. CASE Interrupt
  BY <1>12, Constants DEF Interrupt, TypeOK, Runs, UiPcs, TrapPcs, DaemonPcs, OsPcs, HttpPcs, control, flags, threads, snmp
<1>13. ASSUME NEW n \in Runs, TrapBegin(n) PROVE TypeOK'
  BY <1>13, Constants DEF TrapBegin, TypeOK, Runs, UiPcs, TrapPcs, DaemonPcs, OsPcs, HttpPcs, control, flags, threads, snmp
<1>14. ASSUME NEW n \in Runs, TrapCheck(n) PROVE TypeOK'
  BY <1>14, Constants DEF TrapCheck, TypeOK, Runs, UiPcs, TrapPcs, DaemonPcs, OsPcs, HttpPcs, control, flags, threads, snmp
<1>15. ASSUME NEW n \in Runs, TrapBeat(n) PROVE TypeOK'
  BY <1>15, Constants DEF TrapBeat, TypeOK, Runs, UiPcs, TrapPcs, DaemonPcs, OsPcs, HttpPcs, control, flags, threads, snmp
<1>16. ASSUME NEW n \in Runs, DaemonBegin(n) PROVE TypeOK'
  BY <1>16, Constants DEF DaemonBegin, SkipsInit, TypeOK, Runs, UiPcs, TrapPcs, DaemonPcs, OsPcs, HttpPcs, control, flags, threads, snmp
<1>17. ASSUME NEW n \in Runs, DaemonInit(n) PROVE TypeOK'
  BY <1>17, Constants DEF DaemonInit, InitAgentResults, TypeOK, Runs, UiPcs, TrapPcs, DaemonPcs, OsPcs, HttpPcs, control, flags, threads, snmp
<1>18. ASSUME NEW n \in Runs, DaemonMaster(n) PROVE TypeOK'
  BY <1>18, Constants DEF DaemonMaster, InitMasterResults, TypeOK, Runs, UiPcs, TrapPcs, DaemonPcs, OsPcs, HttpPcs, control, flags, threads, snmp
<1>19. ASSUME NEW n \in Runs, DaemonCheck(n) PROVE TypeOK'
  BY <1>19, Constants DEF DaemonCheck, TypeOK, Runs, UiPcs, TrapPcs, DaemonPcs, OsPcs, HttpPcs, control, flags, threads, snmp
<1>20. ASSUME NEW n \in Runs, DaemonProcess(n) PROVE TypeOK'
  BY <1>20, Constants DEF DaemonProcess, TypeOK, Runs, UiPcs, TrapPcs, DaemonPcs, OsPcs, HttpPcs, control, flags, threads, snmp
<1>21. ASSUME NEW n \in Runs, DaemonCleanup(n) PROVE TypeOK'
  BY <1>21, Constants DEF DaemonCleanup, CleanupResults, TypeOK, Runs, UiPcs, TrapPcs, DaemonPcs, OsPcs, HttpPcs, control, flags, threads, snmp
<1>22. ASSUME NEW n \in Runs, OsCheck(n) PROVE TypeOK'
  BY <1>22, Constants DEF OsCheck, TypeOK, Runs, UiPcs, TrapPcs, DaemonPcs, OsPcs, HttpPcs, control, flags, threads, snmp
<1>23. ASSUME NEW n \in Runs, OsCollect(n) PROVE TypeOK'
  BY <1>23, Constants DEF OsCollect, TypeOK, Runs, UiPcs, TrapPcs, DaemonPcs, OsPcs, HttpPcs, control, flags, threads, snmp
<1>24. ASSUME NEW n \in Runs, HttpBegin(n) PROVE TypeOK'
  BY <1>24, Constants DEF HttpBegin, TypeOK, Runs, UiPcs, TrapPcs, DaemonPcs, OsPcs, HttpPcs, control, flags, threads, snmp
<1>25. ASSUME NEW n \in Runs, HttpBind(n) PROVE TypeOK'
  BY <1>25, Constants DEF HttpBind, BindResults, Listening, TypeOK, Runs, UiPcs, TrapPcs, DaemonPcs, OsPcs, HttpPcs, control, flags, threads, snmp
<1>26. ASSUME NEW n \in Runs, HttpCheck(n) PROVE TypeOK'
  BY <1>26, Constants DEF HttpCheck, TypeOK, Runs, UiPcs, TrapPcs, DaemonPcs, OsPcs, HttpPcs, control, flags, threads, snmp
<1>27. ASSUME NEW n \in Runs, HttpPoll(n) PROVE TypeOK'
  BY <1>27, Constants DEF HttpPoll, TypeOK, Runs, UiPcs, TrapPcs, DaemonPcs, OsPcs, HttpPcs, control, flags, threads, snmp
<1>28. ASSUME NEW n \in Runs, HttpFree(n) PROVE TypeOK'
  BY <1>28, Constants DEF HttpFree, TypeOK, Runs, UiPcs, TrapPcs, DaemonPcs, OsPcs, HttpPcs, control, flags, threads, snmp
<1>29. CASE UNCHANGED vars
  BY <1>29 DEF vars, TypeOK, Runs, UiPcs, TrapPcs, DaemonPcs, OsPcs, HttpPcs, control, flags, threads, snmp
<1> QED
  BY <1>1, <1>2, <1>3, <1>4, <1>5, <1>6, <1>7, <1>8, <1>9, <1>10, <1>11, <1>12, <1>13, <1>14, <1>15, <1>16, <1>17, <1>18, <1>19, <1>20, <1>21, <1>22, <1>23, <1>24, <1>25, <1>26, <1>27, <1>28, <1>29 DEF Next, Step, gw_app_start, gw_app_stop, Menu,
    Worker, gw_snmpd_trap, gw_snmpd_serve, gw_os_start, gw_httpd_serve

\* Every reachable state has the types of the C variables it models.
THEOREM TypeCorrect == Spec => []TypeOK
BY TypeInit, TypeStep, PTL DEF Spec

\* The strengthened invariant of GwLifecycle is inductive.
LEMMA RunStep == IInv /\ [Next]_vars => IInv'
<1> SUFFICES ASSUME IInv, [Next]_vars PROVE IInv'
  OBVIOUS
<1> DEFINE Rest == Fresh /\ FlagsUp /\ FirstRun /\ TrapAndHttpServeTheRun
                   /\ DaemonServesTheRun /\ FirstRunSound
<1>0. TypeOK'
  BY TypeStep DEF IInv
<1> USE DEF IInv, TypeOK, Fresh, FlagsUp, FirstRun, TrapAndHttpServeTheRun,
            DaemonServesTheRun, FirstRunSound, TrapStopped, DaemonStopped,
            HttpStopped, control, flags, threads, snmp, Runs
<1>1. ASSUME CreateTrap, process = "up" PROVE Rest'
  BY <1>1, <1>0, Constants DEF CreateTrap, Created
<1>2. ASSUME CreateDaemon, process = "up" PROVE Rest'
  BY <1>2, <1>0, Constants DEF CreateDaemon, Created, StartedDaemonFlag
<1>3. ASSUME CreateOs, process = "up" PROVE Rest'
  BY <1>3, <1>0, Constants DEF CreateOs, Created
<1>4. ASSUME CreateHttp, process = "up" PROVE Rest'
  BY <1>4, <1>0, Constants DEF CreateHttp, Created
<1>5. ASSUME MenuStart, process = "up" PROVE Rest'
  BY <1>5, <1>0, Constants DEF MenuStart
<1>6. ASSUME MenuStop, process = "up" PROVE Rest'
  BY <1>6, <1>0, Constants DEF MenuStop
<1>7. ASSUME MenuExit, process = "up" PROVE Rest'
  BY <1>7, <1>0, Constants DEF MenuExit
<1>8. ASSUME StopDaemon, process = "up" PROVE Rest'
  BY <1>8, <1>0, Constants DEF StopDaemon
<1>9. ASSUME StopTrap, process = "up" PROVE Rest'
  BY <1>9, <1>0, Constants DEF StopTrap
<1>10. ASSUME StopHttp, process = "up" PROVE Rest'
  BY <1>10, <1>0, Constants DEF StopHttp
<1>11. ASSUME StopOs, process = "up" PROVE Rest'
  BY <1>11, <1>0, Constants DEF StopOs
<1>12. ASSUME Interrupt, process = "up" PROVE Rest'
  BY <1>12, <1>0, Constants DEF Interrupt
<1>13. ASSUME NEW n \in Runs, TrapBegin(n), process = "up" PROVE Rest'
  BY <1>13, <1>0, Constants DEF TrapBegin
<1>14. ASSUME NEW n \in Runs, TrapCheck(n), process = "up" PROVE Rest'
  BY <1>14, <1>0, Constants DEF TrapCheck
<1>15. ASSUME NEW n \in Runs, TrapBeat(n), process = "up" PROVE Rest'
  BY <1>15, <1>0, Constants DEF TrapBeat
<1>16. ASSUME NEW n \in Runs, DaemonBegin(n), process = "up" PROVE Rest'
  BY <1>16, <1>0, Constants DEF DaemonBegin, SkipsInit
<1>17. ASSUME NEW n \in Runs, DaemonInit(n), process = "up" PROVE Rest'
  BY <1>17, <1>0, Constants DEF DaemonInit, InitAgentResults
<1>18. ASSUME NEW n \in Runs, DaemonMaster(n), process = "up" PROVE Rest'
  BY <1>18, <1>0, Constants DEF DaemonMaster, InitMasterResults
<1>19. ASSUME NEW n \in Runs, DaemonCheck(n), process = "up" PROVE Rest'
  BY <1>19, <1>0, Constants DEF DaemonCheck
<1>20. ASSUME NEW n \in Runs, DaemonProcess(n), process = "up" PROVE Rest'
  BY <1>20, <1>0, Constants DEF DaemonProcess
<1>21. ASSUME NEW n \in Runs, DaemonCleanup(n), process = "up" PROVE Rest'
  BY <1>21, <1>0, Constants DEF DaemonCleanup, CleanupResults
<1>22. ASSUME NEW n \in Runs, OsCheck(n), process = "up" PROVE Rest'
  BY <1>22, <1>0, Constants DEF OsCheck
<1>23. ASSUME NEW n \in Runs, OsCollect(n), process = "up" PROVE Rest'
  BY <1>23, <1>0, Constants DEF OsCollect
<1>24. ASSUME NEW n \in Runs, HttpBegin(n), process = "up" PROVE Rest'
  BY <1>24, <1>0, Constants DEF HttpBegin
<1>25. ASSUME NEW n \in Runs, HttpBind(n), process = "up" PROVE Rest'
  BY <1>25, <1>0, Constants DEF HttpBind, BindResults, Listening
<1>26. ASSUME NEW n \in Runs, HttpCheck(n), process = "up" PROVE Rest'
  BY <1>26, <1>0, Constants DEF HttpCheck
<1>27. ASSUME NEW n \in Runs, HttpPoll(n), process = "up" PROVE Rest'
  BY <1>27, <1>0, Constants DEF HttpPoll
<1>28. ASSUME NEW n \in Runs, HttpFree(n), process = "up" PROVE Rest'
  BY <1>28, <1>0, Constants DEF HttpFree
<1>29. ASSUME UNCHANGED vars PROVE Rest'
  BY <1>29 DEF vars
<1> QED
  BY <1>0, <1>1, <1>2, <1>3, <1>4, <1>5, <1>6, <1>7, <1>8, <1>9, <1>10, <1>11, <1>12, <1>13, <1>14, <1>15, <1>16, <1>17, <1>18, <1>19, <1>20, <1>21, <1>22, <1>23, <1>24, <1>25, <1>26, <1>27, <1>28, <1>29 DEF Next, Step, gw_app_start, gw_app_stop, Menu,
    Worker, gw_snmpd_trap, gw_snmpd_serve, gw_os_start, gw_httpd_serve

\* GwLifecycle satisfies its strengthened invariant.
THEOREM RunInvariant == Spec => []IInv
<1>1. Init => IInv
  BY TypeInit, Constants DEF Init, IInv, Fresh, FlagsUp, FirstRun,
    TrapAndHttpServeTheRun, DaemonServesTheRun, FirstRunSound
<1> QED
  BY <1>1, RunStep, PTL DEF Spec

\* However often the agent is restarted and however its threads interleave,
\* a heartbeat thread or web server of the current run only ends after
\* gw_app_stop was called in that run.
THEOREM TrapAndHttpNeverQuit == Spec => []TrapAndHttpServeTheRun
BY RunInvariant, PTL DEF IInv

\* An SNMP daemon of the current run only leaves its request loop after
\* gw_app_stop was called in that run.
THEOREM DaemonNeverQuits == Spec => []DaemonServesTheRun
BY RunInvariant, PTL DEF IInv

\* Until the first restart the agent neither crashes by itself nor serves an
\* SNMP agent that is not initialised.
THEOREM FirstRunIsSound == Spec => []FirstRunSound
BY RunInvariant, PTL DEF IInv

-----------------------------------------------------------------------------
(* The collector.  No start raises its flag, so nothing is left to hold it   *)
(* up in a second run; in the first one it is up until gw_app_stop ends.     *)

FirstCollector ==
    run = 1 =>
      /\ os_collect_running # 1 => ui = "stopped" \/ quitting
      /\ CollectorServesTheRun

LEMMA CollectorStep == TypeOK /\ FirstCollector /\ [Next]_vars => FirstCollector'
<1> SUFFICES ASSUME TypeOK, FirstCollector, [Next]_vars PROVE FirstCollector'
  OBVIOUS
<1> USE Constants DEF FirstCollector, CollectorServesTheRun
<1>1. ASSUME NEW n \in Runs, gw_os_start(n) PROVE FirstCollector'
  BY <1>1 DEF gw_os_start, OsCheck, OsCollect, TypeOK, control, flags
<1>2. CASE gw_app_start
  <2>1. /\ run' = run /\ quitting' = quitting /\ os_collect_running' = os_collect_running
        /\ ui # "stopped"
        /\ os'[run] = "done" => os[run] = "done"
    BY <1>2 DEF gw_app_start, CreateTrap, CreateDaemon, CreateOs, CreateHttp, Created,
                TypeOK, flags, snmp
  <2> QED BY <2>1
<1>3. CASE gw_app_stop
  BY <1>3 DEF gw_app_stop, StopDaemon, StopTrap, StopHttp, StopOs, threads
<1>4. CASE Menu
  BY <1>4 DEF Menu, MenuStart, MenuStop, MenuExit, TypeOK, Runs, flags, threads
<1>5. CASE UNCHANGED <<control, os, os_collect_running>>
  BY <1>5 DEF control
<1>6. ASSUME NEW n \in Runs, gw_snmpd_trap(n) \/ gw_snmpd_serve(n) \/ gw_httpd_serve(n)
      PROVE  UNCHANGED <<control, os, os_collect_running>>
  <2>1. ASSUME gw_snmpd_trap(n) PROVE UNCHANGED <<control, os, os_collect_running>>
    BY <2>1 DEF gw_snmpd_trap, TrapBegin, TrapCheck, TrapBeat, flags
  <2>2. ASSUME gw_snmpd_serve(n) PROVE UNCHANGED <<control, os, os_collect_running>>
    BY <2>2 DEF gw_snmpd_serve, DaemonBegin, DaemonInit, DaemonMaster, DaemonCheck,
                DaemonProcess, DaemonCleanup, flags
  <2>3. ASSUME gw_httpd_serve(n) PROVE UNCHANGED <<control, os, os_collect_running>>
    BY <2>3 DEF gw_httpd_serve, HttpBegin, HttpBind, HttpCheck, HttpPoll, HttpFree, flags
  <2> QED BY <1>6, <2>1, <2>2, <2>3
<1>7. CASE Interrupt \/ UNCHANGED vars
  <2>1. UNCHANGED <<control, os, os_collect_running>>
    BY <1>7 DEF Interrupt, vars, flags, threads
  <2> QED BY <1>5, <2>1
<1> QED
  BY <1>1, <1>2, <1>3, <1>4, <1>5, <1>6, <1>7 DEF Next, Step, Worker

\* What gw_app.h promises of the collector holds until the first restart: it
\* ends only after gw_app_stop was called.  The run collector_serves_the_run
\* finds it broken in the second run.
THEOREM FirstCollectorServes == Spec => [](run = 1 => CollectorServesTheRun)
<1>1. Init => FirstCollector
  BY Constants DEF Init, FirstCollector, CollectorServesTheRun
<1>2. FirstCollector => (run = 1 => CollectorServesTheRun)
  BY DEF FirstCollector
<1> QED
  BY <1>1, <1>2, TypeInit, TypeStep, CollectorStep, PTL DEF Spec

\* The Linux agent, which starts once, keeps the promise altogether.
THEOREM LinuxCollectorServes ==
    ASSUME ~Tray
    PROVE  Spec => []CollectorServesTheRun
<1>1. Init => run = 1
  BY DEF Init
<1>2. TypeOK /\ run = 1 /\ [Next]_vars => (run = 1)'
  <2> SUFFICES ASSUME run = 1, [Next]_vars PROVE run' = run
    OBVIOUS
  <2>1. ASSUME NEW n \in Runs, Worker(n) PROVE run' = run
    BY <2>1 DEF Worker, gw_snmpd_trap, TrapBegin, TrapCheck, TrapBeat, gw_snmpd_serve,
       DaemonBegin, DaemonInit, DaemonMaster, DaemonCheck, DaemonProcess, DaemonCleanup,
       gw_os_start, OsCheck, OsCollect, gw_httpd_serve, HttpBegin, HttpBind, HttpCheck,
       HttpPoll, HttpFree, control
  <2>2. ASSUME gw_app_start \/ gw_app_stop \/ Menu \/ Interrupt PROVE run' = run
    BY <2>2 DEF gw_app_start, CreateTrap, CreateDaemon, CreateOs, CreateHttp,
       gw_app_stop, StopDaemon, StopTrap, StopHttp, StopOs,
       Menu, MenuStart, MenuStop, MenuExit, Interrupt, control
  <2> QED
    BY <2>1, <2>2 DEF Next, Step, vars, control
<1>3. Spec => [](run = 1)
  BY <1>1, <1>2, TypeInit, TypeStep, PTL DEF Spec
<1>4. (run = 1) /\ (run = 1 => CollectorServesTheRun) => CollectorServesTheRun
  OBVIOUS
<1> QED
  BY <1>3, <1>4, FirstCollectorServes, PTL
=============================================================================
