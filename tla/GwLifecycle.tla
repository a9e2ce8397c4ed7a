----------------------------- MODULE GwLifecycle -----------------------------
(***************************************************************************)
(* Life cycle of the guardwatch agent process: gw_app_start and            *)
(* gw_app_stop, the four integer running flags they share with the worker  *)
(* threads, and the four worker threads each start creates: the SNMP trap  *)
(* (heartbeat) thread, the SNMP daemon, the OS collector and the HTTP      *)
(* server.  Nothing synchronises the threads: no flag is protected by a    *)
(* lock, no thread is ever joined, and two of the threads set their own    *)
(* flag back to 1 as their first statement.                                *)
(*                                                                         *)
(* A thread is the pair of a kind and the number of the gw_app_start call  *)
(* that created it; its program counter names the statement it is about    *)
(* to execute.  One action is one access to shared state together with the *)
(* thread-local work around it.                                            *)
(***************************************************************************)
EXTENDS Naturals, FiniteSets

CONSTANTS
    MaxStarts,      \* bound: number of calls of gw_app_start in a behaviour
    Tray,           \* TRUE: Windows tray menu; FALSE: the main of Linux
    PortConflict,   \* TRUE: another program may hold the agent's web port
    Creatable       \* kinds of worker whose pthread_create succeeds

ASSUME MaxStartsAssumption == MaxStarts \in Nat \ {0}
ASSUME EnvironmentAssumption == Tray \in BOOLEAN /\ PortConflict \in BOOLEAN
ASSUME CreatableAssumption == Creatable \subseteq {"trap", "daemon", "os", "http"}

Runs == 1..MaxStarts

VARIABLES
    process,              \* "up", "exited" or "crashed"
    ui,                   \* the thread that calls gw_app_start / gw_app_stop
    quitting,             \* gw_win_on_exit is executing gw_app_stop
    run,                  \* number of gw_app_start calls begun
    snmp_daemon_running,  \* the four flags of gw_main.c
    snmp_trap_running,
    http_web_running,
    os_collect_running,
    trap, daemon, os, http,   \* program counters, by run
    skipped,              \* daemons that took the goto RUNNING
    agent,                \* what Net-SNMP has been initialised to
    initCalled,           \* Net-SNMP's done_init_agent > 0
    sigint                \* the installed SIGINT handler

control == <<ui, quitting, run>>
flags   == <<snmp_daemon_running, snmp_trap_running, http_web_running,
             os_collect_running>>
threads == <<trap, daemon, os, http>>
snmp    == <<skipped, agent, initCalled, sigint>>
vars    == <<process, control, flags, threads, snmp>>

UiPcs == {"start_trap", "start_daemon", "start_os", "start_http", "started",
          "stop_daemon", "stop_trap", "stop_http", "stop_os", "stopped"}
TrapPcs   == {"none", "created", "check", "beat", "done"}
DaemonPcs == {"none", "created", "init", "master", "check", "process",
              "cleanup", "done"}
OsPcs     == {"none", "check", "collect", "done"}
HttpPcs   == {"none", "created", "bind", "check", "poll", "free", "done"}

-----------------------------------------------------------------------------

\* main has run gw_app_init and is inside its first gw_app_start.
Init ==
    /\ process = "up" /\ ui = "start_trap" /\ quitting = FALSE /\ run = 1
    /\ snmp_daemon_running = 1 /\ snmp_trap_running = 1
    /\ http_web_running = 1 /\ os_collect_running = 1
    /\ trap = [n \in Runs |-> "none"] /\ daemon = [n \in Runs |-> "none"]
    /\ os = [n \in Runs |-> "none"]   /\ http = [n \in Runs |-> "none"]
    /\ skipped = {} /\ agent = "none" /\ initCalled = FALSE
    /\ sigint = "main"

-----------------------------------------------------------------------------
(* gw_app_start, executed by the tray's message loop or by main.  The work *)
(* before the first pthread_create (local database, settings, MIB          *)
(* registration) is module GwSettings.  The result of pthread_create is    *)
(* never tested, so a worker that could not be created is silently absent. *)

Created(kind, first) == IF kind \in Creatable THEN first ELSE "none"

CreateTrap ==
    /\ ui = "start_trap"
    /\ trap' = [trap EXCEPT ![run] = Created("trap", "created")]
    /\ ui' = "start_daemon"
    /\ UNCHANGED <<process, quitting, run, flags, daemon, os, http, snmp>>

\* The daemon's flag as gw_app_start leaves it: 2 means "already initialised".
BumpedDaemonFlag == snmp_daemon_running + 2   \* mutant
KeptDaemonFlag   == snmp_daemon_running       \* mutant
StartedDaemonFlag ==
    IF snmp_daemon_running = 0 THEN 2 ELSE snmp_daemon_running

CreateDaemon ==
    /\ ui = "start_daemon"
    /\ snmp_daemon_running' = StartedDaemonFlag
    /\ daemon' = [daemon EXCEPT ![run] = Created("daemon", "created")]
    /\ ui' = "start_os"
    /\ UNCHANGED <<process, quitting, run, snmp_trap_running,
                   http_web_running, os_collect_running, trap, os, http,
                   snmp>>

CreateOs ==
    /\ ui = "start_os"
    /\ os' = [os EXCEPT ![run] = Created("os", "check")]
    /\ ui' = "start_http"
    /\ UNCHANGED <<process, quitting, run, flags, trap, daemon, http, snmp>>

CreateHttp ==
    /\ ui = "start_http"
    /\ http' = [http EXCEPT ![run] = Created("http", "created")]
    /\ ui' = "started"
    /\ UNCHANGED <<process, quitting, run, flags, trap, daemon, os, snmp>>

(* The tray menu: it offers stop while _bStarting, start otherwise, and    *)
(* exit always.  The Linux main only sleeps.                               *)

MenuStart ==
    /\ Tray /\ ui = "stopped" /\ run < MaxStarts
    /\ run' = run + 1
    /\ ui' = "start_trap"
    /\ UNCHANGED <<process, quitting, flags, threads, snmp>>

MenuStop ==
    /\ Tray /\ ui = "started"
    /\ ui' = "stop_daemon"
    /\ UNCHANGED <<process, quitting, run, flags, threads, snmp>>

MenuExit ==
    /\ Tray /\ ui \in {"started", "stopped"}
    /\ ui' = "stop_daemon"
    /\ quitting' = TRUE
    /\ UNCHANGED <<process, run, flags, threads, snmp>>

(* gw_app_stop: four stores, in this order, and nothing else.              *)

StopDaemon ==
    /\ ui = "stop_daemon"
    /\ snmp_daemon_running' = 0
    /\ ui' = "stop_trap"
    /\ UNCHANGED <<process, quitting, run, snmp_trap_running,
                   http_web_running, os_collect_running, threads, snmp>>

StopTrap ==
    /\ ui = "stop_trap"
    /\ snmp_trap_running' = 0
    /\ ui' = "stop_http"
    /\ UNCHANGED <<process, quitting, run, snmp_daemon_running,
                   http_web_running, os_collect_running, threads, snmp>>

\* Mutant: the store to the web flag is forgotten.
StopHttpForgotten ==
    /\ ui = "stop_http"
    /\ ui' = "stop_os"
    /\ UNCHANGED <<process, quitting, run, flags, threads, snmp>>

StopHttp ==
    /\ ui = "stop_http"
    /\ http_web_running' = 0
    /\ ui' = "stop_os"
    /\ UNCHANGED <<process, quitting, run, snmp_daemon_running,
                   snmp_trap_running, os_collect_running, threads, snmp>>

StopOs ==
    /\ ui = "stop_os"
    /\ os_collect_running' = 0
    /\ ui' = "stopped"
    /\ process' = IF quitting THEN "exited" ELSE process
    /\ UNCHANGED <<quitting, run, snmp_daemon_running, snmp_trap_running,
                   http_web_running, threads, snmp>>

gw_app_start == CreateTrap \/ CreateDaemon \/ CreateOs \/ CreateHttp
gw_app_stop  == StopDaemon \/ StopTrap \/ StopHttp \/ StopOs
Menu         == MenuStart \/ MenuStop \/ MenuExit

-----------------------------------------------------------------------------
(* gw_snmpd_trap: sets its own flag, then sleeps and sends the heartbeat   *)
(* before it looks at the flag again.                                      *)

TrapBegin(n) ==
    /\ trap[n] = "created"
    /\ snmp_trap_running' = 1
    /\ trap' = [trap EXCEPT ![n] = "check"]
    /\ UNCHANGED <<process, control, snmp_daemon_running,
                   http_web_running, os_collect_running, daemon, os, http,
                   snmp>>

TrapCheck(n) ==
    /\ trap[n] = "check"
    /\ trap' = [trap EXCEPT ![n] =
                   IF snmp_trap_running # 0 THEN "beat" ELSE "done"]
    /\ UNCHANGED <<process, control, flags, daemon, os, http, snmp>>

\* Mutant: the thread gives up when the trap session cannot be opened.
TrapBeatOrQuit(n) ==
    /\ trap[n] = "beat"
    /\ \E next \in {"check", "done"} : trap' = [trap EXCEPT ![n] = next]
    /\ UNCHANGED <<process, control, flags, daemon, os, http, snmp>>

\* gw_snmpd_heartbeat comes back here whether or not the session opened.
TrapBeat(n) ==
    /\ trap[n] = "beat"
    /\ trap' = [trap EXCEPT ![n] = "check"]
    /\ UNCHANGED <<process, control, flags, daemon, os, http, snmp>>

gw_snmpd_trap(n) == TrapBegin(n) \/ TrapCheck(n) \/ TrapBeat(n)

-----------------------------------------------------------------------------
(* gw_snmpd_serve                                                          *)

\* A flag of 2 jumps over the whole initialisation.
SkipsUnlessFirst == snmp_daemon_running # 1   \* mutant
SkipsInit == snmp_daemon_running = 2

DaemonBegin(n) ==
    /\ daemon[n] = "created"
    /\ IF SkipsInit
         THEN /\ daemon' = [daemon EXCEPT ![n] = "check"]
              /\ skipped' = skipped \cup {n}
              /\ UNCHANGED sigint
         ELSE /\ daemon' = [daemon EXCEPT ![n] = "init"]
              /\ sigint' = "noop"
              /\ UNCHANGED skipped
    /\ UNCHANGED <<process, control, flags, trap, os, http, agent,
                   initCalled>>

\* Net-SNMP's init_agent: every call but the first is ignored and succeeds.
InitAgentResults == IF initCalled THEN {TRUE} ELSE {TRUE, FALSE}

DaemonInit(n) ==
    /\ daemon[n] = "init"
    /\ \E ok \in InitAgentResults :
         /\ daemon' = [daemon EXCEPT ![n] = IF ok THEN "master" ELSE "done"]
         /\ agent' = IF ok /\ agent = "none" THEN "agent" ELSE agent
    /\ initCalled' = TRUE
    /\ UNCHANGED <<process, control, flags, trap, os, http,
                   skipped, sigint>>

\* Net-SNMP's init_master_agent: fails at least when the UDP port is bound.
InitMasterResults == IF agent = "master" THEN {FALSE} ELSE {TRUE, FALSE}

\* Mutant: the error return is missing.
DaemonMasterGoesOn(n) ==
    /\ daemon[n] = "master"
    /\ daemon' = [daemon EXCEPT ![n] = "check"]
    /\ \E ok \in InitMasterResults : agent' = IF ok THEN "master" ELSE agent
    /\ UNCHANGED <<process, control, flags, trap, os, http, skipped,
                   initCalled, sigint>>

DaemonMaster(n) ==
    /\ daemon[n] = "master"
    /\ \E ok \in InitMasterResults :
         /\ daemon' = [daemon EXCEPT ![n] = IF ok THEN "check" ELSE "done"]
         /\ agent' = IF ok THEN "master" ELSE agent
    /\ UNCHANGED <<process, control, flags, trap, os, http,
                   skipped, initCalled, sigint>>

DaemonCheck(n) ==
    /\ daemon[n] = "check"
    /\ daemon' = [daemon EXCEPT ![n] =
                     IF snmp_daemon_running # 0 THEN "process" ELSE "cleanup"]
    /\ UNCHANGED <<process, control, flags, trap, os, http, snmp>>

DaemonProcess(n) ==
    /\ daemon[n] = "process"
    /\ daemon' = [daemon EXCEPT ![n] = "check"]
    /\ UNCHANGED <<process, control, flags, trap, os, http, snmp>>

\* The goto also jumped over netsnmp_large_fd_set_init, so the cleanup of a
\* daemon that skipped frees whatever pointers its stack held.
CleanupResults(n) == IF n \in skipped THEN {"up", "crashed"} ELSE {"up"}

DaemonCleanup(n) ==
    /\ daemon[n] = "cleanup"
    /\ daemon' = [daemon EXCEPT ![n] = "done"]
    /\ process' \in CleanupResults(n)
    /\ UNCHANGED <<control, flags, trap, os, http, snmp>>

gw_snmpd_serve(n) ==
    \/ DaemonBegin(n) \/ DaemonInit(n) \/ DaemonMaster(n)
    \/ DaemonCheck(n) \/ DaemonProcess(n) \/ DaemonCleanup(n)

-----------------------------------------------------------------------------
(* gw_os_start                                                             *)

OsCheck(n) ==
    /\ os[n] = "check"
    /\ os' = [os EXCEPT ![n] =
                 IF os_collect_running # 1 THEN "done" ELSE "collect"]
    /\ UNCHANGED <<process, control, flags, trap, daemon, http,
                   snmp>>

OsCollect(n) ==
    /\ os[n] = "collect"
    /\ os' = [os EXCEPT ![n] = "check"]
    /\ UNCHANGED <<process, control, flags, trap, daemon, http,
                   snmp>>

gw_os_start(n) == OsCheck(n) \/ OsCollect(n)

-----------------------------------------------------------------------------
(* gw_httpd_serve                                                          *)

\* Mutant: the server relies on the flag gw_app_stop left behind.
HttpBeginKeepsFlag(n) ==
    /\ http[n] = "created"
    /\ http' = [http EXCEPT ![n] = "bind"]
    /\ UNCHANGED <<process, control, flags, trap, daemon, os, snmp>>

HttpBegin(n) ==
    /\ http[n] = "created"
    /\ http_web_running' = 1
    /\ http' = [http EXCEPT ![n] = "bind"]
    /\ UNCHANGED <<process, control, snmp_daemon_running,
                   snmp_trap_running, os_collect_running, trap, daemon, os,
                   snmp>>

\* The listening socket lives from mg_bind to mg_mgr_free.
Listening(n) == http[n] \in {"check", "poll", "free"}

BindResults ==
    IF \E n \in Runs : Listening(n) THEN {"NULL"}
    ELSE IF PortConflict THEN {"conn", "NULL"} ELSE {"conn"}

\* mg_bind returns NULL when the port is taken; the result is not tested and
\* mg_set_protocol_http_websocket writes through it.
HttpBind(n) ==
    /\ http[n] = "bind"
    /\ \E conn \in BindResults :
         /\ http' = [http EXCEPT ![n] = IF conn = "NULL" THEN "bind" ELSE "check"]
         /\ process' = IF conn = "NULL" THEN "crashed" ELSE process
    /\ UNCHANGED <<control, flags, trap, daemon, os, snmp>>

HttpCheck(n) ==
    /\ http[n] = "check"
    /\ http' = [http EXCEPT ![n] =
                   IF http_web_running # 1 THEN "free" ELSE "poll"]
    /\ UNCHANGED <<process, control, flags, trap, daemon, os, snmp>>

HttpPoll(n) ==
    /\ http[n] = "poll"
    /\ http' = [http EXCEPT ![n] = "check"]
    /\ UNCHANGED <<process, control, flags, trap, daemon, os, snmp>>

HttpFree(n) ==
    /\ http[n] = "free"
    /\ http' = [http EXCEPT ![n] = "done"]
    /\ UNCHANGED <<process, control, flags, trap, daemon, os, snmp>>

gw_httpd_serve(n) ==
    \/ HttpBegin(n) \/ HttpBind(n) \/ HttpCheck(n) \/ HttpPoll(n)
    \/ HttpFree(n)

-----------------------------------------------------------------------------

\* The console interrupt: main's handler calls exit, the handler the SNMP
\* daemon installs is empty.
Interrupt ==
    /\ ~Tray
    /\ process' = IF sigint = "main" THEN "exited" ELSE process
    /\ UNCHANGED <<control, flags, threads, snmp>>

Worker(n) ==
    gw_snmpd_trap(n) \/ gw_snmpd_serve(n) \/ gw_os_start(n) \/ gw_httpd_serve(n)

Step == gw_app_start \/ gw_app_stop \/ Menu \/ Interrupt
          \/ \E n \in Runs : Worker(n)

\* An exited or crashed process takes no further step.
Next == process = "up" /\ Step

\* Every thread the kernel schedules keeps running; a user need not click, and
\* agent_check_and_process(1) need not return: it may wait for a packet.
Fairness ==
    /\ WF_vars(process = "up" /\ (gw_app_start \/ gw_app_stop))
    /\ \A n \in Runs :
         /\ WF_vars(process = "up" /\ gw_snmpd_trap(n))
         /\ WF_vars(process = "up" /\ (DaemonBegin(n) \/ DaemonInit(n)
                      \/ DaemonMaster(n) \/ DaemonCheck(n) \/ DaemonCleanup(n)))
         /\ WF_vars(process = "up" /\ gw_os_start(n))
         /\ WF_vars(process = "up" /\ gw_httpd_serve(n))

Spec == Init /\ [][Next]_vars

FairSpec == Spec /\ Fairness

-----------------------------------------------------------------------------
(* Properties                                                              *)

\* The flags, and the statement each worker of each run has come to.
TypeOK ==
    /\ process \in {"up", "exited", "crashed"}
    /\ ui \in UiPcs
    /\ quitting \in BOOLEAN
    /\ run \in Runs
    /\ snmp_daemon_running \in 0..2
    /\ snmp_trap_running \in 0..1
    /\ http_web_running \in 0..1
    /\ os_collect_running \in 0..1
    /\ trap \in [Runs -> TrapPcs]
    /\ daemon \in [Runs -> DaemonPcs]
    /\ os \in [Runs -> OsPcs]
    /\ http \in [Runs -> HttpPcs]
    /\ skipped \subseteq Runs
    /\ agent \in {"none", "agent", "master"}
    /\ initCalled \in BOOLEAN
    /\ sigint \in {"main", "noop"}

\* gw_app_stop has stored 0 to the flag of this kind since the last start.
DaemonStopped == ui \in {"stop_trap", "stop_http", "stop_os", "stopped"} \/ quitting
TrapStopped   == ui \in {"stop_http", "stop_os", "stopped"} \/ quitting
HttpStopped   == ui \in {"stop_os", "stopped"} \/ quitting

\* A heartbeat thread or a web server of the current run has only ended if
\* gw_app_stop was called in this run: the store of 1 by which each begins
\* outruns every 0 a previous gw_app_stop left behind.
TrapAndHttpServeTheRun ==
    /\ trap[run] = "done" => TrapStopped
    /\ http[run] \in {"free", "done"} => HttpStopped

\* A daemon of the current run that got past its initialisation only leaves
\* its loop if gw_app_stop was called in this run.
DaemonServesTheRun == daemon[run] = "cleanup" => DaemonStopped

\* Until the first restart the agent is sound whatever the interleaving: it
\* does not crash unless another program owns its port, and the SNMP daemon
\* processes requests only after init_master_agent has succeeded.
FirstRunSound ==
    run = 1 =>
      /\ process = "crashed" => PortConflict
      /\ \A n \in Runs : daemon[n] = "process" => agent = "master"

\* Strengthening of the safety properties above to an inductive invariant.
\* Workers of runs still to come do not exist; the flag of a kind is up from
\* the moment its worker of this run tests it until gw_app_stop clears it;
\* before the first restart no daemon has seen a 2.
Fresh == \A n \in Runs : n > run =>
    trap[n] = "none" /\ daemon[n] = "none" /\ http[n] = "none"
FlagsUp ==
    /\ trap[run] \in {"check", "beat"} /\ ~TrapStopped => snmp_trap_running = 1
    /\ http[run] \in {"bind", "check", "poll"} /\ ~HttpStopped
         => http_web_running = 1
    /\ daemon[run] # "none" /\ ~DaemonStopped => snmp_daemon_running # 0
FirstRun == run = 1 =>
    /\ snmp_daemon_running # 2
    /\ ui \in {"start_trap", "start_daemon"} => snmp_daemon_running = 1
    /\ skipped = {}
    /\ \A n \in Runs : daemon[n] \in {"check", "process"} => agent = "master"

IInv ==
    /\ TypeOK /\ Fresh /\ FlagsUp /\ FirstRun
    /\ TrapAndHttpServeTheRun /\ DaemonServesTheRun /\ FirstRunSound

Launching(n) == trap[n] = "created" \/ http[n] = "created"
Ended(n) ==
    /\ trap[n] \in {"none", "done"} /\ daemon[n] \in {"none", "done"}
    /\ os[n] \in {"none", "done"}   /\ http[n] \in {"none", "done"}

\* Packets or net-snmp's alarms end every wait of a daemon.
PacketsArrive == \A n \in Runs : []<>(daemon[n] # "process" \/ process # "up")

\* A gw_app_stop that begins when no trap or web thread is still before its
\* first statement ends every worker of every run, unless the user starts
\* again or the process ends first, and provided that no daemon waits for a
\* packet for ever.
CleanStopEndsWorkers ==
    PacketsArrive =>
      ((ui = "stop_daemon" /\ \A n \in Runs : ~Launching(n))
         ~> (ui = "start_trap" \/ process # "up" \/ \A n \in Runs : Ended(n)))

\* An agent that stays started keeps sending heartbeats, whether or not the
\* server can be reached.
KeepsBeating ==
    <>[](ui = "started" /\ process = "up")
      => []<>(\E n \in Runs : trap[n] = "beat")
        /\ []<>(\E n \in Runs : trap[n] = "check")

(* What the headers and comments promise and the code does not keep.       *)

\* gw_app.h, gw_app_stop: "stops guardwatch application and terminates all
\* working threads."
StopEndsWorkers ==
    PacketsArrive =>
      ((ui = "stopped") ~> (ui # "stopped" \/ process # "up"
                              \/ \A n \in Runs : Ended(n)))

\* gw_app.h, gw_app_start: "starts guardwatch application and starts all
\* working threads."  A collector only ends if this run was stopped.
CollectorServesTheRun ==
    os[run] = "done" => (ui = "stopped" \/ quitting)

=============================================================================
