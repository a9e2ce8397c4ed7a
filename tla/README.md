# guardwatch-agent in TLA+

guardwatch-agent is a small monitoring agent in C. It runs as one process with
a handful of threads, keeps its settings in an SQLite file, reports to a server
with SNMP traps, answers SNMP and HTTP requests and records CPU and memory load
in RRD files. Its own code is about 2,500 lines under `src/src`; the containers,
the tracked heap and the log come from the same author's gfc library under
`src/3rd/gfc-0.1.1`. Mongoose, mustach, althttpd, net-snmp, SQLite, rrdtool,
json-c and libuv are third-party code.

The threads share integers, strings, a database handle and a heap, and there is
no lock around any of them (the log has one). This is where the agent can go
wrong in ways a test hardly reaches, so it is what the modules model first. The
others follow what lies below the threads: the map that holds the rows of a query,
the log, and the round robin files.

Paths below are relative to the repository, `gw_app.c` meaning `src/src/gw_app.c`.

## Inventory

| component | state | operations | talks to |
|---|---|---|---|
| application (`gw_app.c`, `linux/gw_main.c`) | four running flags, SIGINT handler | `gw_app_init`, `gw_app_start`, `gw_app_stop`, `main` | creates all threads, loads the settings |
| tray (`windows/gw_win.c`) | the menu's started state, the dialog's fields | start, stop, exit, settings dialog | calls the application and the settings store |
| settings store (`gw_sqlite.c`, `_gw_app_settings`) | table `tn_gw_stg`, handle `_gw_sqlite`, cached copy | open and seed, query, execute | used by the starting, web and heartbeat threads |
| heartbeat (`gw_snmpd.c`) | its flag, message buffer | a trap every 60 s | reads the cached id, sends to the server |
| SNMP daemon (`gw_snmpd.c`) | its flag, net-snmp's initialisation | init, serve, clean up | net-snmp |
| web server (`gw_httpd.c`) | its flag, the listening socket | bind, poll, handle requests | writes the acknowledgement id, reads the RRDs |
| OS collector (`linux/gw_os.c`) | its flag, RRD files | sample every 5 s, fetch the last minute | rrdtool, gfc lists |
| tracked heap (`gfc_gc.c`) | slot table, bit table, total | malloc, realloc, free | under every list, map and string |
| containers, strings (`gfc_list.c`, `gfc_map.c`, `gfc_string.c`) | tables of elements | put, get, remove, append, split | rows of a query |
| log (`gfc_log.c`) | current file, date, lock | rotate and write | every thread |

What is hard: `gw_app_stop` stores zeros and joins nobody, while two threads
begin by storing 1; a restart reopens the database under the threads of the
previous run; ids are copied with `strcpy` while others read them; the process
may be killed between two inserts; results of `pthread_create`, `mg_bind` and
`gw_sqlite_execute` are not tested; two threads allocate from an unprotected
slot table. `PROJECT.json` lists each such place with its line ("hazards").

What makes each component correct:

- life cycle: a run that is not stopped keeps its workers, a stop ends them, the
  SNMP agent is initialised before it serves, heartbeats go on;
- settings: an acknowledged id is stored and survives crashes, interrupted
  seeding is repaired and changes nothing that is there, a start works with
  what is stored, no mixture of two ids is stored or sent;
- tracked heap: every block is found by its free, no block is released twice, no
  slot is lost, the total is right;
- map: it is the function its callers take it for, through every growth of its
  table, and every put returns;
- log: no line that was written is lost by a rotation, and the writes that do not
  hold the lock find an open file;
- metrics: a request is answered with the last minute and with what was measured in
  it, whatever the collector is doing.

## Modules

### GwLifecycle

The thread that calls `gw_app_start` and `gw_app_stop` (`ui`) and the four worker
threads of every run. A worker is a kind and the number of the start that created
it; `trap`, `daemon`, `os` and `http` hold the program counters by run. One
action is one access to shared state with the thread-local work around it:
`CreateTrap`, `CreateDaemon`, `CreateOs`, `CreateHttp` are `gw_app_start` from
line 213; `StopDaemon` to `StopOs` the four stores of `gw_app_stop`; `Trap*`,
`Daemon*`, `Os*` and `Http*` the thread functions; `MenuStart`, `MenuStop` and
`MenuExit` the tray commands; `Interrupt` a SIGINT, handled by main's handler or
by the empty one the daemon installs. `agent`, `initCalled` and `skipped` record
what net-snmp has been initialised to, which a daemon that finds flag 2 skips.

External behaviour is what the code can observe: `pthread_create` works for the
kinds in `Creatable`; `init_agent` and `init_master_agent` succeed or fail;
`mg_bind` fails while a web thread still listens, or always if another program
may hold the port (`PortConflict`). A NULL from `mg_bind` crashes the process.
A daemon that jumps over the initialisation also jumps over that of its
descriptor sets, so its clean-up is a choice between no harm and a crash.

### GwSettings and AckRegister

The table, its cached copy and the three threads that use them. An id is a pair
of halves because `strcpy` writes it while others read: `AckCopy1/2` (web),
`BeatCopy1/2` (heartbeat) and `LoadAck1/2` (start) copy one half each. The other
settings are written by the starting thread only and are copied in one step.
`CloseOld`, `OpenDatabase` and one `Seed` per row are `gw_sqlite_open`; `Query`,
`LoadAck1`, `LoadAck2`, `Load` the rest of `gw_app_start` before the threads; `DialogOpen`,
`DialogSave` (one row each) and `DialogCancel` the dialog; `Crash` kills the
process between any two steps and leaves the table. With `Faults` any statement
and the open may fail. `candidates` is a history variable: the last answered id
and the ids of later requests.

`AckRegister` is what the server that acknowledges the agent relies on, and has no
code of its own: a register whose content changes at one moment of a request,
before the answer, that a kill leaves as it was before or after that moment, and
that an agent which is up and idle works with. The mapping `Register` shows of the
settings what the server can see: what a start would load from the table (`stored`),
the request from its first copy to its answer (`asked`) and the cached id of an agent
that has started and handles none (`works`). Seeds, queries, loads and the copies
of halves are stutters; `AckUpdate` is `Keep`, and only if the row is there.

### GfcGc

The tracked heap. `bits` is the set of marked slots, `ptr` and `tot` the entries,
`live` and `size` what libc has handed out. The most significant bit of a byte is
its first slot, so the cascade of masks in `gfc_gc_malloc` is "the first unmarked
slot". Each call is split where another thread can come between its reads and
writes: search and entry of a malloc, then its assertion; search, unmarking and
release of a free; libc's realloc and the update of the entry. `ClearedBits` is
the switch of masks in `gfc_gc_free`, including the one at line 339 that clears
two bits. `Wrapped` is size_t arithmetic. Growing the table leaves the new slots
with arbitrary contents, as the code does. `ByteBits` (8), `IncCount` (64) are
constants so that TLC can fill a byte with few blocks.

### GfcMap and PlainMap

`PlainMap` is what a caller of `gfc_map.c` relies on: one value per key. It is
abstract and has no code of its own. A map that is *tidy* is a map in the full
sense. One that is not, because a removal has left a hole in a chain or because
the memory `gfc_map_new` got held the rows of another map, still changes one key by
a put, but a removed key may come back with its older value and a growth of the
table may change any key. `GfcMap` is the code: slots, probing of `MaxChain` slots
from the hash on, the count that makes the table grow, and `gfc_map_rehash`, which
calls `gfc_map_put` and may so start another rehash. `rehashes` is the stack of
unfinished ones, each with its old table and the slots its loop has still to move;
`Store`, `BeginRehash`, `EndRehash` and `OutOfMemory` are one turn of these loops.
The agent uses each map in one thread. `Value` and `Tidy` are the refinement
mapping: the value of a key is in the table or waits in one of the old ones. Both
modules keep the put under way (`pending`, `call`) and what the last call to return
has reported (`last`), so that PlainMap is about calls and not only about values: a
put that reports success has stored exactly its value under its key, one that
reports no memory has only lost entries, and a key whose removal is reported is gone,
the last two of a tidy map.

### GfcLog

The log as several threads use it. `Enter` to `Fopen` are `gfc_log_open`, under the
mutex (`holder`): the date of an old log on the first call of a process, closing
and renaming on a new day, opening. `ReadFile` and the three prints are the body of
`gfc_log_info` and its three siblings, which differ in one word: each print reads
the stream anew and writes later. A stream closed in between is `stale`: a print
through it may crash, go nowhere or reach the file opened next. A line is two
pieces, the prefix and the rest. The clock counts half days, because `gmtime`,
which dates the old log, is half a day behind east of Greenwich.
`gfc_log_init` is another process, which may begin at any moment.

### GwMetrics

`gw_app_init` makes the files, or goes on with the ones it has when `rrd_create`
fails; `Check`, `gw_os_cpu_monitor`, `gw_os_memory_monitor` and `Wake` are the
collector; `Reply` is what `gw_os_cpu` and `gw_os_memory` answer at the moment. The
value of a row is abstracted to the set of samples that are averaged in it. What a
file is made of is taken from rrdtool: `Created` (`rrd_create.c`, which begins a
file ten seconds ago), `Written` and `Updated` (`process_arg` of `rrd_update.c`: the
step that was open is closed apart from the others if more than one has ended),
`Read`, `Start` and `End` (`rrd_fetch.c`). `rrd_update` writes the rows first and the
time of the file last; a request, or a kill, may come between, so it is the two
actions `Monitor` and `Finish`. The lock `rrd_open` takes is no help: locks of
`fcntl` belong to the process, and both threads map the file.

Two facts about the code that reading it does not show at once. The `- 1` in
`gw_os_cpu`'s count is right: `rrd_fetch` rounds the end up by a whole step even if
it is a multiple, so its last row is the step that has not ended, and since row i
ends at `start + (i + 1) * step`, the label `start + i * step` is the beginning of
its step (`LastMinuteOnly`). And a request within an update is answered with each
value one step early or, after a pause, as many steps as have just ended
(`ReportsWhatWasMeasured` says by how many).

### Instances

`MCGwSettings`, `MCGfcGc` and `MCGfcMap` hold what TLC needs: three hashes whose
chains collide and wrap around; two of the six dialog settings in both orders; symmetry of the blocks (sound: addresses are only compared) and
the constraint that ends the exploration at a grown table.

Definitions marked as mutants, and those whose comment describes a mistake (such
as `ClearedNothing`), are deliberately wrong forms of the definition that follows
them. They are used in no specification; replacing the right form by the wrong
one must make TLC find the property violated (`PROJECT.json`, "mutants").

## Runs

| run | result | bounds | what it shows |
|---|---|---|---|
| `lifecycle_restart` | passes, 67,537 states | two starts, tray, daemon and web worker | `TrapAndHttpServeTheRun`, `DaemonServesTheRun`, `FirstRunSound`, `CleanStopEndsWorkers` |
| `lifecycle_linux` | passes, 314 states | one start, all workers, port conflict | `FirstRunSound`, `KeepsBeating` |
| `settings_linux` | passes, 640 states | two ids, two values, crashes, working database | `AckSurvives`, `SeedingCompletes`, `StoredIdWhole`, `ImplementsRegister` |
| `settings_tray` | passes, 1.7 million states | one id, restarts, dialog, faults, crashes | `SavedSettingsTakeEffect`, `SeedsPreserve` |
| `gc_one_thread` | passes, 66,560 states | one thread, five blocks, two sizes, bytes of four slots | `TableHoldsLiveBlocks`, `MarkedSlotsHoldBlocks`, `TotalIsLiveBytes` |
| `map_plain` | passes, 46,737 states | three keys, two values, a first table of 8, two further ones, chains of 2 | `ImplementsPlainMap`, `SizeCoversSlots`, `PutReturns` |
| `log_kept` | passes, 784,000 states | two threads, two processes, two midnights, one line each | `SafeUntilMidnight`, `KeepsStored` |
| `metrics` | passes, 4.0 million states | two processes, ten seconds of three to a step, lateness of three | `LastMinuteOnly`, `ReportsWhatWasMeasured`, `MissesOnlyGaps`, `OnlyThisProcess`, `StopsAfterPass` |
| `stop_ends_workers` | violated | one start | a stop before a worker's first statement is undone by it |
| `collector_serves_the_run` | violated | two starts | the collector of a second run ends at once |
| `gc_free_finds_block` | violated | one thread, seven blocks, bytes of eight slots | the double mask loses a live block's slot |
| `gc_malloc_keeps_slot` | violated | two threads | two mallocs take one slot |

The violated runs each check what a header, comment or assertion of the
repository says; the findings in `PROJECT.json` quote it.

Bounds. Two starts show every effect of a restart: workers of an earlier run
only meet the flags of the current one, and the proofs below hold for every
number of starts. `lifecycle_restart` leaves out the collector, whose flag no
other thread uses, and the trap thread, whose loop has the form of the web
thread's; `stop_ends_workers` and `lifecycle_linux` have them. Two ids are needed
to see a mixture. Five blocks fill a table of four slots and make it grow; the
seven of `gc_free_finds_block` are the fewest that reach the defective mask of a
real byte.

The map's table of 8 with chains of 2 stands for 256 and 8: with two keys on the
last slot and a third on the first, whose chains wrap around, moving them in slot
order needs a rehash within a rehash. `MapFull` is 9, so that the slot whose number
is the error code is in the second table; a table of more than 32 slots is the
failed allocation. A recycled first table keeps arbitrary keys in one slot
(`StaleNew`); doubled tables are assumed to come from the system zero-filled, which
holds for blocks of half a megabyte and more.

In `log_kept` the clock may pass two midnights, one of them in each process. One
line per thread is enough for a writer to meet a rotation, and the theorems below
hold for any number.

In `metrics` the step, the pause, the window and the heartbeat are 3, 3, 6 and 6
instead of 5, 5, 60 and 600: the pause is the step, as in the code, the window two
steps and the heartbeat short enough to be exceeded. `MaxLate` bounds how long the
collector is kept from running in all. Rows are written together with the pointer
to the newest; the file's 600 rows are not exceeded within a window; samples fall on
whole seconds.

Deadlock is not checked where the system may stop: a process that has exited or
crashed, and an agent that is stopped for good.

Fairness. `FairSpec` of GwLifecycle is weak fairness of the started calls
(`gw_app_start` and `gw_app_stop` do not block, apart from database and disk) and
of every worker step but one: threads are scheduled by the operating system, the
sleeps end, `mg_mgr_poll` returns after 100 ms. `agent_check_and_process(1)` waits
for a packet or an alarm and may wait for ever, so `DaemonProcess` is not fair; the
two properties about the end of all workers say "if packets arrive"
(`PacketsArrive`). No fairness is assumed of the user or of signals. `FairSpec`
of GfcMap is weak fairness of the loops of a put that has begun, which is sequential
code; `PutReturns` needs it.
The clean stop needs fairness because threads must look at their flags,
`KeepsBeating` because the sleep must end.

## Proofs

All proofs are checked by TLAPS for every value of the constants that satisfies
the named assumptions of the modules.

`GwLifecycleProofs`, for any number of starts: `TypeCorrect`; `TrapAndHttpNeverQuit`,
`DaemonNeverQuits` and `FirstRunIsSound`, all from `RunInvariant` (`Spec => []IInv`). These
properties are not inductive. `IInv` adds that runs to come have no workers
(`Fresh`), that the flag of a kind is up from the moment its worker of the current
run tests it until the stop of the run (`FlagsUp`: the store by which a thread
begins is what makes an earlier stop harmless), and that before the first restart
no flag is 2 and a daemon past initialisation has a master agent (`FirstRun`).
`CollectorServesTheRun`, which `collector_serves_the_run` finds violated by a second
start, is a theorem of the first run (`FirstCollectorServes`) and of the process that
is started once, the Linux one (`LinuxCollectorServes`): until `gw_app_stop` ends
nothing lowers the collector's flag (`FirstCollector`). So the defect needs a restart.

`GwSettingsProofs`: `TypeCorrect`; `StartLoadsStored` (a start that could read the table
works with it: nothing changes the table while it is loaded, `RowsCurrent`);
`OpeningPreserves`; `SeedingIsComplete` if no statement fails (`Seeded`: the rows
before the current insert are there, whoever inserted them); `StoredIdIsWhole` in
a process that is started once, even if statements fail (`OneStart`: which half
may be ahead, and that only one thread copies at a time); `AcknowledgementSurvives` in
addition without failing statements (`Stored`: the id's way from the table to
memory and back). `RegisterIsImplemented` is the refinement of AckRegister under the
same two assumptions: `Stored` says of each step which half of which id is where, and
so that what the mapping hides is either the old id or the new one.

`GfcGcProofs`: `TypeCorrect` for any set of threads, with `CallsHaveSlots` (a call
that has found a slot keeps a valid one because the table never shrinks);
`TableIsSound` for one thread and a table that has not grown. The invariant
`Sound` says what holds between the steps of a call: every entry but the one
being moved by a realloc is a live block, entries are distinct, a block on its
way into the table is in no other slot, a slot is unmarked before its block is
released. It survives the defective mask, which loses blocks but never
duplicates one.

`MarkedSlotsAreUsed` follows from the same invariant.

`TotalIsRight`, for one thread, any number of blocks and any width of size_t, needs
sums. `FiniteSums` supplies them: the sum of a function over a finite set is
defined by a recursive function on its subsets, which is proved to exist, and so is
what the sum becomes when an element is added or removed. The library's
induction theorems take an operator as parameter and cannot be used; `FiniteSums`
argues with a smallest number instead, which the well-foundedness of the natural
numbers gives for a set. The inductive invariant is `Counted`: between the steps of
a call the total differs from the bytes handed out by what the call owes it (`Owed`:
`gfc_gc_malloc` has yet to add its block, `gfc_gc_realloc` to exchange two sizes,
`gfc_gc_free` has subtracted before it releases), and every entry but the one a call
is changing has the size of its block (`EntriesMatch`), because free and realloc
subtract the size they find in the table and not the one libc knows.

Two theorems delimit the violated runs of the heap. `OneThreadKeepsSlot`: with one
thread the assertion that ends `gfc_gc_malloc` holds, also after the table has grown
with arbitrary contents, so `gc_malloc_keeps_slot` needs its second thread.
`SmallProgramsAreSafe`: a program with one thread that never has `ByteBits - 1` blocks
at a time (`Few`; seven, for the bytes of the code) finds every block it frees and
fails no assertion. By a pigeonhole argument (`FirstSlotIsLow`) `gfc_gc_malloc` then
stays below the last two slots of the first byte, so the defective mask is never
used (`Placed`). `test_gfc_gc.c` holds one block at a time and cannot meet it.

`GfcMapProofs`, for any keys, hash, table and chain length and any contents of a
recycled table: `TypeCorrect`, and `Implements`, the refinement of PlainMap. The
inductive invariant `IInv` is about the shape of the tables and of the unfinished
rehashes; what an inner rehash could go wrong with is in the mapping itself: while
`Tidy` holds, an entry that waits in an old table is the only one of its key, and an
entry of the table is where a probe stops. Each action then is a step of PlainMap or
a stutter: `gfc_map_put` is `Begin`, `Store` into the outermost table is `Put`,
`OutOfMemory` is `Fail`, `Store` within a rehash changes where an entry is and not
what `Value` says of its key, `BeginRehash` and `EndRehash` stutter if the map is tidy
and are a `Grow` if it is not. `CounterCovers` is an invariant of its own and
inductive with the type invariant: each `Store` fills at most one slot more and counts
one, removals only free slots, and a rehash begins with an empty table and no count.
The table is never more than half full of entries that were put; only slots that were
never initialised come on top.

`GfcLogProofs`, for any threads, lines, days and processes: `TypeCorrect` with mutual
exclusion of `gfc_log_open`; `LinesAreKept`; `MorningIsSafe`. The invariant `IInv`
relates the file, the date and the backups: in UTC every backup is of a day before
the date the process keeps, elsewhere every backup that holds its lines is; and as long
as a process has seen no midnight none of its streams is stale.

`GwMetricsProofs`, for any step, pause, window, heartbeat and number of processes:
`TypeCorrect` (no update writes outside the file), `LastMinute`, `ReportsItsOwn`,
`StopsSoon`, `ReportsAreTrue` and `MissesAreGaps`. `ReportsAreTrue` rests on `RowInv`:
every row up to the last one written is unknown or just the samples that meet its
step, and `scratch` just those that reach into the open step. It is inductive with `FileInv`, which bounds
the rows that are ahead of the file's time by the update under way. `MissesAreGaps` is
the converse, that what was measured is reported: `GapInv` adds that a row that says
nothing began before the first sample or meets a sample beyond the heartbeat, and
that the time before the creation is charged (`unkn`) to no step but the one that was
open then. Its core is that samples follow each other without a hole, so that those
that meet a step fill it, and `process_pdp_st` keeps a step that is filled.

Only model-checked: the liveness properties (`CleanStopEndsWorkers`, `KeepsBeating`,
`PutReturns`), because they rest on fairness, whose ENABLED the prover does not
treat; and the violated runs, of which the proofs only say what it takes to meet
them. Every invariant and action property of a passing run, and both refinements,
are theorems.

## Not modelled

- contents of SNMP packets, MIB registration, request callbacks that only log;
- window, menu and icon handling; the Windows registry; the Windows `main` of
  this commit, which does not match `gw_app.h`; the macOS status bar, which
  drives the same life cycle;
- reading `/proc`, the byte layout of RRD files, SQL and JSON text, character sets;
- a failed update of an acknowledgement that is answered 200 OK, and a trap with a
  torn id, are behaviours of GwSettings no property is stated of;
- dispatch of a web request, which compares strings and keeps no state; the
  pointer `gfc_map_rehash` frees past the tracked heap; the memory `rrd_fetch`'s
  callers never free;
- `gw_mssql.c`, `gw_ws.c`, `gw_ps.c` and the gfc parts the agent does not call;
- third-party libraries, other than by what their calls can return and, for
  rrdtool, how a file of gauges is kept. They are about 99% of the lines under
  `src`, which is why the modules cover a small share of the repository and most
  of what the agent itself does.

## Plan

Done: life cycle, settings, tracked heap, map, log, metrics. What could follow:

1. An abstract service (started, stopped, serving) that the life cycle implements
   for a clean stop, as a refinement with `INSTANCE`.
2. What remains of the tracked heap once its table has grown.
3. The map on top of the tracked heap, with the old table `gfc_map_rehash` frees.
