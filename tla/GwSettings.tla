------------------------------ MODULE GwSettings ------------------------------
(***************************************************************************)
(* The agent's settings: the SQLite table tn_gw_stg, the in-memory copy    *)
(* _gw_app_settings, and the three threads that touch them without a lock: *)
(* the thread that runs gw_app_start and the settings dialog, the web      *)
(* thread that handles an acknowledge request, and the heartbeat thread.   *)
(*                                                                         *)
(* The acknowledgement id is copied with strcpy while others read it, so   *)
(* an id is a pair of halves and a copy is two steps.  The other settings  *)
(* are only ever written by the starting thread and are copied in one.     *)
(* A process may be killed between any two steps; the table survives.      *)
(***************************************************************************)
EXTENDS Naturals, Sequences

CONSTANTS
    Ids,          \* acknowledgement ids the backend generates
    NoId,         \* the empty string: seed value and zeroed memory
    Vals,         \* values of the other settings
    Default,      \* the value the seed statements insert
    Absent,       \* no row for this key
    SeedOrder,    \* the other cached keys, in the order they are inserted
    DialogOrder,  \* the same keys in the order the dialog saves them
    Tray,         \* TRUE: the tray can stop and start within one process
    Faults        \* TRUE: sqlite3_open and sqlite3_exec may fail

Keys   == {SeedOrder[i] : i \in 1..Len(SeedOrder)}
AckIds == Ids \cup {NoId}
Whole(id) == <<id, id>>

ASSUME KeyAssumption ==
    /\ SeedOrder \in Seq(Keys) /\ DialogOrder \in Seq(Keys)
    /\ Keys = {DialogOrder[i] : i \in 1..Len(DialogOrder)}
    /\ DialogOrder # <<>>
ASSUME ValueAssumption ==
    /\ NoId \notin Ids /\ Default \in Vals
    /\ Absent \notin Vals /\ Absent \notin AckIds \X AckIds
ASSUME ModeAssumption == Tray \in BOOLEAN /\ Faults \in BOOLEAN

VARIABLES
    diskAck, disk,   \* rows of tn_gw_stg: the id, and the other keys
    ack1, ack2,      \* the two halves of _gw_app_settings.acknowledgement_id
    cache,           \* the other members of _gw_app_settings
    handle,          \* _gw_sqlite: "null", "open" or "dangling"
    ui, at, rows,    \* gw_app_start: program counter, next seed, result set
    dialog, form,    \* gw_win_on_settings: next update, text fields
    http, req,       \* the acknowledge handler and its ackid
    beat, msg1, msg2, \* gw_snmpd_heartbeat and its message buffer
    candidates       \* history: the last answered id and later requests

store == <<diskAck, disk>>
mem   == <<ack1, ack2, cache>>
start == <<ui, at, rows>>
dlg   == <<dialog, form>>
web   == <<http, req, candidates>>
trap  == <<beat, msg1, msg2>>
vars  == <<store, mem, handle, start, dlg, web, trap>>

Empty == [k \in Keys |-> Absent]
NoRows == [ack |-> Absent, other |-> Empty]

\* A process before its first gw_app_start, with an empty table.
Init ==
    /\ diskAck = Absent /\ disk = Empty
    /\ ack1 = NoId /\ ack2 = NoId /\ cache = Empty /\ handle = "null"
    /\ ui = "close" /\ at = 0 /\ rows = NoRows
    /\ dialog = 0 /\ form = Empty
    /\ http = "none" /\ req = NoId /\ candidates = {NoId}
    /\ beat = "none" /\ msg1 = NoId /\ msg2 = NoId

-----------------------------------------------------------------------------
(* SQLite as the agent sees it.  gw_sqlite_execute on a NULL handle is an  *)
(* error (SQLITE_MISUSE); on the handle a failed open leaves behind it is  *)
(* a use after sqlite3_close, which is taken to fail as well.              *)

ExecResults ==
    IF handle # "open" THEN {"error"}
    ELSE IF Faults THEN {"ok", "error"} ELSE {"ok"}

\* Mutant: insert or ignore, which keeps the row that is there.
UpdatedIfMissing(old, new) == IF old = Absent THEN new ELSE old

\* update tn_gw_stg set val = .. where stgcd = ..: no row, no effect.
Updated(old, new) == IF old = Absent THEN old ELSE new

\* insert into tn_gw_stg: the primary key makes it fail on an existing row.
InsertedOrReplaced(old, new) == new   \* mutant
Inserted(old, new) == IF old = Absent THEN new ELSE old

-----------------------------------------------------------------------------
(* gw_app_start up to the creation of the threads.                         *)

\* Mutant: the closed handle is not reset.
CloseOldUnreset ==
    /\ ui = "close"
    /\ handle' = IF handle = "null" THEN "null" ELSE "closed"
    /\ ui' = "open"
    /\ UNCHANGED <<store, mem, at, rows, dlg, web, trap>>

CloseOld ==
    /\ ui = "close"
    /\ handle' = "null"
    /\ ui' = "open"
    /\ UNCHANGED <<store, mem, at, rows, dlg, web, trap>>

\* Mutant: a table with a row counts as seeded.
OpenSkipsSeeds ==
    /\ ui = "open"
    /\ handle' = "open" /\ at' = 0
    /\ ui' = IF diskAck = Absent THEN "seed" ELSE "query"
    /\ UNCHANGED <<store, mem, rows, dlg, web, trap>>

\* On an error the handle is closed but keeps its value, and gw_app_start
\* ignores the result.
OpenDatabase ==
    /\ ui = "open"
    /\ \/ handle' = "open" /\ ui' = "seed"
       \/ Faults /\ handle' = "dangling" /\ ui' = "query"
    /\ at' = 0
    /\ UNCHANGED <<store, mem, rows, dlg, web, trap>>

\* One insert per known key, each its own transaction, results ignored.
Seed ==
    /\ ui = "seed"
    /\ \E rc \in ExecResults :
         IF rc = "error" THEN UNCHANGED store
         ELSE IF at = 0
           THEN diskAck' = Inserted(diskAck, Whole(NoId)) /\ UNCHANGED disk
           ELSE /\ disk' = [disk EXCEPT ![SeedOrder[at]] = Inserted(@, Default)]
                /\ UNCHANGED diskAck
    /\ at' = at + 1
    /\ ui' = IF at = Len(SeedOrder) THEN "query" ELSE "seed"
    /\ UNCHANGED <<mem, handle, rows, dlg, web, trap>>

\* A failed query yields an empty list.
Query ==
    /\ ui = "query"
    /\ \E rc \in ExecResults :
         rows' = IF rc = "ok" THEN [ack |-> diskAck, other |-> disk]
                              ELSE NoRows
    /\ ui' = IF rows'.ack = Absent THEN "load" ELSE "ack1"
    /\ UNCHANGED <<store, mem, handle, at, dlg, web, trap>>

LoadAck1 ==
    /\ ui = "ack1"
    /\ ack1' = rows.ack[1]
    /\ ui' = "ack2"
    /\ UNCHANGED <<store, ack2, cache, handle, at, rows, dlg, web, trap>>

LoadAck2 ==
    /\ ui = "ack2"
    /\ ack2' = rows.ack[2]
    /\ ui' = "load"
    /\ UNCHANGED <<store, ack1, cache, handle, at, rows, dlg, web, trap>>

\* Keys without a row keep the member as it is.
LoadedNothingNew(old, read) ==   \* mutant
    [k \in Keys |-> IF old[k] = Absent THEN read[k] ELSE old[k]]
Loaded(old, read) ==
    [k \in Keys |-> IF read[k] = Absent THEN old[k] ELSE read[k]]

\* The remaining members are copied, the result set is freed and the threads
\* are created.
Load ==
    /\ ui = "load"
    /\ cache' = Loaded(cache, rows.other)
    /\ rows' = NoRows /\ at' = 0
    /\ ui' = "started"
    /\ http' = IF http = "none" THEN "idle" ELSE http
    /\ beat' = IF beat = "none" THEN "idle" ELSE beat
    /\ UNCHANGED <<store, ack1, ack2, handle, dlg, req, candidates, msg1, msg2>>

gw_app_start ==
    CloseOld \/ OpenDatabase \/ Seed \/ Query \/ LoadAck1 \/ LoadAck2 \/ Load

\* The tray stops and starts again; the web and heartbeat threads of the
\* previous run may not have ended yet (module GwLifecycle).
Restart ==
    /\ Tray /\ ui = "started" /\ dialog = 0
    /\ ui' = "close"
    /\ UNCHANGED <<store, mem, handle, at, rows, dlg, web, trap>>

-----------------------------------------------------------------------------
(* gw_httpd_event, POST /api/agent/acknowledge with an ackid.              *)

AckBegin ==
    /\ http = "idle"
    /\ \E id \in Ids :
         /\ req' = id
         /\ candidates' = candidates \cup {id}
    /\ http' = "copy1"
    /\ UNCHANGED <<store, mem, handle, start, dlg, trap>>

AckCopy1 ==
    /\ http = "copy1"
    /\ ack1' = req
    /\ http' = "copy2"
    /\ UNCHANGED <<store, ack2, cache, handle, start, dlg, req, candidates,
                   trap>>

\* Mutant: the statement is built while the id is still being copied.
AckCopy2Late ==
    /\ http = "copy2"
    /\ diskAck' = <<ack1, ack2>>
    /\ ack2' = req
    /\ http' = "update"
    /\ UNCHANGED <<disk, ack1, cache, handle, start, dlg, req, candidates,
                   trap>>

AckCopy2 ==
    /\ http = "copy2"
    /\ ack2' = req
    /\ http' = "update"
    /\ UNCHANGED <<store, ack1, cache, handle, start, dlg, req, candidates,
                   trap>>

\* Mutant: the id stays in the cache.
AckUpdateForgotten ==
    /\ http = "update"
    /\ http' = "respond"
    /\ UNCHANGED <<store, mem, handle, start, dlg, req, candidates, trap>>

\* The statement is built from the cache, not from the request; the result
\* of gw_sqlite_execute is ignored.
AckUpdate ==
    /\ http = "update"
    /\ \E rc \in ExecResults :
         diskAck' = IF rc = "ok" THEN Updated(diskAck, <<ack1, ack2>>)
                                 ELSE diskAck
    /\ http' = "respond"
    /\ UNCHANGED <<disk, mem, handle, start, dlg, req, candidates, trap>>

\* 200 OK with the agent's name.
AckRespond ==
    /\ http = "respond"
    /\ http' = "idle"
    /\ candidates' = {req}
    /\ UNCHANGED <<store, mem, handle, start, dlg, req, trap>>

Acknowledge == AckBegin \/ AckCopy1 \/ AckCopy2 \/ AckUpdate \/ AckRespond

-----------------------------------------------------------------------------
(* gw_snmpd_heartbeat: the message is read from the cache once the session *)
(* to the server is open.                                                  *)

BeatOpen ==
    /\ beat = "idle"
    /\ \/ beat' = "copy1"
       \/ beat' = "idle"       \* no session: logged, no trap
    /\ UNCHANGED <<store, mem, handle, start, dlg, web, msg1, msg2>>

BeatCopy1 ==
    /\ beat = "copy1"
    /\ msg1' = ack1
    /\ beat' = "copy2"
    /\ UNCHANGED <<store, mem, handle, start, dlg, web, msg2>>

BeatCopy2 ==
    /\ beat = "copy2"
    /\ msg2' = ack2
    /\ beat' = "send"
    /\ UNCHANGED <<store, mem, handle, start, dlg, web, msg1>>

BeatSend ==
    /\ beat = "send"
    /\ beat' = "idle"
    /\ msg1' = NoId /\ msg2' = NoId
    /\ UNCHANGED <<store, mem, handle, start, dlg, web>>

Heartbeat == BeatOpen \/ BeatCopy1 \/ BeatCopy2 \/ BeatSend

-----------------------------------------------------------------------------
(* gw_win_on_settings, run by the thread of the tray menu.                 *)

\* WM_INITDIALOG refreshes the members from the table, except the id.
DialogOpen ==
    /\ Tray /\ ui = "started" /\ dialog = 0
    /\ \E rc \in ExecResults :
         cache' = IF rc = "ok" THEN Loaded(cache, disk) ELSE cache
    /\ form' \in [Keys -> Vals]
    /\ dialog' = 1
    /\ UNCHANGED <<store, ack1, ack2, handle, start, web, trap>>

DialogCancel ==
    /\ dialog = 1
    /\ dialog' = 0
    /\ form' = Empty
    /\ UNCHANGED <<store, mem, handle, start, web, trap>>

\* IDOK: one update per field, each its own transaction, results ignored.
\* The members in memory are not touched.
DialogSave ==
    /\ dialog > 0
    /\ LET k == DialogOrder[dialog] IN
         \E rc \in ExecResults :
           disk' = IF rc = "ok"
                     THEN [disk EXCEPT ![k] = Updated(@, form[k])] ELSE disk
    /\ dialog' = IF dialog = Len(DialogOrder) THEN 0 ELSE dialog + 1
    /\ form' = IF dialog = Len(DialogOrder) THEN Empty ELSE form
    /\ UNCHANGED <<diskAck, mem, handle, start, web, trap>>

gw_win_on_settings == DialogOpen \/ DialogCancel \/ DialogSave

-----------------------------------------------------------------------------

\* The process is killed and started again: memory is lost, rows are not.
Crash ==
    /\ ack1' = NoId /\ ack2' = NoId /\ cache' = Empty /\ handle' = "null"
    /\ ui' = "close" /\ at' = 0 /\ rows' = NoRows
    /\ dialog' = 0 /\ form' = Empty
    /\ http' = "none" /\ req' = NoId
    /\ beat' = "none" /\ msg1' = NoId /\ msg2' = NoId
    /\ UNCHANGED <<store, candidates>>

Next == gw_app_start \/ Restart \/ Acknowledge \/ Heartbeat
          \/ gw_win_on_settings \/ Crash

Spec == Init /\ [][Next]_vars

-----------------------------------------------------------------------------
(* Properties                                                              *)

\* What the database, the cache and the threads' copies of them can hold.
TypeOK ==
    /\ diskAck \in (AckIds \X AckIds) \cup {Absent}
    /\ disk \in [Keys -> Vals \cup {Absent}]
    /\ ack1 \in AckIds /\ ack2 \in AckIds
    /\ cache \in [Keys -> Vals \cup {Absent}]
    /\ handle \in {"null", "open", "dangling"}
    /\ ui \in {"close", "open", "seed", "query", "ack1", "ack2", "load",
               "started"}
    /\ at \in 0..(Len(SeedOrder) + 1)
    /\ rows \in [ack : (AckIds \X AckIds) \cup {Absent},
                 other : [Keys -> Vals \cup {Absent}]]
    /\ dialog \in 0..Len(DialogOrder)
    /\ form \in [Keys -> Vals \cup {Absent}]
    /\ http \in {"none", "idle", "copy1", "copy2", "update", "respond"}
    /\ req \in AckIds
    /\ beat \in {"none", "idle", "copy1", "copy2", "send"}
    /\ msg1 \in AckIds /\ msg2 \in AckIds
    /\ candidates \subseteq AckIds

\* Opening the database never changes a row that is there: neither the seed
\* statements nor a crash between them lose what was stored (gw_sqlite_open).
SeedsPreserve ==
    [][ui # "started" /\ http \in {"none", "idle"}
         => /\ diskAck # Absent => diskAck' = diskAck
            /\ \A k \in Keys : disk[k] # Absent => disk'[k] = disk[k]]_vars

\* Every start that completes has a row for every known key, however many
\* earlier starts were killed while seeding.
SeedingCompletes ==
    ui \in {"query", "ack1", "ack2", "load", "started"} /\ ~Faults =>
      diskAck # Absent /\ \A k \in Keys : disk[k] # Absent

\* What the settings dialog saved is what the next start works with, if that
\* start could read the table at all.
SavedSettingsTakeEffect ==
    [][ui # "started" /\ ui' = "started" /\ rows.ack # Absent
         => \A k \in Keys : disk[k] # Absent => cache'[k] = disk[k]]_vars

\* A process that is started once stores and loads whole ids only, even if
\* the database fails.
StoredIdWhole == diskAck = Absent \/ diskAck[1] = diskAck[2]

\* Once a request has been answered its id is stored, survives every crash,
\* and is only replaced by the id of a later request; an agent that is up and
\* not handling a request works with the stored id.
AckSurvives ==
    /\ diskAck # Absent => \E id \in candidates : diskAck = Whole(id)
    /\ ui = "started" /\ http = "idle" => diskAck = <<ack1, ack2>>

\* The acknowledgement id as the server sees it: what a start would load, the
\* request between its first copy and its answer, and the id in the cache.
\* Copying an id half by half, seeding and loading are steps the server does
\* not see.
Handling == http \in {"copy1", "copy2", "update", "respond"}
Register == INSTANCE AckRegister WITH
    stored <- IF diskAck = Absent THEN NoId ELSE diskAck[1],
    asked  <- IF Handling THEN {req} ELSE {},
    up     <- ui = "started",
    works  <- IF ui = "started" /\ ~Handling THEN {ack1} ELSE {}

\* The table, the cache and the three threads that use them are one register:
\* an id is stored at one moment, before its request is answered, and what is
\* stored is what every later start and idle agent works with.
ImplementsRegister == Register!Spec

\* Strengthenings to inductive invariants.  StartProgress bounds the index
\* of the seed statement; RowsCurrent says that a result set is not outdated
\* while it is loaded; Seeded follows the seed statements; OneStart says which
\* half of an id may be ahead of the other in a process that is started once;
\* Stored follows the id from the table to memory and back when the database
\* does not fail.
StartProgress ==
    /\ ui = "seed" => at <= Len(SeedOrder)
    /\ ui \in {"ack1", "ack2"} => rows.ack # Absent

RowsCurrent ==
    /\ ui # "started" => dialog = 0
    /\ ui \in {"ack1", "ack2", "load"} /\ rows.ack # Absent => rows.other = disk

Seeded ==
    /\ ui \in {"seed", "query", "ack1", "ack2", "load", "started"}
         => handle = "open"
    /\ ui = "seed" =>
         /\ at > 0 => diskAck # Absent
         /\ \A i \in 1..Len(SeedOrder) : i < at => disk[SeedOrder[i]] # Absent
    /\ dialog > 0 => form \in [Keys -> Vals]

OneStart ==
    /\ ui # "started" => http = "none"
    /\ rows.ack # Absent => rows.ack[1] = rows.ack[2]
    /\ ui = "ack2" => ack1 = rows.ack[1]
    /\ http = "copy2" => ack1 = req
    /\ ui = "ack2" \/ http = "copy2" \/ ack1 = ack2

Stored ==
    /\ ui \in {"ack1", "ack2", "load"} => rows.ack = diskAck
    /\ ui = "load" => ack1 = diskAck[1]
    /\ ui = "started" => http # "none"
    /\ http \in {"idle", "copy1", "respond"} => ack1 = diskAck[1]
    /\ http \in {"update", "respond"} => ack1 = req
    /\ http \in {"copy1", "copy2", "update", "respond"} => req \in candidates
    /\ (IF diskAck = Absent THEN NoId ELSE diskAck[1]) \in candidates
=============================================================================
