--------------------------- MODULE GwSettingsProofs ---------------------------
(***************************************************************************)
(* Proofs about GwSettings for every set of ids and values and every list  *)
(* of settings, and that it implements AckRegister.                        *)
(***************************************************************************)
EXTENDS GwSettings, TLAPS

\* Typing facts about the constants.
LEMMA Constants ==
    /\ Len(SeedOrder) \in Nat /\ Len(DialogOrder) \in Nat
    /\ Len(DialogOrder) > 0
    /\ \A i \in 1..Len(SeedOrder) : SeedOrder[i] \in Keys
    /\ \A i \in 1..Len(DialogOrder) : DialogOrder[i] \in Keys
    /\ NoId \in AckIds /\ Ids \subseteq AckIds
    /\ Default \in Vals /\ Absent \notin Vals
    /\ Absent \notin AckIds \X AckIds
<1>1. Len(SeedOrder) \in Nat /\ Len(DialogOrder) \in Nat
  BY KeyAssumption
<1>2. Len(DialogOrder) > 0
  BY KeyAssumption, <1>1
<1>3. \A i \in 1..Len(SeedOrder) : SeedOrder[i] \in Keys
  BY DEF Keys
<1>4. \A i \in 1..Len(DialogOrder) : DialogOrder[i] \in Keys
  BY KeyAssumption
<1> QED
  BY <1>1, <1>2, <1>3, <1>4, ValueAssumption DEF AckIds

\* The initial state is well typed.
LEMMA TypeInit == Init => TypeOK /\ StartProgress
BY Constants DEF Init, TypeOK, StartProgress, Empty, NoRows, Whole

\* No step of any thread, and no crash, breaks the types.
LEMMA TypeStep == TypeOK /\ StartProgress /\ [Next]_vars => TypeOK' /\ StartProgress'
<1> SUFFICES ASSUME TypeOK, StartProgress, [Next]_vars PROVE TypeOK' /\ StartProgress'
  OBVIOUS
<1> USE DEF TypeOK, StartProgress, store, mem, start, dlg, web, trap
<1>1. CASE CloseOld
  BY <1>1, Constants DEF CloseOld
<1>2. CASE OpenDatabase
  BY <1>2, Constants DEF OpenDatabase
<1>3. CASE Seed
  BY <1>3, Constants DEF Seed, ExecResults, Inserted, Whole
<1>4. CASE Query
  BY <1>4, Constants DEF Query, ExecResults, NoRows, Empty
<1>5. CASE LoadAck1
  BY <1>5, Constants DEF LoadAck1
<1>6. CASE LoadAck2
  BY <1>6, Constants DEF LoadAck2
<1>7. CASE Load
  BY <1>7, Constants DEF Load, Loaded, NoRows, Empty
<1>8. CASE Restart
  BY <1>8, Constants DEF Restart
<1>9. CASE AckBegin
  BY <1>9, Constants DEF AckBegin
<1>10. CASE AckCopy1
  BY <1>10, Constants DEF AckCopy1
<1>11. CASE AckCopy2
  BY <1>11, Constants DEF AckCopy2
<1>12. CASE AckUpdate
  BY <1>12, Constants DEF AckUpdate, ExecResults, Updated
<1>13. CASE AckRespond
  BY <1>13, Constants DEF AckRespond
<1>14. CASE BeatOpen
  BY <1>14, Constants DEF BeatOpen
<1>15. CASE BeatCopy1
  BY <1>15, Constants DEF BeatCopy1
<1>16. CASE BeatCopy2
  BY <1>16, Constants DEF BeatCopy2
<1>17. CASE BeatSend
  BY <1>17, Constants DEF BeatSend
<1>18. CASE DialogOpen
  BY <1>18, Constants DEF DialogOpen, ExecResults, Loaded
<1>19. CASE DialogCancel
  BY <1>19, Constants DEF DialogCancel, Empty
<1>20. CASE DialogSave
  BY <1>20, Constants DEF DialogSave, ExecResults, Updated, Empty
<1>21. CASE Crash
  BY <1>21, Constants DEF Crash, Empty, NoRows, Whole
<1>22. CASE UNCHANGED vars
  BY <1>22 DEF vars
<1> QED
  BY <1>1, <1>2, <1>3, <1>4, <1>5, <1>6, <1>7, <1>8, <1>9, <1>10, <1>11,
     <1>12, <1>13, <1>14, <1>15, <1>16, <1>17, <1>18, <1>19, <1>20, <1>21, <1>22
  DEF Next, gw_app_start, Acknowledge, Heartbeat, gw_win_on_settings

\* Every reachable state has the types of the C variables it models.
THEOREM TypeCorrect == Spec => [](TypeOK /\ StartProgress)
BY TypeInit, TypeStep, PTL DEF Spec


\* When the database does not fail, rows are seeded, loaded and kept in step.
LEMMA SeedStep ==
    ASSUME Faults = FALSE, TypeOK, StartProgress, Seeded, SeedingCompletes,
           [Next]_vars
    PROVE  Seeded' /\ SeedingCompletes'
<1>0. TypeOK'
  BY TypeStep
<1> USE DEF TypeOK, StartProgress, Seeded, SeedingCompletes, store, mem, start,
            dlg, web, trap
<1>1. CASE CloseOld
  BY <1>1, <1>0, Constants DEF CloseOld
<1>2. CASE OpenDatabase
  BY <1>2, <1>0, Constants DEF OpenDatabase
<1>3. CASE Seed
  <2>1. ExecResults = {"ok"}
    BY <1>3 DEF Seed, ExecResults
  <2>2. diskAck' # Absent
    <3>1. CASE at = 0
      BY <1>3, <2>1, <3>1, Constants DEF Seed, Inserted, Whole
    <3>2. CASE at # 0
      BY <1>3, <2>1, <3>2, Constants DEF Seed
    <3> QED
      BY <3>1, <3>2
  <2>3. \A i \in 1..Len(SeedOrder) : i < at + 1 => disk'[SeedOrder[i]] # Absent
    <3>1. CASE at = 0
      BY <1>3, <3>1, <2>1, Constants DEF Seed
    <3>2. CASE at # 0
      <4>1. at \in 1..Len(SeedOrder)
        BY <1>3, <3>2, Constants DEF Seed
      <4>2. disk' = [disk EXCEPT ![SeedOrder[at]] =
                        Inserted(disk[SeedOrder[at]], Default)]
        BY <1>3, <2>1, <3>2 DEF Seed
      <4>3. SeedOrder[at] \in Keys
        BY <4>1, Constants
      <4>4. disk'[SeedOrder[at]] # Absent
        BY <4>2, <4>3, Constants DEF Inserted
      <4>5. ASSUME NEW i \in 1..Len(SeedOrder), i < at + 1
            PROVE  disk'[SeedOrder[i]] # Absent
        <5>1. CASE i = at
          BY <5>1, <4>4
        <5>2. CASE i # at
          <6>1. disk[SeedOrder[i]] # Absent
            BY <1>3, <4>1, <4>5, <5>2, Constants DEF Seed
          <6>2. SeedOrder[i] \in Keys
            BY Constants
          <6> QED
            BY <6>1, <6>2, <4>2, <4>4
        <5> QED
          BY <5>1, <5>2
      <4> QED
        BY <4>5
    <3> QED
      BY <3>1, <3>2
  <2>4. ui' = "query" => \A k \in Keys : disk'[k] # Absent
    <3>1. ASSUME NEW k \in Keys, ui' = "query" PROVE disk'[k] # Absent
      <4>1. PICK i \in 1..Len(SeedOrder) : k = SeedOrder[i]
        BY DEF Keys
      <4>2. at = Len(SeedOrder)
        BY <1>3, <3>1 DEF Seed
      <4> QED
        BY <4>1, <4>2, <2>3, Constants
    <3> QED
      BY <3>1
  <2> QED
    BY <1>3, <1>0, <2>2, <2>3, <2>4, Constants DEF Seed
<1>4. CASE Query
  BY <1>4, <1>0, Constants DEF Query, ExecResults, NoRows, Empty
<1>5. CASE LoadAck1
  BY <1>5, <1>0, Constants DEF LoadAck1
<1>6. CASE LoadAck2
  BY <1>6, <1>0, Constants DEF LoadAck2
<1>7. CASE Load
  BY <1>7, <1>0, Constants DEF Load, Loaded, NoRows, Empty
<1>8. CASE Restart
  BY <1>8, <1>0, Constants DEF Restart
<1>9. CASE AckBegin
  BY <1>9, <1>0, Constants DEF AckBegin
<1>10. CASE AckCopy1
  BY <1>10, <1>0, Constants DEF AckCopy1
<1>11. CASE AckCopy2
  BY <1>11, <1>0, Constants DEF AckCopy2
<1>12. CASE AckUpdate
  BY <1>12, <1>0, Constants DEF AckUpdate, ExecResults, Updated
<1>13. CASE AckRespond
  BY <1>13, <1>0, Constants DEF AckRespond
<1>14. CASE BeatOpen
  BY <1>14, <1>0, Constants DEF BeatOpen
<1>15. CASE BeatCopy1
  BY <1>15, <1>0, Constants DEF BeatCopy1
<1>16. CASE BeatCopy2
  BY <1>16, <1>0, Constants DEF BeatCopy2
<1>17. CASE BeatSend
  BY <1>17, <1>0, Constants DEF BeatSend
<1>18. CASE DialogOpen
  BY <1>18, <1>0, Constants DEF DialogOpen, ExecResults, Loaded
<1>19. CASE DialogCancel
  BY <1>19, <1>0, Constants DEF DialogCancel, Empty
<1>20. CASE DialogSave
  BY <1>20, <1>0, Constants DEF DialogSave, ExecResults, Updated, Empty
<1>21. CASE Crash
  BY <1>21, <1>0, Constants DEF Crash, Empty, NoRows, Whole
<1>22. CASE UNCHANGED vars
  BY <1>22 DEF vars
<1> QED
  BY <1>1, <1>2, <1>3, <1>4, <1>5, <1>6, <1>7, <1>8, <1>9, <1>10, <1>11,
     <1>12, <1>13, <1>14, <1>15, <1>16, <1>17, <1>18, <1>19, <1>20, <1>21, <1>22
  DEF Next, gw_app_start, Acknowledge, Heartbeat, gw_win_on_settings

\* A process that is started once stores whole ids only.
LEMMA WholeStep ==
    ASSUME Tray = FALSE, TypeOK, StartProgress, OneStart, StoredIdWhole,
           [Next]_vars
    PROVE  OneStart' /\ StoredIdWhole'
<1>0. TypeOK'
  BY TypeStep
<1> USE DEF TypeOK, StartProgress, OneStart, StoredIdWhole, store, mem, start,
            dlg, web, trap
<1>1. CASE CloseOld
  BY <1>1, <1>0, Constants DEF CloseOld
<1>2. CASE OpenDatabase
  BY <1>2, <1>0, Constants DEF OpenDatabase
<1>3. CASE Seed
  BY <1>3, <1>0, Constants DEF Seed, ExecResults, Inserted, Whole
<1>4. CASE Query
  BY <1>4, <1>0, Constants DEF Query, ExecResults, NoRows, Empty
<1>5. CASE LoadAck1
  BY <1>5, <1>0, Constants DEF LoadAck1
<1>6. CASE LoadAck2
  BY <1>6, <1>0, Constants DEF LoadAck2
<1>7. CASE Load
  BY <1>7, <1>0, Constants DEF Load, Loaded, NoRows, Empty
<1>8. CASE Restart
  BY <1>8, <1>0, Constants DEF Restart
<1>9. CASE AckBegin
  BY <1>9, <1>0, Constants DEF AckBegin
<1>10. CASE AckCopy1
  BY <1>10, <1>0, Constants DEF AckCopy1
<1>11. CASE AckCopy2
  BY <1>11, <1>0, Constants DEF AckCopy2
<1>12. CASE AckUpdate
  BY <1>12, <1>0, Constants DEF AckUpdate, ExecResults, Updated
<1>13. CASE AckRespond
  BY <1>13, <1>0, Constants DEF AckRespond
<1>14. CASE BeatOpen
  BY <1>14, <1>0, Constants DEF BeatOpen
<1>15. CASE BeatCopy1
  BY <1>15, <1>0, Constants DEF BeatCopy1
<1>16. CASE BeatCopy2
  BY <1>16, <1>0, Constants DEF BeatCopy2
<1>17. CASE BeatSend
  BY <1>17, <1>0, Constants DEF BeatSend
<1>18. CASE DialogOpen
  BY <1>18, <1>0, Constants DEF DialogOpen, ExecResults, Loaded
<1>19. CASE DialogCancel
  BY <1>19, <1>0, Constants DEF DialogCancel, Empty
<1>20. CASE DialogSave
  BY <1>20, <1>0, Constants DEF DialogSave, ExecResults, Updated, Empty
<1>21. CASE Crash
  BY <1>21, <1>0, Constants DEF Crash, Empty, NoRows, Whole
<1>22. CASE UNCHANGED vars
  BY <1>22 DEF vars
<1> QED
  BY <1>1, <1>2, <1>3, <1>4, <1>5, <1>6, <1>7, <1>8, <1>9, <1>10, <1>11,
     <1>12, <1>13, <1>14, <1>15, <1>16, <1>17, <1>18, <1>19, <1>20, <1>21, <1>22
  DEF Next, gw_app_start, Acknowledge, Heartbeat, gw_win_on_settings

\* The invariants hold initially.
LEMMA InvInit ==
    Init => Seeded /\ SeedingCompletes /\ OneStart /\ StoredIdWhole /\ Stored
BY Constants DEF Init, Seeded, SeedingCompletes, OneStart, StoredIdWhole,
  Stored, NoRows, Empty

\* Without database failures every completed start has a row for every key,
\* whatever crashes interrupted earlier ones.
THEOREM SeedingIsComplete ==
    ASSUME Faults = FALSE PROVE Spec => [](Seeded /\ SeedingCompletes)
BY InvInit, SeedStep, TypeCorrect, PTL DEF Spec

\* A process that is started once never stores a torn acknowledgement id,
\* even if statements of the database fail.
THEOREM StoredIdIsWhole ==
    ASSUME Tray = FALSE PROVE Spec => [](OneStart /\ StoredIdWhole)
BY InvInit, WholeStep, TypeCorrect, PTL DEF Spec

\* The id travels between table and memory unharmed.
LEMMA StoredStep ==
    ASSUME Tray = FALSE, Faults = FALSE, TypeOK, StartProgress, Seeded,
           SeedingCompletes, OneStart, StoredIdWhole, Stored, [Next]_vars
    PROVE  Stored'
<1>0. TypeOK'
  BY TypeStep
<1> USE DEF TypeOK, StartProgress, Seeded, SeedingCompletes, OneStart,
            StoredIdWhole, Stored, store, mem, start, dlg, web, trap
<1>1. CASE CloseOld
  BY <1>1, <1>0, Constants DEF CloseOld
<1>2. CASE OpenDatabase
  BY <1>2, <1>0, Constants DEF OpenDatabase
<1>3. CASE Seed
  BY <1>3, <1>0, Constants DEF Seed, ExecResults, Inserted, Whole
<1>4. CASE Query
  BY <1>4, <1>0, Constants DEF Query, ExecResults, NoRows, Empty
<1>5. CASE LoadAck1
  BY <1>5, <1>0, Constants DEF LoadAck1
<1>6. CASE LoadAck2
  BY <1>6, <1>0, Constants DEF LoadAck2
<1>7. CASE Load
  BY <1>7, <1>0, Constants DEF Load, Loaded, NoRows, Empty
<1>8. CASE Restart
  BY <1>8, <1>0, Constants DEF Restart
<1>9. CASE AckBegin
  BY <1>9, <1>0, Constants DEF AckBegin
<1>10. CASE AckCopy1
  BY <1>10, <1>0, Constants DEF AckCopy1
<1>11. CASE AckCopy2
  BY <1>11, <1>0, Constants DEF AckCopy2
<1>12. CASE AckUpdate
  BY <1>12, <1>0, Constants DEF AckUpdate, ExecResults, Updated
<1>13. CASE AckRespond
  BY <1>13, <1>0, Constants DEF AckRespond
<1>14. CASE BeatOpen
  BY <1>14, <1>0, Constants DEF BeatOpen
<1>15. CASE BeatCopy1
  BY <1>15, <1>0, Constants DEF BeatCopy1
<1>16. CASE BeatCopy2
  BY <1>16, <1>0, Constants DEF BeatCopy2
<1>17. CASE BeatSend
  BY <1>17, <1>0, Constants DEF BeatSend
<1>18. CASE DialogOpen
  BY <1>18, <1>0, Constants DEF DialogOpen, ExecResults, Loaded
<1>19. CASE DialogCancel
  BY <1>19, <1>0, Constants DEF DialogCancel, Empty
<1>20. CASE DialogSave
  BY <1>20, <1>0, Constants DEF DialogSave, ExecResults, Updated, Empty
<1>21. CASE Crash
  BY <1>21, <1>0, Constants DEF Crash, Empty, NoRows, Whole
<1>22. CASE UNCHANGED vars
  BY <1>22 DEF vars
<1> QED
  BY <1>1, <1>2, <1>3, <1>4, <1>5, <1>6, <1>7, <1>8, <1>9, <1>10, <1>11,
     <1>12, <1>13, <1>14, <1>15, <1>16, <1>17, <1>18, <1>19, <1>20, <1>21, <1>22
  DEF Next, gw_app_start, Acknowledge, Heartbeat, gw_win_on_settings

LEMMA StoredAlways ==
    ASSUME Tray = FALSE, Faults = FALSE PROVE Spec => []Stored
BY InvInit, StoredStep, SeedingIsComplete, StoredIdIsWhole, TypeCorrect, PTL
DEF Spec

\* An answered acknowledgement id survives every crash until a later request
\* replaces it, and an idle agent works with the stored id.
THEOREM AcknowledgementSurvives ==
    ASSUME Tray = FALSE, Faults = FALSE PROVE Spec => []AckSurvives
<1>1. TypeOK /\ Seeded /\ SeedingCompletes /\ OneStart /\ StoredIdWhole
        /\ Stored => AckSurvives
  BY DEF TypeOK, SeedingCompletes, OneStart, StoredIdWhole, Stored,
    AckSurvives, Whole
<1>2. Spec => []Stored
  BY StoredAlways
<1> QED
  BY <1>1, <1>2, SeedingIsComplete, StoredIdIsWhole, TypeCorrect, PTL

\* No dialog runs and no row changes between a query and the end of its load,
\* except the row of the acknowledgement id.
LEMMA RowsStep ==
    ASSUME TypeOK, StartProgress, RowsCurrent, [Next]_vars
    PROVE  RowsCurrent'
<1> USE DEF TypeOK, StartProgress, RowsCurrent, store, mem, start, dlg, web, trap
<1>1. CASE CloseOld
  BY <1>1, Constants DEF CloseOld
<1>2. CASE OpenDatabase
  BY <1>2, Constants DEF OpenDatabase
<1>3. CASE Seed
  BY <1>3, Constants DEF Seed
<1>4. CASE Query
  BY <1>4, Constants DEF Query, ExecResults, NoRows, Empty
<1>5. CASE LoadAck1
  BY <1>5, Constants DEF LoadAck1
<1>6. CASE LoadAck2
  BY <1>6, Constants DEF LoadAck2
<1>7. CASE Load
  BY <1>7, Constants DEF Load, NoRows
<1>8. CASE Restart
  BY <1>8, Constants DEF Restart
<1>9. CASE AckBegin
  BY <1>9, Constants DEF AckBegin
<1>10. CASE AckCopy1
  BY <1>10, Constants DEF AckCopy1
<1>11. CASE AckCopy2
  BY <1>11, Constants DEF AckCopy2
<1>12. CASE AckUpdate
  BY <1>12, Constants DEF AckUpdate
<1>13. CASE AckRespond
  BY <1>13, Constants DEF AckRespond
<1>14. CASE BeatOpen
  BY <1>14, Constants DEF BeatOpen
<1>15. CASE BeatCopy1
  BY <1>15, Constants DEF BeatCopy1
<1>16. CASE BeatCopy2
  BY <1>16, Constants DEF BeatCopy2
<1>17. CASE BeatSend
  BY <1>17, Constants DEF BeatSend
<1>18. CASE DialogOpen
  BY <1>18, Constants DEF DialogOpen
<1>19. CASE DialogCancel
  BY <1>19, Constants DEF DialogCancel
<1>20. CASE DialogSave
  BY <1>20, Constants DEF DialogSave
<1>21. CASE Crash
  BY <1>21, Constants DEF Crash, NoRows
<1>22. CASE UNCHANGED vars
  BY <1>22 DEF vars
<1> QED
  BY <1>1, <1>2, <1>3, <1>4, <1>5, <1>6, <1>7, <1>8, <1>9, <1>10, <1>11,
     <1>12, <1>13, <1>14, <1>15, <1>16, <1>17, <1>18, <1>19, <1>20, <1>21, <1>22
  DEF Next, gw_app_start, Acknowledge, Heartbeat, gw_win_on_settings

\* A result set is not outdated while it is loaded.
LEMMA RowsStayCurrent == Spec => []RowsCurrent
<1>1. Init => RowsCurrent
  BY DEF Init, RowsCurrent
<1> QED
  BY <1>1, RowsStep, TypeCorrect, PTL DEF Spec

\* A completed start works with exactly the stored settings.
THEOREM StartLoadsStored == Spec => SavedSettingsTakeEffect
<1> DEFINE Effect == ui # "started" /\ ui' = "started" /\ rows.ack # Absent
               => \A k \in Keys : disk[k] # Absent => cache'[k] = disk[k]
<1>1. ASSUME TypeOK, RowsCurrent, [Next]_vars PROVE [Effect]_vars
  <2> SUFFICES ASSUME Next, ui # "started", ui' = "started", rows.ack # Absent
               PROVE  Effect
    BY <1>1
  <2>1. Load
    BY DEF Next, gw_app_start, Restart, Acknowledge, Heartbeat,
      gw_win_on_settings, CloseOld, OpenDatabase, Seed, Query, LoadAck1,
      LoadAck2, AckBegin, AckCopy1, AckCopy2, AckUpdate, AckRespond, BeatOpen,
      BeatCopy1, BeatCopy2, BeatSend, DialogOpen, DialogCancel, DialogSave,
      Crash, start
  <2> QED
    BY <1>1, <2>1 DEF Load, Loaded, RowsCurrent
<1> QED
  BY <1>1, RowsStayCurrent, TypeCorrect, PTL DEF Spec, SavedSettingsTakeEffect

\* Opening the database never changes an existing row.
THEOREM OpeningPreserves == Spec => SeedsPreserve
<1> DEFINE Kept == ui # "started" /\ http \in {"none", "idle"}
               => /\ diskAck # Absent => diskAck' = diskAck
                  /\ \A k \in Keys : disk[k] # Absent => disk'[k] = disk[k]
<1>1. ASSUME TypeOK, StartProgress, RowsCurrent, [Next]_vars PROVE [Kept]_vars
  <2> SUFFICES ASSUME Next, ui # "started", http \in {"none", "idle"}
               PROVE  Kept
    BY <1>1
  <2>1. CASE Seed
    <3>1. CASE UNCHANGED store
      BY <3>1 DEF store
    <3>2. CASE at = 0
      BY <2>1, <3>2 DEF Seed, Inserted, store
    <3>3. CASE at # 0 /\ ~UNCHANGED store
      <4>1. /\ disk' = [disk EXCEPT ![SeedOrder[at]] =
                            Inserted(disk[SeedOrder[at]], Default)]
            /\ diskAck' = diskAck
        BY <2>1, <3>3 DEF Seed
      <4> QED
        BY <1>1, <4>1 DEF Inserted, TypeOK
    <3> QED
      BY <3>1, <3>2, <3>3
  <2>2. CASE ~Seed
    <3>1. UNCHANGED store
      BY <1>1, <2>2 DEF Next, gw_app_start, Restart, Acknowledge, Heartbeat,
        gw_win_on_settings, CloseOld, OpenDatabase, Query, LoadAck1,
        LoadAck2, Load, AckBegin, AckCopy1, AckCopy2, AckUpdate, AckRespond,
        BeatOpen, BeatCopy1, BeatCopy2, BeatSend, DialogOpen, DialogCancel,
        DialogSave, Crash, store, RowsCurrent, TypeOK
    <3> QED
      BY <3>1 DEF store
  <2> QED
    BY <2>1, <2>2
<1> QED
  BY <1>1, RowsStayCurrent, TypeCorrect, PTL DEF Spec, SeedsPreserve

-----------------------------------------------------------------------------
(* The register of the acknowledgement id.                                  *)

LEMMA RegisterStep ==
    ASSUME Tray = FALSE, Faults = FALSE, TypeOK, StartProgress, Seeded,
           SeedingCompletes, OneStart, Stored, [Next]_vars
    PROVE  [Register!Next]_(Register!register)
<1> DEFINE id == IF diskAck = Absent THEN NoId ELSE diskAck[1]
           asks == IF Handling THEN {req} ELSE {}
           works == IF ui = "started" /\ ~Handling THEN {ack1} ELSE {}
           Unseen == id' = id /\ asks' = asks /\ works' = works
                       /\ (ui = "started")' = (ui = "started")
<1> USE DEF TypeOK, store, mem, start, dlg, web, trap, Handling
<1>0. ASSUME Unseen PROVE UNCHANGED Register!register
  BY <1>0 DEF Register!register
<1>1. CASE CloseOld \/ OpenDatabase \/ Query
  BY <1>0, <1>1 DEF CloseOld, OpenDatabase, Query
<1>2. CASE LoadAck1 \/ LoadAck2
  BY <1>0, <1>2 DEF LoadAck1, LoadAck2
<1>3. CASE Seed
  <2>1. id' = id
    BY <1>3, Constants DEF Seed, Inserted, Whole
  <2>2. Unseen
    BY <1>3, <2>1 DEF Seed
  <2> QED BY <1>0, <2>2
<1>4. CASE Load
  <2>1. /\ ui = "load" /\ ui' = "started" /\ UNCHANGED <<diskAck, ack1, req>>
        /\ http = "none" /\ http' = "idle"
    BY <1>4 DEF Load, OneStart
  <2>2. diskAck # Absent /\ ack1 = diskAck[1]
    BY <2>1 DEF SeedingCompletes, Stored
  <2>3. Register!Start
    BY <2>1, <2>2 DEF Register!Start
  <2> QED BY <2>3 DEF Register!Next
<1>5. CASE AckBegin
  <2>1. http = "idle" /\ http' = "copy1" /\ req' \in Ids /\ UNCHANGED <<diskAck, ack1, ui>>
    BY <1>5 DEF AckBegin
  <2>2. ui = "started"
    BY <2>1 DEF OneStart
  <2>3. Register!Ask
    BY <2>1, <2>2 DEF Register!Ask
  <2> QED BY <2>3 DEF Register!Next
<1>6. CASE AckCopy1 \/ AckCopy2
  BY <1>0, <1>6 DEF AckCopy1, AckCopy2
<1>7. CASE AckUpdate
  <2>1. http = "update" /\ http' = "respond" /\ UNCHANGED <<ack1, ui, req>>
    BY <1>7 DEF AckUpdate
  <2>2. ui = "started" /\ ack1 = req
    BY <2>1 DEF OneStart, Stored
  <2>3. diskAck # Absent /\ ExecResults = {"ok"}
    BY <2>2 DEF SeedingCompletes, Seeded, ExecResults
  <2>4. diskAck' = <<ack1, ack2>>
    BY <1>7, <2>3 DEF AckUpdate, Updated
  <2>5. diskAck' # Absent /\ id' = req
    BY <2>2, <2>4, Constants
  <2>6. Register!Keep
    BY <2>1, <2>2, <2>5 DEF Register!Keep
  <2> QED BY <2>6 DEF Register!Next
<1>8. CASE AckRespond
  <2>1. http = "respond" /\ http' = "idle" /\ UNCHANGED <<diskAck, ack1, ui, req>>
    BY <1>8 DEF AckRespond
  <2>2. ui = "started" /\ ack1 = req /\ ack1 = diskAck[1]
    BY <2>1 DEF OneStart, Stored
  <2>3. diskAck # Absent
    BY <2>2 DEF SeedingCompletes
  <2>4. Register!Answer
    BY <2>1, <2>2, <2>3 DEF Register!Answer
  <2> QED BY <2>4 DEF Register!Next
<1>9. CASE Heartbeat \/ gw_win_on_settings
  BY <1>0, <1>9 DEF Heartbeat, BeatOpen, BeatCopy1, BeatCopy2, BeatSend,
                    gw_win_on_settings, DialogOpen, DialogCancel, DialogSave
<1>10. CASE Crash
  <2>1. Register!Kill
    BY <1>10 DEF Crash, Register!Kill
  <2> QED BY <2>1 DEF Register!Next
<1>11. CASE Restart
  BY <1>11 DEF Restart
<1>12. CASE UNCHANGED vars
  BY <1>0, <1>12 DEF vars
<1> QED
  BY <1>1, <1>2, <1>3, <1>4, <1>5, <1>6, <1>7, <1>8, <1>9, <1>10, <1>11, <1>12
  DEF Next, gw_app_start, Acknowledge

\* Copying an id half by half into the cache, writing it to the table from
\* there, seeding, loading and crashes at any moment together do what a
\* register does that is written at one moment.
THEOREM RegisterIsImplemented ==
    ASSUME Tray = FALSE, Faults = FALSE PROVE Spec => ImplementsRegister
<1>1. Init => Register!Init
  BY DEF Init, Register!Init, Handling
<1>2. Spec => []Stored
  BY StoredAlways
<1>3. TypeOK /\ StartProgress /\ Seeded /\ SeedingCompletes /\ OneStart /\ Stored
        /\ [Next]_vars => [Register!Next]_(Register!register)
  BY RegisterStep
<1> QED
  BY <1>1, <1>2, <1>3, SeedingIsComplete, StoredIdIsWhole, TypeCorrect, PTL
  DEF Spec, ImplementsRegister, Register!Spec
=============================================================================
