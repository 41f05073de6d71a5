---------------------------- MODULE StoreProofs ----------------------------
(***************************************************************************)
(* Safety of Store for every bound: types, no file newer than the state of *)
(* a running app, and no loss of what is stored.                           *)
(***************************************************************************)
EXTENDS Store, TLAPS

\* A process that is not up yet has no coroutine.
Asleep ==
  proc # "on" =>
    /\ saveJob = "none" /\ late = 0 /\ unscheduled = 0 /\ importing = "none"
    /\ busyN = 0 /\ ~job /\ stray = 0 /\ requested = "none"

\* Every job that loads servers, a cancelled one too, is in its busy section.
Counted == busyN >= Loading

\* Both files are there only as the two copies of a migration that is not over.
Twins == enc # NoFile /\ legacy # NoFile => enc.state = legacy.state
Copied == proc = "written" => enc # NoFile /\ legacy # NoFile
Moved == proc = "on" /\ ready => legacy = NoFile

\* The servers in the files, and those in memory, from where a save brings them into a
\* file, are all younger than the last wipe.
AllNew(servers) == \A s \in servers : s.wipes = wipes

Erased ==
  /\ AllNew(mem.servers)
  /\ enc # NoFile => AllNew(enc.state.servers)
  /\ legacy # NoFile => AllNew(legacy.state.servers)

IInv ==
  /\ TypeOK /\ Counted /\ Asleep
  /\ Twins /\ Copied /\ Moved /\ FileIsNotAhead /\ Erased
-----------------------------------------------------------------------------
(* Types.                                                                    *)

\* Every step leaves the flags Boolean.
LEMMA FlagsStep ==
  ASSUME FlagsOK, [Next]_vars
  PROVE  FlagsOK'
  <1>1. CASE OpenSealed
    BY <1>1, Zenon DEF OpenSealed, Opened, Idle, FlagsOK, memVars, loaders, diskVars, bounds
  <1>2. CASE OpenEmpty
    BY <1>2, Zenon DEF OpenEmpty, Opened, Idle, FlagsOK, memVars, loaders, diskVars, bounds
  <1>3. CASE MigrateWrite
    BY <1>3, Zenon DEF MigrateWrite, FlagsOK, memVars, loaders, diskVars, bounds
  <1>4. CASE MigrateDone
    BY <1>4, Zenon DEF MigrateDone, Opened, Idle, FlagsOK, memVars, loaders, diskVars, bounds
  <1>5. CASE OpenFails
    BY <1>5, Zenon DEF OpenFails, Opened, Idle, FlagsOK, memVars, loaders, diskVars, bounds
  <1>6. CASE Die
    BY <1>6, Zenon DEF Die, FlagsOK, memVars, loaders, diskVars, bounds
  <1>7. CASE KeystoreFault
    BY <1>7, Zenon DEF KeystoreFault, FlagsOK, memVars, loaders, diskVars, bounds
  <1>8. CASE UserUpdate
    BY <1>8, Zenon DEF UserUpdate, FlagsOK, memVars, loaders, diskVars, bounds
  <1>9. CASE ImportUpdate
    BY <1>9, Zenon DEF ImportUpdate, FlagsOK, memVars, loaders, diskVars, bounds
  <1>10. CASE CheckStarts
    BY <1>10, Zenon DEF CheckStarts, FlagsOK, memVars, loaders, diskVars, bounds
  <1>11. CASE CheckEnds
    BY <1>11, Zenon DEF CheckEnds, FlagsOK, memVars, loaders, diskVars, bounds
  <1>12. CASE JobStarts
    BY <1>12, Zenon DEF JobStarts, FlagsOK, memVars, loaders, diskVars, bounds
  <1>13. CASE JobStores
    BY <1>13, Zenon DEF JobStores, FlagsOK, memVars, loaders, diskVars, bounds
  <1>14. CASE JobEnds
    BY <1>14, Zenon DEF JobEnds, FlagsOK, memVars, loaders, diskVars, bounds
  <1>15. CASE Cancel
    BY <1>15, Zenon DEF Cancel, CancelJob, FlagsOK, memVars, loaders, diskVars, bounds
  <1>16. CASE Wipe
    BY <1>16, Zenon DEF Wipe, CancelJob, FlagsOK, memVars, loaders, diskVars, bounds
  <1>17. CASE Schedule
    BY <1>17, Zenon DEF Schedule, FlagsOK, memVars, loaders, diskVars, bounds
  <1>18. CASE ImportSchedule
    BY <1>18, Zenon DEF ImportSchedule, FlagsOK, memVars, loaders, diskVars, bounds
  <1>19. CASE SaveNow
    BY <1>19, Zenon DEF SaveNow, FlagsOK, memVars, loaders, diskVars, bounds
  <1>20. CASE DelayOver
    BY <1>20, Zenon DEF DelayOver, FlagsOK, memVars, loaders, diskVars, bounds
  <1>21. CASE JobSaves
    BY <1>21, Zenon DEF JobSaves, Save, FlagsOK, memVars, loaders, diskVars, bounds
  <1>22. CASE JobDone
    BY <1>22, Zenon DEF JobDone, FlagsOK, memVars, loaders, diskVars, bounds
  <1>23. CASE LateSave
    BY <1>23, Zenon DEF LateSave, Save, FlagsOK, memVars, loaders, diskVars, bounds
  <1>24. CASE RequestStarts \/ RequestStores \/ RequestEnds
    BY <1>24, Zenon DEF RequestStarts, RequestStores, RequestEnds, FlagsOK
  <1>25. CASE CloudStores
    BY <1>25, Zenon DEF CloudStores, FlagsOK, loaders
  <1>26. CASE UNCHANGED vars
    BY <1>26, Zenon DEF FlagsOK, vars, memVars, loaders
  <1> QED
    BY <1>1, <1>2, <1>3, <1>4, <1>5, <1>6, <1>7, <1>8, <1>9, <1>10, <1>11, <1>12,
       <1>13, <1>14, <1>15, <1>16, <1>17, <1>18, <1>19, <1>20, <1>21, <1>22,
       <1>23, <1>24, <1>25, <1>26 DEF Next, Opening, Saving

\* What replaceSource() makes of the servers in memory are servers again.
LEMMA ReplacedType ==
  ASSUME ValuesOK, NEW source \in Sources
  PROVE  Replaced(source) \in SUBSET Server
  BY DEF Replaced, ValuesOK, States, Server

\* Every step keeps the other types.
LEMMA ValuesStep ==
  ASSUME FlagsOK, ValuesOK, Counted, Copied, [Next]_vars
  PROVE  ValuesOK'
  <1>1. CASE OpenSealed
    BY <1>1 DEF OpenSealed, Opened, Idle, ValuesOK, States, Sealed, Plain,
       memVars, loaders, diskVars, bounds
  <1>2. CASE OpenEmpty
    BY <1>2 DEF OpenEmpty, Opened, Idle, Empty, ValuesOK, States, Sealed, Plain,
       memVars, loaders, diskVars, bounds
  <1>3. CASE MigrateWrite
    BY <1>3 DEF MigrateWrite, UseKey, ValuesOK, States, Sealed, Plain, memVars, loaders,
       diskVars, bounds
  <1>4. CASE MigrateDone
    BY <1>4 DEF MigrateDone, Copied, Opened, Idle, ValuesOK, States, Sealed, Plain,
       memVars, loaders, diskVars, bounds
  <1>5. CASE OpenFails
    BY <1>5 DEF OpenFails, Opened, Idle, Empty, UseKey, ValuesOK, States, Sealed,
       Plain, memVars, loaders, diskVars, bounds
  <1>6. CASE Die
    BY <1>6, StoreAssumption DEF Die, Empty, ValuesOK, States, Sealed, Plain,
       memVars, loaders, diskVars, bounds
  <1>7. CASE KeystoreFault
    BY <1>7, StoreAssumption DEF KeystoreFault, ValuesOK, memVars, loaders, diskVars, bounds
  <1>8. CASE UserUpdate
    BY <1>8, StoreAssumption DEF UserUpdate, Change, ValuesOK, States, Sealed,
       Plain, memVars, loaders, diskVars, bounds
  <1>9. CASE ImportUpdate
    BY <1>9, StoreAssumption DEF ImportUpdate, Change, ValuesOK, States, Sealed,
       Plain, memVars, loaders, diskVars, bounds
  <1>10. CASE CheckStarts
    BY <1>10, StoreAssumption DEF CheckStarts, ValuesOK, memVars, loaders, diskVars, bounds
  <1>11. CASE CheckEnds
    BY <1>11 DEF CheckEnds, Loading, Counted, FlagsOK, ValuesOK, memVars, loaders,
       diskVars, bounds
  <1>12. CASE JobStarts
    BY <1>12, StoreAssumption DEF JobStarts, ValuesOK, memVars, loaders, diskVars, bounds
  <1>13. CASE JobStores
    <2>1. mem' \in States
      BY <1>13, ReplacedType DEF JobStores, Change, ValuesOK, States, Sources
    <2> QED
      BY <1>13, <2>1, StoreAssumption DEF JobStores, Change, ValuesOK, loaders,
         diskVars, bounds
  <1>14. CASE JobEnds
    BY <1>14 DEF JobEnds, Loading, Counted, FlagsOK, ValuesOK, memVars, loaders, diskVars,
       bounds
  <1>15. CASE Cancel
    BY <1>15 DEF Cancel, CancelJob, Loading, FlagsOK, ValuesOK, memVars, loaders, diskVars,
       bounds
  <1>16. CASE Wipe
    BY <1>16, StoreAssumption DEF Wipe, CancelJob, Loading, Late, Empty, FlagsOK,
       ValuesOK, States, Sealed, Plain, memVars, loaders, diskVars, bounds
  <1>17. CASE Schedule
    <2>1. missed' \in Nat
      BY <1>17 DEF Schedule, ValuesOK, States
    <2> QED
      BY <1>17, <2>1 DEF Schedule, ScheduleSave, Late, ValuesOK, loaders, diskVars, bounds
  <1>18. CASE ImportSchedule
    BY <1>18 DEF ImportSchedule, ScheduleSave, Late, ValuesOK, memVars, loaders, diskVars,
       bounds
  <1>19. CASE SaveNow
    BY <1>19 DEF SaveNow, Late, ValuesOK, memVars, loaders, diskVars, bounds
  <1>20. CASE DelayOver
    BY <1>20 DEF DelayOver, ValuesOK, memVars, loaders, diskVars, bounds
  <1>21. CASE JobSaves
    BY <1>21 DEF JobSaves, Save, UseKey, ValuesOK, States, Sealed, Plain, memVars, loaders,
       diskVars, bounds
  <1>22. CASE JobDone
    BY <1>22 DEF JobDone, ValuesOK, memVars, loaders, diskVars, bounds
  <1>23. CASE LateSave
    BY <1>23 DEF LateSave, Save, UseKey, ValuesOK, States, Sealed, Plain, memVars, loaders,
       diskVars, bounds
  <1>24. CASE RequestStarts \/ RequestEnds
    BY <1>24, StoreAssumption DEF RequestStarts, RequestEnds, ValuesOK, diskVars, bounds
  <1>25. CASE RequestStores
    <2>1. mem' \in States
      BY <1>25, ReplacedType DEF RequestStores, Change, ValuesOK, States, Sources
    <2> QED
      BY <1>25, <2>1, StoreAssumption DEF RequestStores, Change, ValuesOK, diskVars, bounds
  <1>26. CASE CloudStores
    <2>1. mem' \in States
      BY <1>26, ReplacedType DEF CloudStores, Change, ValuesOK, States, Sources
    <2> QED
      BY <1>26, <2>1, StoreAssumption DEF CloudStores, Change, ValuesOK, loaders,
         diskVars, bounds
  <1>27. CASE UNCHANGED vars
    BY <1>27 DEF ValuesOK, vars, memVars, loaders, diskVars, bounds
  <1> QED
    BY <1>1, <1>2, <1>3, <1>4, <1>5, <1>6, <1>7, <1>8, <1>9, <1>10, <1>11, <1>12,
       <1>13, <1>14, <1>15, <1>16, <1>17, <1>18, <1>19, <1>20, <1>21, <1>22,
       <1>23, <1>24, <1>25, <1>26, <1>27 DEF Next, Opening, Saving

\* No job ends its busy section twice.
LEMMA CountedStep ==
  ASSUME FlagsOK, ValuesOK, Counted, [Next]_vars
  PROVE  Counted'
  <1>1. CASE UNCHANGED <<busyN, job, stray>>
    BY <1>1 DEF Counted, Loading
  <1>2. CASE Die
    BY <1>2 DEF Die, Counted, Loading
  <1>3. CASE CheckStarts \/ CheckEnds
    BY <1>3 DEF CheckStarts, CheckEnds, FlagsOK, ValuesOK, Counted, Loading, loaders
  <1>4. CASE JobStarts
    BY <1>4 DEF JobStarts, ValuesOK, Counted, Loading
  <1>5. CASE JobEnds
    BY <1>5 DEF JobEnds, ValuesOK, Counted, Loading
  <1>6. CASE Cancel \/ Wipe
    BY <1>6 DEF Cancel, Wipe, CancelJob, ValuesOK, Counted, Loading
  <1>7. CASE Opening
    BY <1>1, <1>7 DEF Opening, OpenSealed, OpenEmpty, MigrateWrite, MigrateDone,
       OpenFails, Idle, memVars, loaders
  <1>8. CASE Saving
    BY <1>1, <1>8 DEF Saving, Schedule, ImportSchedule, SaveNow, DelayOver, JobSaves,
       JobDone, LateSave, loaders
  <1>9. CASE KeystoreFault \/ UserUpdate \/ ImportUpdate \/ JobStores \/ UNCHANGED vars
    BY <1>1, <1>9 DEF KeystoreFault, UserUpdate, ImportUpdate, JobStores, vars, memVars, loaders
  <1>10. CASE RequestStarts \/ RequestStores \/ RequestEnds \/ CloudStores
    BY <1>1, <1>10 DEF RequestStarts, RequestStores, RequestEnds, CloudStores, loaders
  <1> QED
    BY <1>2, <1>3, <1>4, <1>5, <1>6, <1>7, <1>8, <1>9, <1>10 DEF Next
-----------------------------------------------------------------------------
(* The process and its files.                                                *)

\* Most steps leave the files alone and the state as it is, or one update newer.
Calm ==
  /\ UNCHANGED <<proc, ready, enc, legacy, key, newest>>
  /\ mem'.v \in {mem.v, mem.v + 1}

LEMMA CalmStep ==
  ASSUME ValuesOK, [Next]_vars
  PROVE  Opening \/ Die \/ KeystoreFault \/ JobSaves \/ LateSave \/ Wipe \/ Calm
  <1>1. CASE Schedule \/ ImportSchedule \/ SaveNow \/ DelayOver \/ JobDone
    BY <1>1 DEF Schedule, ImportSchedule, SaveNow, DelayOver, JobDone, diskVars, Calm
  <1>2. CASE UserUpdate \/ ImportUpdate \/ JobStores \/ RequestStores \/ CloudStores
    BY <1>2 DEF UserUpdate, ImportUpdate, JobStores, RequestStores, CloudStores, Change,
       diskVars, Calm
  <1>3. CASE CheckStarts \/ CheckEnds \/ JobStarts \/ JobEnds \/ Cancel
    BY <1>3 DEF CheckStarts, CheckEnds, JobStarts, JobEnds, Cancel, diskVars, Calm
  <1>4. CASE RequestStarts \/ RequestEnds \/ UNCHANGED vars
    BY <1>4 DEF RequestStarts, RequestEnds, vars, memVars, loaders, diskVars, Calm
  <1> QED
    BY <1>1, <1>2, <1>3, <1>4 DEF Next, Saving

\* Nothing but init() runs before the process is up.
LEMMA AsleepStep ==
  ASSUME ValuesOK, Asleep, [Next]_vars
  PROVE  Asleep'
  <1>1. CASE proc' = "on"
    BY <1>1 DEF Asleep
  <1>2. CASE Die
    BY <1>2 DEF Die, Asleep
  <1>3. CASE Opening
    BY <1>3 DEF Opening, OpenSealed, OpenEmpty, MigrateWrite, MigrateDone, OpenFails,
       Opened, memVars, loaders, Asleep
  <1>4. CASE KeystoreFault \/ UNCHANGED vars
    BY <1>4 DEF KeystoreFault, vars, memVars, loaders, Asleep
  <1>5. CASE Saving
    <2>1. proc = "on"
      BY <1>5 DEF Asleep, Saving, Schedule, ImportSchedule, SaveNow, DelayOver,
         JobSaves, JobDone, LateSave
    <2>2. proc' = proc
      BY <1>5 DEF Saving, Schedule, ImportSchedule, SaveNow, DelayOver, JobSaves,
         JobDone, LateSave
    <2> QED
      BY <1>1, <2>1, <2>2
  <1>6. CASE \/ UserUpdate \/ ImportUpdate \/ CheckStarts \/ JobStarts \/ Wipe
             \/ RequestStarts \/ CloudStores
    BY <1>1, <1>6 DEF UserUpdate, ImportUpdate, CheckStarts, JobStarts, Wipe,
       RequestStarts, CloudStores, Change
  <1>7. CASE CheckEnds \/ JobStores \/ JobEnds \/ Cancel
    <2>1. proc # "on" => Loading = 0 /\ busyN = 0 /\ ~job /\ stray = 0
      BY DEF Asleep, Loading
    <2>2. proc = "on"
      <3>1. CASE CheckEnds \/ JobStores
        <4>1. busyN > Loading \/ Loading > 0
          BY <3>1, Zenon DEF CheckEnds, JobStores
        <4>2. proc # "on" => Loading = 0 /\ busyN = 0
          BY <2>1
        <4> QED
          BY <4>1, <4>2
      <3>2. job \/ stray > 0 => proc = "on"
        BY <2>1
      <3>3. CASE JobEnds \/ Cancel
        BY <3>2, <3>3, Zenon DEF JobEnds, Cancel
      <3> QED
        BY <1>7, <3>1, <3>3
    <2>3. proc' = proc
      BY <1>7 DEF CheckEnds, JobStores, JobEnds, Cancel
    <2> QED
      BY <1>1, <2>2, <2>3
  <1>8. CASE RequestStores \/ RequestEnds
    <2>1. proc = "on"
      BY <1>8, Zenon DEF RequestStores, RequestEnds, Change, Asleep
    <2>2. proc' = proc
      BY <1>8, Zenon DEF RequestStores, RequestEnds
    <2> QED
      BY <1>1, <2>1, <2>2
  <1> QED
    BY <1>2, <1>3, <1>4, <1>5, <1>6, <1>7, <1>8 DEF Next

\* save() runs in a process that is up and, if the storage is not open, does
\* nothing; otherwise the file is the state of this moment, and the key opens it.
LEMMA SaveStep ==
  ASSUME ValuesOK, Asleep, JobSaves \/ LateSave
  PROVE  /\ proc = "on"
         /\ UNCHANGED <<proc, mem, ready, legacy, wipes, faults>>
         /\ \/ UNCHANGED <<enc, key, newest>>
            \/ ready /\ enc' = [state |-> mem, key |-> key']
  BY DEF JobSaves, LateSave, Save, Asleep, bounds

\* The migration and the start.
LEMMA FilesStep ==
  ASSUME ValuesOK, ValuesOK', Asleep, Twins, Copied, Moved, FileIsNotAhead, [Next]_vars
  PROVE  Twins' /\ Copied' /\ Moved' /\ FileIsNotAhead'
  <1> USE NoFileAssumption
  <1>1. CASE OpenSealed
    BY <1>1 DEF OpenSealed, Opened, ValuesOK, Twins, Copied, Moved, FileIsNotAhead,
       States, Sealed, Plain
  <1>2. CASE OpenEmpty
    BY <1>2 DEF OpenEmpty, Opened, diskVars, Twins, Copied, Moved, FileIsNotAhead
  <1>3. CASE MigrateWrite
    BY <1>3 DEF MigrateWrite, ValuesOK, Twins, Copied, Moved, FileIsNotAhead, States,
       Sealed, Plain
  <1>4. CASE MigrateDone
    BY <1>4 DEF MigrateDone, Opened, ValuesOK, Twins, Copied, Moved, FileIsNotAhead,
       States, Sealed, Plain
  <1>5. CASE OpenFails
    BY <1>5 DEF OpenFails, Opened, Twins, Copied, Moved, FileIsNotAhead
  <1>6. CASE Die
    BY <1>6 DEF Die, diskVars, Twins, Copied, Moved, FileIsNotAhead
  <1>7. CASE KeystoreFault
    BY <1>7 DEF KeystoreFault, memVars, loaders, Twins, Copied, Moved, FileIsNotAhead
  <1>8. CASE JobSaves \/ LateSave
    <2>1. /\ proc = "on"
          /\ UNCHANGED <<proc, mem, ready, legacy>>
          /\ enc' = enc \/ (ready /\ enc' = [state |-> mem, key |-> key'])
      BY <1>8, SaveStep
    <2>2. CASE enc' = enc
      BY <2>1, <2>2 DEF Twins, Copied, Moved, FileIsNotAhead
    <2>3. CASE ready /\ enc' = [state |-> mem, key |-> key']
      BY <2>1, <2>3 DEF ValuesOK, Twins, Copied, Moved, FileIsNotAhead, States
    <2> QED
      BY <2>1, <2>2, <2>3
  <1>9. CASE Wipe
    BY <1>9 DEF Wipe, Twins, Copied, Moved, FileIsNotAhead
  <1>10. CASE Calm
    <2>1. Twins' /\ Copied' /\ Moved'
      BY <1>10 DEF Calm, Twins, Copied, Moved
    <2>2. ASSUME proc = "on", ready, NEW f \in {enc, legacy} \ {NoFile}
          PROVE  f.state.v <= mem'.v
      BY <1>10, <2>2 DEF Calm, FileIsNotAhead, ValuesOK, States, Sealed, Plain
    <2> QED
      BY <1>10, <2>1, <2>2 DEF Calm, FileIsNotAhead
  <1> QED
    BY <1>1, <1>2, <1>3, <1>4, <1>5, <1>6, <1>7, <1>8, <1>9, <1>10, CalmStep DEF Opening

\* No step but a wipe or a fault of the keystore makes what is stored older.
LEMMA KeepStep ==
  ASSUME ValuesOK, ValuesOK', Asleep, Twins, Copied, Moved, FileIsNotAhead, [Next]_vars,
         wipes' = wipes, faults' = faults,
         NEW n \in Stored
  PROVE  \E m \in Stored' : m >= n
  <1> USE NoFileAssumption
  <1>1. n \in Nat
    BY DEF Stored, ValuesOK, States, Sealed, Plain
  <1>2. CASE Stored' = Stored
    BY <1>1, <1>2
  <1>3. CASE OpenSealed
    <2>1. enc.state.v \in Stored'
      BY <1>3 DEF OpenSealed, Readable, Stored
    <2>2. n = enc.state.v
      BY <1>3 DEF OpenSealed, Stored, Twins
    <2> QED
      BY <1>1, <2>1, <2>2
  <1>4. CASE OpenEmpty \/ Die
    BY <1>2, <1>4 DEF OpenEmpty, Die, diskVars, Stored
  <1>5. CASE MigrateWrite
    <2>1. n \in Stored'
      BY <1>5 DEF MigrateWrite, Stored
    <2> QED
      BY <1>1, <2>1
  <1>6. CASE MigrateDone
    <2>1. enc.state.v \in Stored'
      BY <1>6 DEF MigrateDone, Readable, Copied, Stored
    <2>2. n = enc.state.v
      BY <1>6 DEF MigrateDone, Stored, Twins, Copied
    <2> QED
      BY <1>1, <2>1, <2>2
  <1>7. CASE OpenFails
    <2>1. n \in Stored'
      BY <1>7 DEF OpenFails, UseKey, Readable, Copied, Stored
    <2> QED
      BY <1>1, <2>1
  <1>8. CASE JobSaves \/ LateSave
    <2>1. /\ proc = "on"
          /\ UNCHANGED <<proc, mem, ready, legacy>>
          /\ \/ UNCHANGED <<enc, key>>
             \/ ready /\ enc' = [state |-> mem, key |-> key']
      BY <1>8, SaveStep
    <2>2. CASE UNCHANGED <<enc, key>>
      BY <1>2, <2>1, <2>2 DEF Stored
    <2>3. CASE ready /\ enc' = [state |-> mem, key |-> key']
      <3>1. enc' # NoFile /\ enc'.key = key' /\ enc'.state.v = mem.v
        BY <2>3 DEF ValuesOK, Sealed, States
      <3>2. mem.v \in Stored'
        BY <3>1 DEF Stored
      <3>3. n <= mem.v
        BY <2>1, <2>3 DEF Stored, FileIsNotAhead
      <3> QED
        BY <1>1, <3>2, <3>3 DEF ValuesOK, States
    <2> QED
      BY <2>1, <2>2, <2>3
  <1>9. ~KeystoreFault /\ ~Wipe
    BY DEF KeystoreFault, Wipe, ValuesOK
  <1>10. CASE Calm
    BY <1>2, <1>10 DEF Calm, Stored
  <1> QED
    BY <1>3, <1>4, <1>5, <1>6, <1>7, <1>8, <1>9, <1>10, CalmStep DEF Opening

\* A step that leaves the files alone and the button unpressed keeps Erased if it adds
\* only new servers.
LEMMA ErasedKept ==
  ASSUME Erased, UNCHANGED <<enc, legacy, wipes>>, AllNew(mem'.servers)
  PROVE  Erased'
  BY DEF Erased, AllNew

\* replaceSource() adds only new servers.
LEMMA ReplacedNew ==
  ASSUME AllNew(mem.servers), NEW source
  PROVE  AllNew(Replaced(source))
  BY DEF AllNew, Replaced

\* What was erased comes back neither from memory nor from a file.
LEMMA ErasedStep ==
  ASSUME ValuesOK, Copied, Erased, [Next]_vars
  PROVE  Erased'
  <1> USE NoFileAssumption
  <1>1. CASE OpenSealed
    BY <1>1 DEF OpenSealed, Opened, bounds, Erased, AllNew
  <1>2. CASE OpenEmpty
    BY <1>2 DEF OpenEmpty, Opened, diskVars, bounds, Erased, AllNew, Empty
  <1>3. CASE MigrateWrite
    BY <1>3 DEF MigrateWrite, memVars, bounds, Erased, AllNew
  <1>4. CASE MigrateDone
    BY <1>4 DEF MigrateDone, Copied, Opened, bounds, Erased, AllNew
  <1>5. CASE OpenFails
    BY <1>5 DEF OpenFails, Opened, bounds, Erased, AllNew, Empty
  <1>6. CASE Die
    BY <1>6 DEF Die, diskVars, Erased, AllNew, Empty
  <1>7. CASE UNCHANGED <<enc, legacy, wipes>> /\ mem'.servers = mem.servers
    BY <1>7, ErasedKept DEF Erased
  <1>8. CASE UserUpdate \/ ImportUpdate
    BY <1>7, <1>8 DEF UserUpdate, ImportUpdate, Change, diskVars
  <1>9. CASE CheckStarts \/ CheckEnds \/ KeystoreFault
    BY <1>7, <1>9 DEF CheckStarts, CheckEnds, KeystoreFault, memVars, diskVars, bounds
  <1>10. CASE JobStarts \/ JobEnds \/ Cancel \/ RequestStarts \/ RequestEnds
    BY <1>7, <1>10 DEF JobStarts, JobEnds, Cancel, RequestStarts, RequestEnds, diskVars,
       bounds
  <1>11. CASE JobStores
    <2>1. UNCHANGED <<enc, legacy, wipes>> /\ mem'.servers = Replaced("subscription")
      BY <1>11 DEF JobStores, Change, diskVars
    <2> QED
      BY <2>1, ReplacedNew, ErasedKept DEF Erased
  <1>12. CASE RequestStores
    <2>1. /\ UNCHANGED <<enc, legacy, wipes>>
          /\ mem'.servers = Replaced("subscription") \/ mem'.servers = mem.servers
      BY <1>12 DEF RequestStores, Change, diskVars
    <2> QED
      BY <1>7, <2>1, ReplacedNew, ErasedKept DEF Erased
  <1>13. CASE CloudStores
    <2>1. PICK kept \in SUBSET {s \in mem.servers : s.source = "cloud"} :
            Change(Replaced("cloud") \union kept)
      BY <1>13, Zenon DEF CloudStores
    <2>2. UNCHANGED <<enc, legacy, wipes>>
      BY <1>13, Zenon DEF CloudStores, diskVars
    <2>3. mem'.servers = Replaced("cloud") \union kept
      BY <2>1 DEF Change
    <2>4. AllNew(Replaced("cloud")) /\ AllNew(kept)
      BY <2>1, ReplacedNew DEF Erased, AllNew
    <2>5. AllNew(mem'.servers)
      BY <2>3, <2>4 DEF AllNew
    <2> QED
      BY <2>2, <2>5, ErasedKept
  <1>14. CASE Wipe
    BY <1>14 DEF Wipe, Empty, Erased, AllNew
  <1>15. CASE Schedule \/ ImportSchedule \/ SaveNow \/ DelayOver \/ JobDone
    BY <1>7, <1>15 DEF Schedule, ImportSchedule, SaveNow, DelayOver, JobDone, diskVars,
       bounds
  <1>16. CASE JobSaves \/ LateSave
    <2>1. /\ UNCHANGED <<mem, legacy, wipes>>
          /\ enc' = enc \/ enc' = [state |-> mem, key |-> key']
      BY <1>16 DEF JobSaves, LateSave, Save, bounds
    <2> QED
      BY <2>1 DEF Erased, AllNew
  <1>17. CASE UNCHANGED vars
    BY <1>7, <1>17 DEF vars, memVars, diskVars, bounds
  <1> QED
    BY <1>1, <1>2, <1>3, <1>4, <1>5, <1>6, <1>8, <1>9, <1>10, <1>11, <1>12,
       <1>13, <1>14, <1>15, <1>16, <1>17 DEF Next, Opening, Saving
-----------------------------------------------------------------------------
(* The theorems.                                                             *)

LEMMA IInvInit ==
  ASSUME Init
  PROVE  IInv
  <1>1. FlagsOK
    BY Zenon DEF Init, FlagsOK
  <1>2. ValuesOK
    <2> DEFINE old == [v |-> 1, servers |-> {[source |-> "subscription", wipes |-> 0]}]
    <2>1. old \in States /\ mem \in States
      BY DEF Init, Empty, States, Server, Sources
    <2> HIDE DEF old
    <2>2. PICK o \in {old} :
            \/ enc = NoFile /\ legacy = NoFile /\ key = 0
            \/ /\ enc = NoFile /\ key = 0
               /\ legacy \in {[state |-> o, valid |-> b] : b \in BOOLEAN}
            \/ enc = [state |-> o, key |-> 1] /\ legacy = NoFile /\ key = 1
      BY DEF Init, old
    <2>3. /\ enc \in Sealed \union {NoFile} /\ legacy \in Plain \union {NoFile}
          /\ key \in Nat
      BY <2>1, <2>2 DEF Sealed, Plain
    <2> QED
      BY <2>1, <2>3, StoreAssumption DEF Init, ValuesOK
  <1>3. Counted /\ Asleep
    BY DEF Init, Counted, Loading, Asleep
  <1>4. Twins /\ Copied /\ Moved /\ FileIsNotAhead
    BY DEF Init, Twins, Copied, Moved, FileIsNotAhead
  <1>5. Erased
    BY DEF Init, Erased, AllNew, Empty
  <1> QED
    BY <1>1, <1>2, <1>3, <1>4, <1>5 DEF IInv, TypeOK

LEMMA IInvStep ==
  ASSUME IInv, [Next]_vars
  PROVE  IInv'
  <1>1. TypeOK'
    BY FlagsStep, ValuesStep DEF IInv, TypeOK
  <1> QED
    BY <1>1, CountedStep, AsleepStep, FilesStep, ErasedStep DEF IInv, TypeOK

\* The inductive invariant holds in every reachable state.
LEMMA Invariance == Spec => []IInv
  BY IInvInit, IInvStep, PTL DEF Spec

\* TypeOK: in particular every Store.busy { } section is left once, whoever is
\* cancelled in it.
THEOREM TypeCorrect == Spec => []TypeOK
  <1>1. IInv => TypeOK
    BY DEF IInv
  <1> QED
    BY <1>1, Invariance, PTL

\* No file is newer than the state of a running app that opened its storage: a save
\* that init(), wipe() or a late saveJob races cannot bring back what was replaced.
THEOREM NoNewerFile == Spec => []FileIsNotAhead
  <1>1. IInv => FileIsNotAhead
    BY DEF IInv
  <1> QED
    BY <1>1, Invariance, PTL

\* The panic button: no save that was scheduled, late or asked for, no load, death,
\* migration or start ever brings a server back into a file that was there when the
\* button was pressed.
THEOREM PanicHolds == Spec => []PanicErases
  <1>1. IInv => PanicErases
    BY DEF IInv, Erased, AllNew, PanicErases
  <1> QED
    BY <1>1, Invariance, PTL

\* Whatever dies or fails on the way, what is stored and can be opened is only ever
\* replaced by something at least as new; the panic button and the loss of the key
\* are the only exceptions.
THEOREM OldDataSurvives == Spec => NothingLost
  <1>1. IInv /\ IInv' /\ [Next]_vars =>
          [wipes' = wipes /\ faults' = faults
             => \A n \in Stored : \E m \in Stored' : m >= n]_vars
    <2> SUFFICES ASSUME IInv, IInv', [Next]_vars, wipes' = wipes, faults' = faults,
                        NEW n \in Stored
                 PROVE  \E m \in Stored' : m >= n
      OBVIOUS
    <2>1. ValuesOK /\ ValuesOK' /\ Asleep /\ Twins /\ Copied /\ Moved /\ FileIsNotAhead
      BY DEF IInv, TypeOK
    <2> QED
      BY <2>1, KeepStep
  <1> QED
    BY <1>1, Invariance, PTL DEF Spec, NothingLost
=============================================================================
