-------------------------------- MODULE Store --------------------------------
(***************************************************************************)
(* core/Store.kt with the state file of core/LocalSecrets.kt: the app      *)
(* state in memory, its debounced save, the encrypted file and the         *)
(* migration of the old plain one (release build).                         *)
(*                                                                         *)
(* init, save, wipe and the second half of update run under `lock` and are *)
(* one step each; init is cut where a process death leaves both files.     *)
(* AtomicFile (external) replaces a file at once or not at all.  A state   *)
(* is the number of updates it has seen and its servers: where each came   *)
(* from and how often the panic button had been pressed when it was put    *)
(* into the state.                                                         *)
(***************************************************************************)
EXTENDS Integers

CONSTANTS NoFile,
          MaxUpdates,   \* bound: calls of update()
          MaxDeaths,    \* bound: deaths of the process
          MaxFaults,    \* bound: failures of the Android keystore
          MaxChecks,    \* bound: Store.busy { } sections
          MaxLoads,     \* bound: jobs that load servers
          MaxWipes      \* bound: presses of the panic button

ASSUME StoreAssumption ==
  /\ MaxUpdates \in Nat /\ MaxDeaths \in Nat /\ MaxFaults \in Nat
  /\ MaxChecks \in Nat /\ MaxLoads \in Nat /\ MaxWipes \in Nat

VARIABLES
  proc,         \* dead, written (init between write and delete), on
  mem,          \* _state
  ready, error, \* storageReady, storageError is not empty
  saveJob,      \* none, delay, due (its delay is over), tail (save() is done)
  late,         \* other threads about to call save(): a saveJob cancelled too
                \* late, or saveNow()
  unscheduled,  \* update() calls between their two halves
  importing,    \* importNetProfile(): none, changed, scheduled (its update() is done)
  busyN,        \* running Store.busy { } sections
  job,          \* Actions.job is active: it loads servers, in a busy section
  stray,        \* cancelled jobs that still run
  requested,    \* requestedSourceJob: none, loading, info (its list is stored)
  enc,          \* state.enc
  legacy,       \* state.json
  key, newest,  \* keystore entry (0 = none) and the last key generated
  down,         \* the keystore fails
  missed,       \* the state whose last update left its save to a job that had saved
  updates, deaths, faults, checks, loads, wipes

loaders == <<job, stray, requested>>
memVars == <<mem, ready, error, saveJob, late, unscheduled, importing, busyN, loaders>>
diskVars == <<enc, legacy, key, newest>>
bounds == <<updates, deaths, faults, checks, loads, wipes>>
vars == <<proc, memVars, diskVars, down, missed, bounds>>

\* Subscriptions (the default ones too), and the list that comes with the cloud's hints.
Sources == {"subscription", "cloud"}

Server == [source : Sources, wipes : Nat]

Empty == [v |-> 0, servers |-> {}]
States == [v : Nat, servers : SUBSET Server]
Sealed == [state : States, key : Nat]
Plain == [state : States, valid : BOOLEAN]

ASSUME NoFileAssumption == NoFile \notin Sealed \union Plain

\* A phone with no data, with data of the old version (readable or damaged), or
\* with encrypted data.
Init ==
  /\ proc = "dead"
  /\ mem = Empty /\ ready = TRUE /\ error = FALSE
  /\ saveJob = "none" /\ late = 0 /\ unscheduled = 0
  /\ importing = "none" /\ busyN = 0 /\ job = FALSE /\ stray = 0
  /\ requested = "none"
  /\ \E old \in {[v |-> 1, servers |-> {[source |-> "subscription", wipes |-> 0]}]} :
       \/ enc = NoFile /\ legacy = NoFile /\ key = 0
       \/ /\ enc = NoFile /\ key = 0
          /\ legacy \in {[state |-> old, valid |-> b] : b \in BOOLEAN}
       \/ enc = [state |-> old, key |-> 1] /\ legacy = NoFile /\ key = 1
  /\ newest = key
  /\ down = FALSE /\ missed = 0
  /\ updates = 0 /\ deaths = 0 /\ faults = 0 /\ checks = 0 /\ loads = 0 /\ wipes = 0
-----------------------------------------------------------------------------
(* init() and readOrMigrateState().                                          *)

\* key(): the entry, or a new one.
UseKey == IF key = 0 THEN key' = newest + 1 /\ newest' = newest + 1
                     ELSE UNCHANGED <<key, newest>>

Readable == ~down /\ enc.key = key

Opened(s, ok) == /\ proc' = "on"
                 /\ mem' = s /\ ready' = ok /\ error' = ~ok

Idle == UNCHANGED <<saveJob, late, unscheduled, importing, busyN, loaders>>

\* state.enc opens: what is left of the old file goes.
OpenSealed ==
  /\ proc = "dead" /\ enc # NoFile /\ Readable
  /\ Opened(enc.state, TRUE)
  /\ legacy' = NoFile
  /\ Idle /\ UNCHANGED <<enc, key, newest, down, missed, bounds>>

OpenEmpty ==
  /\ proc = "dead" /\ enc = NoFile /\ legacy = NoFile
  /\ Opened(Empty, TRUE)
  /\ Idle /\ UNCHANGED <<diskVars, down, missed, bounds>>

\* The old file is validated and written encrypted.
MigrateWrite ==
  /\ proc = "dead" /\ enc = NoFile /\ legacy # NoFile
  /\ legacy.valid /\ ~down
  /\ UseKey
  /\ enc' = [state |-> legacy.state, key |-> key']
  /\ proc' = "written"
  /\ UNCHANGED <<memVars, legacy, down, missed, bounds>>

\* Mutant of MigrateDone: the copy is not read back.
MigrateDoneUnread ==
  /\ proc = "written"
  /\ Opened(IF Readable THEN legacy.state ELSE Empty, Readable)
  /\ legacy' = NoFile
  /\ Idle /\ UNCHANGED <<enc, key, newest, down, missed, bounds>>

\* Read back successfully: the old file is deleted.
MigrateDone ==
  /\ proc = "written" /\ Readable
  /\ Opened(legacy.state, TRUE)
  /\ legacy' = NoFile
  /\ Idle /\ UNCHANGED <<enc, key, newest, down, missed, bounds>>

\* Any exception: nothing is stored until the next start, or a wipe.  Only a state.enc
\* that is there asks for the key.
OpenFails ==
  /\ \/ proc = "dead" /\ enc # NoFile /\ ~Readable
     \/ proc = "dead" /\ enc = NoFile /\ legacy # NoFile /\ (~legacy.valid \/ down)
     \/ proc = "written" /\ ~Readable
  /\ Opened(Empty, FALSE)
  /\ IF down \/ enc = NoFile THEN UNCHANGED <<key, newest>> ELSE UseKey
  /\ Idle /\ UNCHANGED <<enc, legacy, down, missed, bounds>>

\* The process is killed: memory is gone.
Die ==
  /\ proc # "dead" /\ deaths < MaxDeaths
  /\ deaths' = deaths + 1
  /\ proc' = "dead"
  /\ mem' = Empty /\ ready' = TRUE /\ error' = FALSE
  /\ saveJob' = "none" /\ late' = 0 /\ unscheduled' = 0
  /\ importing' = "none" /\ busyN' = 0 /\ job' = FALSE /\ stray' = 0
  /\ requested' = "none" /\ missed' = 0
  /\ UNCHANGED <<diskVars, down, updates, faults, checks, loads, wipes>>

\* External: the keystore fails, works again, or loses the entry.
KeystoreFault ==
  /\ faults < MaxFaults
  /\ faults' = faults + 1
  /\ \/ down' = TRUE /\ UNCHANGED key
     \/ down' = FALSE /\ UNCHANGED key
     \/ down' = down /\ key' = 0
  /\ UNCHANGED <<proc, memVars, enc, legacy, newest, missed, updates, deaths, checks,
                 loads, wipes>>
-----------------------------------------------------------------------------
(* update() and save().                                                      *)

\* _state.update { }, outside the lock.
Change(servers) ==
  /\ proc = "on" /\ updates < MaxUpdates
  /\ updates' = updates + 1
  /\ mem' = [v |-> mem.v + 1, servers |-> servers]

UserUpdate ==
  /\ Change(mem.servers)
  /\ unscheduled' = unscheduled + 1
  /\ UNCHANGED <<proc, ready, error, saveJob, late, importing, busyN, loaders,
                 diskVars, down, missed, deaths, faults, checks, loads, wipes>>

busy == busyN > 0

\* saveJob?.isActive
SaveActive == saveJob # "none"

\* saveJob?.cancel(): one that is past its delay saves all the same.
Late == late + (IF saveJob = "due" THEN 1 ELSE 0)

\* Mutant of ScheduleSave: during a check no job is asked for, running or not.
ScheduleSaveLater ==
  IF busy
    THEN UNCHANGED <<saveJob, late>>
    ELSE saveJob' = "delay" /\ late' = Late

\* synchronized(lock): during a check a running saveJob is left to save this too.
ScheduleSave ==
  IF busy /\ SaveActive
    THEN UNCHANGED <<saveJob, late>>
    ELSE saveJob' = "delay" /\ late' = Late

\* The job this update is left to has already saved, and nobody else will save.
Misses == busy /\ saveJob = "tail" /\ late = 0 /\ unscheduled = 1 /\ importing = "none"

Schedule ==
  /\ unscheduled > 0
  /\ unscheduled' = unscheduled - 1
  /\ ScheduleSave
  /\ missed' = IF Misses THEN mem.v ELSE missed
  /\ UNCHANGED <<proc, mem, ready, error, importing, busyN, loaders, diskVars,
                 down, bounds>>

DelayOver ==
  /\ saveJob = "delay"
  /\ saveJob' = "due"
  /\ UNCHANGED <<proc, mem, ready, error, late, unscheduled, importing, busyN,
                 loaders, diskVars, down, missed, bounds>>

\* save() and writeState().
Save ==
  IF ~ready THEN UNCHANGED <<enc, key, newest, error>>
  ELSE IF down THEN error' = TRUE /\ UNCHANGED <<enc, key, newest>>
  ELSE /\ UseKey
       /\ enc' = [state |-> mem, key |-> key']
       /\ error' = FALSE

\* The lock is released before the job is over.
JobSaves ==
  /\ saveJob = "due"
  /\ Save
  /\ saveJob' = "tail"
  /\ UNCHANGED <<proc, mem, ready, late, unscheduled, importing, busyN, loaders,
                 legacy, down, missed, bounds>>

JobDone ==
  /\ saveJob = "tail"
  /\ saveJob' = "none"
  /\ UNCHANGED <<proc, mem, ready, error, late, unscheduled, importing, busyN,
                 loaders, diskVars, down, missed, bounds>>

LateSave ==
  /\ late > 0
  /\ late' = late - 1
  /\ Save
  /\ UNCHANGED <<proc, mem, ready, saveJob, unscheduled, importing, busyN, loaders,
                 legacy, down, missed, bounds>>

\* importNetProfile(): an update(), then saveNow(), which cancels saveJob without
\* the lock and saves on the caller's thread.
ImportUpdate ==
  /\ proc = "on" /\ importing = "none"
  /\ Change(mem.servers)
  /\ importing' = "changed"
  /\ UNCHANGED <<proc, ready, error, saveJob, late, unscheduled, busyN, loaders,
                 diskVars, down, missed, deaths, faults, checks, loads, wipes>>

ImportSchedule ==
  /\ importing = "changed"
  /\ importing' = "scheduled"
  /\ ScheduleSave
  /\ UNCHANGED <<proc, mem, ready, error, unscheduled, busyN, loaders, diskVars,
                 down, missed, bounds>>

SaveNow ==
  /\ importing = "scheduled"
  /\ importing' = "none"
  /\ saveJob' = "none"
  /\ late' = Late + 1
  /\ UNCHANGED <<proc, mem, ready, error, unscheduled, busyN, loaders, diskVars,
                 down, missed, bounds>>

\* Store.busy { } of the service's checks.
CheckStarts ==
  /\ proc = "on" /\ checks < MaxChecks
  /\ checks' = checks + 1
  /\ busyN' = busyN + 1
  /\ UNCHANGED <<proc, mem, ready, error, saveJob, late, unscheduled, importing,
                 loaders, diskVars, down, missed, updates, deaths, faults, loads, wipes>>

Loading == stray + (IF job THEN 1 ELSE 0)

CheckEnds ==
  /\ busyN > Loading
  /\ busyN' = busyN - 1
  /\ UNCHANGED <<proc, mem, ready, error, saveJob, late, unscheduled, importing,
                 loaders, diskVars, down, missed, bounds>>
-----------------------------------------------------------------------------
(* Servers are loaded, asked for or not, and the panic button.               *)

\* Store.replaceSource() with a list that was just downloaded.
Replaced(source) ==
  {s \in mem.servers : s.source # source} \union {[source |-> source, wipes |-> wipes]}

\* Actions.launch: one active job at a time, started by the user or by maybeAutoRefresh().
JobStarts ==
  /\ proc = "on" /\ ~job /\ loads < MaxLoads
  /\ loads' = loads + 1
  /\ job' = TRUE
  /\ busyN' = busyN + 1
  /\ UNCHANGED <<proc, mem, ready, error, saveJob, late, unscheduled, importing,
                 stray, requested, diskVars, down, missed, updates, deaths, faults,
                 checks, wipes>>

\* The download does not suspend: a cancelled job still stores what it gets.
JobStores ==
  /\ Loading > 0
  /\ Change(Replaced("subscription"))
  /\ unscheduled' = unscheduled + 1
  /\ UNCHANGED <<proc, ready, error, saveJob, late, importing, busyN, loaders,
                 diskVars, down, missed, deaths, faults, checks, loads, wipes>>

\* Mutant of JobEnds: a cancelled job leaves its busy section twice.
JobEndsTwice ==
  /\ \/ job /\ job' = FALSE /\ busyN' = busyN - 1 /\ UNCHANGED stray
     \/ stray > 0 /\ stray' = stray - 1 /\ busyN' = busyN - 2 /\ UNCHANGED job
  /\ UNCHANGED <<proc, mem, ready, error, saveJob, late, unscheduled, importing,
                 requested, diskVars, down, missed, bounds>>

\* The finally of Store.busy { }.
JobEnds ==
  /\ \/ job /\ job' = FALSE /\ UNCHANGED stray
     \/ stray > 0 /\ stray' = stray - 1 /\ UNCHANGED job
  /\ busyN' = busyN - 1
  /\ UNCHANGED <<proc, mem, ready, error, saveJob, late, unscheduled, importing,
                 requested, diskVars, down, missed, bounds>>

\* Actions.init() of the app, of its activity and of the service: a default source
\* without servers is loaded unasked, by a job of its own that is neither in a busy
\* section nor cancelled by anyone.
RequestStarts ==
  /\ proc = "on" /\ requested = "none" /\ loads < MaxLoads
  /\ \A s \in mem.servers : s.source # "subscription"
  /\ loads' = loads + 1
  /\ requested' = "loading"
  /\ UNCHANGED <<proc, mem, ready, error, saveJob, late, unscheduled, importing, busyN,
                 job, stray, diskVars, down, missed, updates, deaths, faults, checks,
                 wipes>>

\* Its list is stored, and then what the subscription says of itself.
RequestStores ==
  /\ \/ /\ requested = "loading" /\ requested' = "info"
        /\ Change(Replaced("subscription"))
     \/ /\ requested = "info" /\ requested' = "none"
        /\ Change(mem.servers)
  /\ unscheduled' = unscheduled + 1
  /\ UNCHANGED <<proc, ready, error, saveJob, late, importing, busyN, job, stray,
                 diskVars, down, missed, deaths, faults, checks, loads, wipes>>

\* Nothing came, or nothing was said.
RequestEnds ==
  /\ requested # "none"
  /\ requested' = "none"
  /\ UNCHANGED <<proc, mem, ready, error, saveJob, late, unscheduled, importing, busyN,
                 job, stray, diskVars, down, missed, bounds>>

\* Report.applyCloud (CloudControl.apply likewise): servers that worked on other phones
\* replace the earlier ones, of which the selected ones stay.
CloudStores ==
  /\ \E kept \in SUBSET {s \in mem.servers : s.source = "cloud"} :
       Change(Replaced("cloud") \union kept)
  /\ unscheduled' = unscheduled + 1
  /\ UNCHANGED <<proc, ready, error, saveJob, late, importing, busyN, loaders,
                 diskVars, down, missed, deaths, faults, checks, loads, wipes>>

\* Actions.cancel()
CancelJob == job' = FALSE /\ stray' = Loading

\* The user's Cancel button.
Cancel ==
  /\ job
  /\ CancelJob
  /\ UNCHANGED <<proc, mem, ready, error, saveJob, late, unscheduled, importing,
                 busyN, requested, diskVars, down, missed, bounds>>

\* Mutant of Wipe: the state in memory is forgotten.
WipeFilesOnly ==
  /\ proc = "on" /\ wipes < MaxWipes
  /\ wipes' = wipes + 1
  /\ CancelJob
  /\ saveJob' = "none" /\ late' = Late
  /\ mem' = mem
  /\ ready' = TRUE /\ error' = FALSE
  /\ enc' = NoFile /\ legacy' = NoFile
  /\ key' = IF down THEN key ELSE 0
  /\ missed' = 0
  /\ UNCHANGED <<proc, unscheduled, importing, busyN, requested, newest, down, updates, deaths,
                 faults, checks, loads>>

\* Mutant of Wipe: only the file of the old version goes.
WipeOldFileOnly ==
  /\ proc = "on" /\ wipes < MaxWipes
  /\ wipes' = wipes + 1
  /\ CancelJob
  /\ saveJob' = "none" /\ late' = Late
  /\ mem' = Empty
  /\ ready' = TRUE /\ error' = FALSE
  /\ enc' = enc /\ legacy' = NoFile
  /\ key' = IF down THEN key ELSE 0
  /\ missed' = 0
  /\ UNCHANGED <<proc, unscheduled, importing, busyN, requested, newest, down, updates, deaths,
                 faults, checks, loads>>

\* Actions.wipe(): cancel(), then Store.wipe() under the lock.  The keystore entry
\* stays if the keystore fails.
Wipe ==
  /\ proc = "on" /\ wipes < MaxWipes
  /\ wipes' = wipes + 1
  /\ CancelJob
  /\ saveJob' = "none" /\ late' = Late
  /\ mem' = Empty
  /\ ready' = TRUE /\ error' = FALSE
  /\ enc' = NoFile /\ legacy' = NoFile
  /\ key' = IF down THEN key ELSE 0
  /\ missed' = 0
  /\ UNCHANGED <<proc, unscheduled, importing, busyN, requested, newest, down, updates, deaths,
                 faults, checks, loads>>

-----------------------------------------------------------------------------
Opening == OpenSealed \/ OpenEmpty \/ MigrateWrite \/ MigrateDone \/ OpenFails

Saving ==
  Schedule \/ ImportSchedule \/ SaveNow \/ DelayOver \/ JobSaves \/ JobDone \/ LateSave

Next ==
  \/ Opening \/ Saving
  \/ Die \/ KeystoreFault
  \/ UserUpdate \/ ImportUpdate \/ CheckStarts \/ CheckEnds
  \/ JobStarts \/ JobStores \/ JobEnds \/ Cancel \/ Wipe
  \/ RequestStarts \/ RequestStores \/ RequestEnds \/ CloudStores

\* Threads go on and timers fire.
Fairness ==
  /\ WF_vars(Schedule) /\ WF_vars(ImportSchedule) /\ WF_vars(SaveNow) /\ WF_vars(LateSave)
  /\ WF_vars(DelayOver) /\ WF_vars(JobSaves) /\ WF_vars(JobDone)

Spec == Init /\ [][Next]_vars /\ Fairness
-----------------------------------------------------------------------------
FlagsOK ==
  /\ ready \in BOOLEAN /\ error \in BOOLEAN /\ job \in BOOLEAN
  /\ down \in BOOLEAN

ValuesOK ==
  /\ proc \in {"dead", "written", "on"}
  /\ mem \in States
  /\ saveJob \in {"none", "delay", "due", "tail"}
  /\ late \in Nat /\ unscheduled \in Nat
  /\ importing \in {"none", "changed", "scheduled"}
  /\ busyN \in Nat /\ stray \in Nat
  /\ requested \in {"none", "loading", "info"} /\ missed \in Nat
  /\ enc \in Sealed \union {NoFile} /\ legacy \in Plain \union {NoFile}
  /\ key \in Nat /\ newest \in Nat /\ key <= newest
  /\ updates \in 0..MaxUpdates /\ deaths \in 0..MaxDeaths /\ faults \in 0..MaxFaults
  /\ checks \in 0..MaxChecks /\ loads \in 0..MaxLoads /\ wipes \in 0..MaxWipes

\* Types; in particular the number of Store.busy { } sections never falls below 0.
TypeOK == FlagsOK /\ ValuesOK

\* What the phone has whatever happens next: the old file, and an encrypted one
\* that the key of the keystore opens.
Stored == (IF legacy # NoFile THEN {legacy.state.v} ELSE {}) \union
          (IF enc # NoFile /\ enc.key = key THEN {enc.state.v} ELSE {})

\* "Never delete old data until the encrypted replacement is validated and read back
\* successfully", and data that cannot be opened is neither deleted nor overwritten:
\* whatever fails or dies in between, no step but the panic button, or the keystore
\* losing its key, makes what is stored older.
NothingLost ==
  [][wipes' = wipes /\ faults' = faults
       => \A n \in Stored : \E m \in Stored' : m >= n]_vars

\* No file holds more than a running app with its storage open: neither a wipe nor a
\* start leaves a file behind that the app does not know of.
FileIsNotAhead ==
  proc = "on" /\ ready => \A f \in {enc, legacy} \ {NoFile} : f.state.v <= mem.v

\* The state of an app that runs is stored in the end, or storageError says that it is
\* not ("persisted as one JSON file"), during checks too, where one save stands for many
\* updates.  The one exception is an update that during a check finds a saveJob that has
\* saved and is not over yet: it is left to that job, and its state is stored with the
\* next update only.
EveryUpdateSaved ==
  \A n \in 1..(MaxUpdates + 1) :
    (proc = "on" /\ mem.v = n)
      ~> \/ enc # NoFile /\ enc.state.v >= n
         \/ error \/ proc # "on" \/ mem.v # n \/ missed = n

\* The panic button "erase[s] servers, settings and test results": what it erased stays
\* erased.  Whatever saves were scheduled or late, whatever updates, deaths, migrations
\* and starts follow, a file only ever holds servers that were put into the state after
\* the last press.  (Such servers there may be at once: the button does not stop a load
\* whose download is under way, and the next start, and the cloud, load some unasked.)
PanicErases ==
  \A f \in {enc, legacy} \ {NoFile} : \A s \in f.state.servers : s.wipes = wipes
=============================================================================
