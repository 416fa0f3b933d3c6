------------------------------ MODULE LearningStore ------------------------------
(***************************************************************************)
(* The files of the restart learner: the schema-4 database with its        *)
(* last-known-good copy, the older databases it is migrated from, the      *)
(* staged replacement a user imports, and the learner's memory, from the   *)
(* start of the launcher to its end (companion_restart_phase2_storage.py,  *)
(* _schema4.py, _schema4_runtime.py, _runtime.py,                          *)
(* companion_learning_transfer.py).                                        *)
(*                                                                         *)
(* One thread of one process works on the files; its position is "pc".     *)
(* Every replacement or removal of a file is one step, atomic on disk, and *)
(* between any two the process may crash or, up to MaxFaults times, a call *)
(* may fail.  A document is reduced to its version, whether its root is    *)
(* valid, its quarantined servers, how much was learned of each server and *)
(* whose alert it records as given; equal documents have equal bytes.      *)
(***************************************************************************)
EXTENDS Integers, FiniteSets, TLC

CONSTANTS
  Servers,      \* servers the learner knows
  None,         \* no file, no server
  MaxLearned,   \* bound: what can be learned of one server
  MaxFaults,    \* bound: failing calls and damaged files
  MaxImports,   \* bound: databases the user stages
  MaxLoad       \* bound: servers that are monitored and databases staged

ASSUME NoneAssumption == None \notin Servers
ASSUME BoundsAssumption ==
  /\ MaxLearned \in Nat \ {0} /\ MaxFaults \in Nat /\ MaxImports \in Nat
  /\ MaxLoad \in Nat

VARIABLES
  disk,       \* the files
  pc,         \* what the process is doing
  prior,      \* the database or the staged import that is being replaced
  store,      \* the backend's document in memory
  expected,   \* the document the backend believes to be on disk
  unsaved,    \* the backend has changes to write
  status,     \* persistence_status
  mem,        \* what the runtime has learned of each server
  dirty,      \* servers with server.dirty
  staged,     \* _schema4_staged_runtime_server_keys
  session,    \* the monitoring session of each server
  needs,      \* what must be on disk before it is exposed
  job,        \* why the backend is writing, and for which server
  todo,       \* servers that shutdown has still to persist
  saved,      \* history: the documents written
  delivered,  \* history: how often the alert of a server was given
  faults,     \* faults so far
  imports,    \* databases staged so far
  damaged,    \* history: the database was damaged, or taken for damaged
  monitored   \* bound: the servers the user ever monitors

runtime == <<status, mem, dirty, staged, session, needs>>
memory == <<prior, store, expected, unsaved, runtime, job, todo>>
history == <<saved, delivered, faults, imports, damaged>>
vars == <<disk, pc, memory, history, monitored>>

Learned == [Servers -> 0..MaxLearned]
Lineages == 0..MaxImports
Documents == [version: {1, 3, 4}, valid: BOOLEAN, quarantined: SUBSET Servers,
              learned: Learned, fired: SUBSET Servers, lineage: Lineages]

ASSUME NoFileAssumption == None \notin Documents

Files == Documents \cup {None}
Disks == [active: Files, good: Files, legacy: Files, payload: Files,
          meta: Files, kept: SUBSET Documents]

Nothing == [s \in Servers |-> 0]
New(version, lineage) ==
  [version |-> version, valid |-> TRUE, quarantined |-> {}, learned |-> Nothing,
   fired |-> {}, lineage |-> lineage]

Statuses == {"enabled", "degraded", "disabled"}
NoJob == [kind |-> None, server |-> None]
Jobs == [kind: {None, "persist", "session", "retry", "reserve", "complete", "quit", "close"},
         server: Servers \cup {None}]

Startup == {"import", "import_good", "install", "consume", "consume_meta", "rollback",
            "prepare", "legacy_install", "legacy_unlink", "migrate_apply",
            "migrate_rollback", "open", "recover"}
Writing == {"flush", "write_good", "write", "verify"}
Staging == {"stage_payload", "stage_meta", "stage_undo", "cancel_meta"}
Running == {"run", "off", "dispatch", "quit"}
Stopped == {"crashed", "closed"}

TypeOK ==
  /\ disk \in Disks
  /\ pc \in Startup \cup Writing \cup Staging \cup Running \cup Stopped
  /\ prior \in Files /\ store \in Files /\ expected \in Files
  /\ unsaved \in BOOLEAN /\ status \in Statuses
  /\ mem \in Learned /\ dirty \subseteq Servers /\ staged \subseteq Servers
  /\ session \in [Servers -> {"none", "open", "staged"}] /\ needs \in Learned
  /\ job \in Jobs /\ todo \subseteq Servers
  /\ saved \subseteq Documents /\ delivered \in [Servers -> 0..2]
  /\ faults \in 0..MaxFaults /\ imports \in 0..MaxImports /\ damaged \in BOOLEAN
  /\ monitored \subseteq Servers

(* The launcher's first start, over what an earlier release has left. *)
FirstFiles ==
  LET none == [active |-> None, good |-> None, legacy |-> None, payload |-> None,
               meta |-> None, kept |-> {}]
      taught == [s \in Servers |-> 1]
  IN {none,
      [none EXCEPT !.legacy = New(1, 0)],
      [none EXCEPT !.active = [New(3, 0) EXCEPT !.learned = taught]]}

Init ==
  /\ disk \in FirstFiles /\ pc = "crashed"
  /\ prior = None /\ store = None /\ expected = None /\ unsaved = FALSE
  /\ status = "disabled" /\ mem = Nothing /\ dirty = {} /\ staged = {}
  /\ session = [s \in Servers |-> "none"] /\ needs = Nothing
  /\ job = NoJob /\ todo = {}
  /\ saved = {disk.active} \ {None} /\ delivered = Nothing
  /\ faults = 0 /\ imports = 0 /\ damaged = FALSE
  /\ monitored \in {m \in SUBSET Servers : m # {} /\ Cardinality(m) <= MaxLoad}

(* What a process that has not opened the database has in memory. *)
Blank ==
  /\ prior' = None /\ store' = None /\ expected' = None /\ unsaved' = FALSE
  /\ status' = "disabled" /\ mem' = Nothing /\ dirty' = {} /\ staged' = {}
  /\ session' = [s \in Servers |-> "none"] /\ needs' = Nothing
  /\ job' = NoJob /\ todo' = {}

-----------------------------------------------------------------------------
(* Steps on the files.  A step goes on, or its call fails before or after
   the file was replaced.                                                 *)
Go(next) == pc' = next
Set(file, document) == disk' = [disk EXCEPT ![file] = document]

Covers(f, d) ==
  /\ f.valid \/ ~d.valid
  /\ f.lineage = d.lineage /\ d.fired \subseteq f.fired
  /\ \A s \in Servers : d.learned[s] <= f.learned[s]

With(documents, new) == {d \in documents : ~Covers(new, d)} \cup {new}

(* Copies are never removed; one that a newer copy covers is left out. *)
Keep(document) == disk' = [disk EXCEPT !.kept = With(@, document)]

Fault ==
  /\ faults < MaxFaults /\ faults' = faults + 1
  /\ UNCHANGED <<saved, delivered, imports, damaged>>

(* From here on nothing is claimed of what was saved and delivered. *)
Damaged ==
  /\ faults < MaxFaults /\ faults' = faults + 1 /\ damaged' = TRUE
  /\ saved' = {} /\ delivered' = Nothing /\ UNCHANGED imports

Works == UNCHANGED history

(* A call that fails before it has changed anything. *)
Fails(next) == Fault /\ Go(next) /\ UNCHANGED disk

StartupOnly == UNCHANGED <<store, expected, unsaved, runtime, job, todo>>

Start == pc \in Stopped /\ Go("import") /\ Blank /\ UNCHANGED disk /\ Works

(* Between any two steps; what was only in memory is gone. *)
Crash == pc \notin Stopped /\ Go("crashed") /\ Blank /\ UNCHANGED disk /\ Works

-----------------------------------------------------------------------------
(* apply_pending_import_at_startup *)
NothingPending == disk.payload = None /\ disk.meta = None
PendingIsValid == disk.payload # None /\ disk.payload = disk.meta

(* _validate_live_authority_bytes: a quarantined server does not matter. *)
LiveIsValid(d) == d.valid /\ d.version \in {3, 4}

(* Mutation: an incomplete pair of files always keeps learning off. *)
ReadPendingStrictly ==
  /\ pc = "import"
  /\ IF ~NothingPending /\ ~PendingIsValid THEN Go("off") ELSE Go("prepare")
  /\ NothingPending \/ ~PendingIsValid \/ (disk.active # None /\ ~LiveIsValid(disk.active))
  /\ UNCHANGED <<disk, prior>> /\ Works /\ StartupOnly

ReadPending ==
  /\ pc = "import"
  /\ IF ~NothingPending /\ ~PendingIsValid /\ disk.active = None
     THEN Go("off") ELSE Go("prepare")
  /\ NothingPending \/ ~PendingIsValid \/ (disk.active # None /\ ~LiveIsValid(disk.active))
  /\ UNCHANGED <<disk, prior>> /\ Works /\ StartupOnly

(* Mutation: the last known good copy has to do as a backup. *)
SkipBackUp ==
  /\ pc = "import" /\ PendingIsValid
  /\ disk.active # None => LiveIsValid(disk.active)
  /\ prior' = disk.active
  /\ Go(IF disk.active # None /\ disk.active.version = 4 THEN "import_good" ELSE "install")
  /\ UNCHANGED disk /\ Works /\ StartupOnly

BackUpLive ==
  /\ pc = "import" /\ PendingIsValid
  /\ disk.active # None => LiveIsValid(disk.active)
  /\ \/ disk.active = None /\ prior' = None /\ Go("install") /\ UNCHANGED disk /\ Works
     \/ /\ disk.active # None /\ prior' = disk.active /\ Keep(disk.active) /\ Works
        /\ Go(IF disk.active.version = 4 THEN "import_good" ELSE "install")
     \/ disk.active # None /\ Fails("prepare") /\ UNCHANGED prior
  /\ StartupOnly

CopyLiveToGood ==
  /\ pc = "import_good"
  /\ \/ Set("good", disk.active) /\ Go("install") /\ Works
     \/ Fails("prepare")
     \/ Fault /\ Set("good", disk.active) /\ Go("prepare")
  /\ UNCHANGED prior /\ StartupOnly

InstallImport ==
  /\ pc = "install"
  /\ \/ Set("active", disk.payload) /\ Go("consume") /\ Works
     \/ Fails("rollback")
     \/ Fault /\ Set("active", disk.payload) /\ Go("rollback")
  /\ UNCHANGED prior /\ StartupOnly

ConsumePayload ==
  /\ pc = "consume"
  /\ \/ Set("payload", None) /\ Go("consume_meta") /\ Works
     \/ Fails("rollback")
  /\ UNCHANGED prior /\ StartupOnly

ConsumeMeta ==
  /\ pc = "consume_meta"
  /\ \/ Set("meta", None) /\ Go("prepare") /\ Works
     \/ Fails("rollback")
     \/ Fault /\ Set("meta", None) /\ Go("rollback")
  /\ UNCHANGED prior /\ StartupOnly

(* _restore_validated_live refuses a schema-4 database with a quarantined
   server; without an earlier database learning stays off.                *)
RollBackImport ==
  /\ pc = "rollback"
  /\ \/ prior = None /\ Set("active", None) /\ Go("off") /\ Works
     \/ prior # None /\ (prior.version = 3 \/ prior.quarantined = {})
        /\ Set("active", prior) /\ Go("prepare") /\ Works
     \/ prior # None /\ prior.version = 4 /\ prior.quarantined # {}
        /\ Go("off") /\ UNCHANGED disk /\ Works
     \/ Fails("off")
  /\ UNCHANGED prior /\ StartupOnly

-----------------------------------------------------------------------------
(* prepare_schema4_state_for_startup.  Whatever it raises disables learning
   for this run of the launcher.                                          *)
PrepareFresh ==
  /\ pc = "prepare" /\ disk.active = None /\ disk.legacy = None
  /\ \/ Set("active", New(4, 0)) /\ Go("open") /\ Works
     \/ Fails("off")
     \/ Fault /\ Set("active", New(4, 0)) /\ Go("off")
  /\ UNCHANGED prior /\ StartupOnly

(* initialize_phase2_state: the first release's file is backed up, an empty
   schema-3 database installed, the file removed.                         *)
BackUpLegacy ==
  /\ pc = "prepare" /\ disk.active = None /\ disk.legacy # None
  /\ \/ Keep(disk.legacy) /\ Go("legacy_install") /\ Works
     \/ Fails("off")
  /\ UNCHANGED prior /\ StartupOnly

InstallAfterLegacy ==
  /\ pc = "legacy_install"
  /\ \/ Set("active", New(3, 0)) /\ Go("legacy_unlink") /\ Works
     \/ Fails("off")
  /\ UNCHANGED prior /\ StartupOnly

UnlinkLegacy ==
  /\ pc = "legacy_unlink"
  /\ \/ Set("legacy", None) /\ Go("prepare") /\ Works
     \/ Fails("prepare")
  /\ UNCHANGED prior /\ StartupOnly

Migratable(d) == d.version = 3 /\ d.valid

Retain ==
  /\ pc = "prepare" /\ disk.active # None /\ ~Migratable(disk.active)
  /\ Go("open") /\ UNCHANGED <<disk, prior>> /\ Works /\ StartupOnly

(* _migrate_schema3_for_startup *)
BackUpSchema3 ==
  /\ pc = "prepare" /\ disk.active # None /\ Migratable(disk.active)
  /\ \/ Keep(disk.active) /\ Go("migrate_apply") /\ Works
     \/ Fails("off")
  /\ prior' = disk.active /\ StartupOnly

Migrated(d) == [d EXCEPT !.version = 4]

ApplyMigration ==
  /\ pc = "migrate_apply"
  /\ \/ Set("active", Migrated(disk.active)) /\ Go("open") /\ Works
     \/ Fails("off")
     \/ Fault /\ Set("active", Migrated(disk.active)) /\ Go("migrate_rollback")
  /\ UNCHANGED prior /\ StartupOnly

RollBackMigration ==
  /\ pc = "migrate_rollback"
  /\ \/ Set("active", prior) /\ Go("off") /\ Works
     \/ Fails("off")
  /\ UNCHANGED prior /\ StartupOnly

-----------------------------------------------------------------------------
(* AuthoritativeSchema4Runtime.open *)
Opens(d) == d.valid /\ d.version = 4

(* The runtime starts with what is on disk, quarantined servers left out. *)
Load(d) ==
  /\ store' = d /\ expected' = d /\ unsaved' = FALSE /\ status' = "enabled"
  /\ mem' = [s \in Servers |-> IF s \in d.quarantined THEN 0 ELSE d.learned[s]]
  /\ UNCHANGED <<dirty, staged, session, needs, job, todo>>

OpenActive ==
  /\ pc = "open" /\ disk.active # None /\ Opens(disk.active)
  /\ Load(disk.active) /\ Go("run") /\ UNCHANGED <<disk, prior>> /\ Works

(* _recover_schema4_path: the last known good copy must be valid to the last
   server; a database that merely could not be read is treated as damaged. *)
GoodIsUsable == disk.good # None /\ Opens(disk.good) /\ disk.good.quarantined = {}

PreserveInvalid ==
  /\ pc = "open"
  /\ \/ ~Opens(disk.active) /\ Works
     \/ Damaged
  /\ IF GoodIsUsable THEN Keep(disk.active) /\ Go("recover")
     ELSE Go("off") /\ UNCHANGED disk
  /\ UNCHANGED prior /\ StartupOnly

RestoreGood ==
  /\ pc = "recover"
  /\ \/ Set("active", disk.good) /\ Load(disk.good) /\ Go("run") /\ Works
     \/ Fails("off") /\ StartupOnly
  /\ UNCHANGED prior

-----------------------------------------------------------------------------
(* The runtime.  An operation changes memory and, when it forces the change
   to disk, leaves a job for flush; the job's end is After.               *)
Enabled == status \in {"enabled", "degraded"}

Job(kind, s) == [kind |-> kind, server |-> s]

FlushFor(kind, s) == Go("flush") /\ job' = Job(kind, s)

(* _persist_server, forced: a clean server is not written; the record of a
   quarantined one is refused, which disables the learner.                *)
Persist(kind, s, learned, dirtyNow, otherwise) ==
  LET writes == Enabled /\ s \in dirtyNow
  IN /\ dirty' = dirtyNow
     /\ IF writes /\ s \notin store.quarantined
        THEN /\ store' = [store EXCEPT !.learned[s] = learned]
             /\ unsaved' = (unsaved \/ store' # store) /\ staged' = staged \cup {s}
             /\ FlushFor(kind, s) /\ UNCHANGED status
        ELSE /\ status' = IF writes THEN "disabled" ELSE status
             /\ Go(otherwise) /\ job' = NoJob /\ UNCHANGED <<store, unsaved, staged>>

MayLearn(s) == {mem[s]} \cup (IF mem[s] < MaxLearned THEN {mem[s] + 1} ELSE {})

RunOnly == UNCHANGED <<disk, prior, expected>> /\ Works

(* begin_monitoring.  An episode resumed across a reboot is closed first:
   the new session stays staged until the closure is on disk.             *)
Begin(s) ==
  /\ pc = "run" /\ Enabled /\ session[s] = "none" /\ s \in monitored
  /\ \A x \in Servers : session[x] # "open"
  /\ \E learned \in MayLearn(s), resumed \in BOOLEAN :
       /\ ~resumed => learned = mem[s]
       /\ mem' = [mem EXCEPT ![s] = learned]
       /\ needs' = [needs EXCEPT ![s] = IF resumed THEN learned ELSE 0]
       /\ session' = [session EXCEPT ![s] =
            IF resumed THEN "staged"
            ELSE IF s \in store.quarantined THEN "none" ELSE "open"]
       /\ Persist("session", s, learned, dirty \cup {s}, "run")
  /\ UNCHANGED todo /\ RunOnly

(* A staged session is tried again before it is exposed or replaced. *)
RetryBegin(s) ==
  /\ pc = "run" /\ Enabled /\ session[s] = "staged"
  /\ \A x \in Servers : session[x] # "open"
  /\ Persist("retry", s, mem[s], dirty, "run")
  /\ IF s \in dirty THEN UNCHANGED session
     ELSE session' = [session EXCEPT ![s] = IF status = "enabled" /\ ~unsaved THEN "open" ELSE @]
  /\ UNCHANGED <<mem, needs, todo>> /\ RunOnly

(* An answer that changes what is learned is forced to disk; one that only
   extends what is known waits for the next.                              *)
Learn(s) ==
  /\ pc = "run" /\ Enabled /\ session[s] = "open" /\ mem[s] < MaxLearned
  /\ mem' = [mem EXCEPT ![s] = @ + 1]
  /\ Persist("persist", s, mem[s] + 1, dirty \cup {s}, "run")
  /\ UNCHANGED <<session, needs, todo>> /\ RunOnly

Coalesce(s) ==
  /\ pc = "run" /\ Enabled /\ session[s] = "open" /\ mem[s] < MaxLearned
  /\ mem' = [mem EXCEPT ![s] = @ + 1] /\ dirty' = dirty \cup {s}
  /\ UNCHANGED <<pc, store, unsaved, status, staged, session, needs, job, todo>> /\ RunOnly

(* Mutation: a session that ends without news leaves its server clean. *)
EndsQuietly(s, kind, otherwise) ==
  \E learned \in MayLearn(s) :
    /\ mem' = [mem EXCEPT ![s] = learned]
    /\ session' = [session EXCEPT ![s] = "none"]
    /\ Persist(kind, s, learned, IF learned = mem[s] THEN dirty ELSE dirty \cup {s}, otherwise)
    /\ UNCHANGED needs

(* end_monitoring: its two writes in a row are one here. *)
Ends(s, kind, otherwise) ==
  \E learned \in MayLearn(s) :
    /\ mem' = [mem EXCEPT ![s] = learned]
    /\ session' = [session EXCEPT ![s] = "none"]
    /\ Persist(kind, s, learned, dirty \cup {s}, otherwise)
    /\ UNCHANGED needs

End(s) ==
  /\ pc = "run" /\ session[s] = "open"
  /\ Ends(s, "persist", "run")
  /\ UNCHANGED todo /\ RunOnly

(* record_consumer_decision stages a decision with every answer. *)
RecordDecision(s) ==
  /\ pc = "run" /\ Enabled /\ session[s] = "open" /\ s \notin store.quarantined
  /\ unsaved' = TRUE
  /\ UNCHANGED <<pc, store, runtime, job, todo>> /\ RunOnly

(* Mutation: an alert is given before its reservation is on disk. *)
DispatchBeforeFlush(s) ==
  /\ pc = "run" /\ session[s] = "open"
  /\ s \notin store.fired /\ s \notin store.quarantined
  /\ store' = [store EXCEPT !.fired = @ \cup {s}] /\ unsaved' = TRUE
  /\ Go("dispatch") /\ job' = Job("reserve", s)
  /\ UNCHANGED <<runtime, todo>> /\ RunOnly

(* dispatch_authority_consumer_action: the alert is recorded as given
   (reserve_consumer_alert), then given, then its outcome is recorded.    *)
Reserve(s) ==
  /\ pc = "run" /\ session[s] = "open"
  /\ s \notin store.fired /\ s \notin store.quarantined
  /\ store' = [store EXCEPT !.fired = @ \cup {s}] /\ unsaved' = TRUE
  /\ FlushFor("reserve", s)
  /\ UNCHANGED <<runtime, todo>> /\ RunOnly

Dispatch ==
  /\ pc = "dispatch"
  /\ delivered' = IF damaged \/ imports > 0 THEN delivered
                  ELSE [delivered EXCEPT ![job.server] = IF @ < 2 THEN @ + 1 ELSE @]
  /\ unsaved' = TRUE /\ FlushFor("complete", job.server)
  /\ UNCHANGED <<disk, prior, store, expected, runtime, todo, saved, faults, imports, damaged>>

-----------------------------------------------------------------------------
(* flush and _install_atomic_schema4 *)
(* _server_state_is_durable, as the job has left the state. *)
DurableAfter(s) == status' = "enabled" /\ s \notin dirty' /\ ~unsaved'

(* The caller goes on: a staged session is exposed once it is durable, one
   that could not be stored for good is forgotten, a reservation that is on
   disk is acted upon.                                                    *)
After(written) ==
  LET s == job.server
  IN /\ session' = CASE job.kind \in {"session", "retry"} /\ session[s] = "staged" /\ DurableAfter(s) ->
                          [session EXCEPT ![s] = "open"]
                     [] job.kind = "session" /\ session[s] = "open" /\ status' = "disabled" ->
                          [session EXCEPT ![s] = "none"]
                     [] OTHER -> session
     /\ Go(CASE job.kind = "reserve" /\ written -> "dispatch"
             [] job.kind = "quit" -> "quit"
             [] job.kind = "close" -> "closed"
             [] OTHER -> "run")
     /\ job' = IF job.kind = "reserve" /\ written THEN job ELSE NoJob
     /\ UNCHANGED <<prior, store, mem, needs, todo>>

(* _record_schema4_persistence_success: every staged server is clean. *)
Succeeds ==
  /\ expected' = store /\ unsaved' = FALSE
  /\ dirty' = dirty \ (staged \cup (IF job.kind \in {"reserve", "complete", "close"} THEN {} ELSE {job.server}))
  /\ staged' = {}
  /\ status' = IF status = "degraded" THEN "enabled" ELSE status
  /\ After(TRUE)
  /\ UNCHANGED disk

(* _record_schema4_persistence_failure *)
FailsWith(new) ==
  /\ status' = IF status = "disabled" THEN status ELSE new
  /\ UNCHANGED <<expected, unsaved, dirty, staged>>
  /\ After(FALSE)

(* The database is read first; one that cannot be read, or is not the one
   expected, ends the writing for good.                                   *)
FlushBegins ==
  /\ pc = "flush"
  /\ \/ ~unsaved /\ Succeeds /\ Works
     \/ unsaved /\ disk.active # expected /\ FailsWith("disabled") /\ UNCHANGED disk /\ Works
     \/ unsaved /\ Fault /\ FailsWith("disabled") /\ UNCHANGED disk
     \/ /\ unsaved /\ disk.active = expected /\ Go("write_good") /\ Works
        /\ UNCHANGED <<disk, prior, store, expected, unsaved, runtime, job, todo>>

(* The copy becomes the database that is about to be replaced. *)
RotateGood ==
  /\ pc = "write_good"
  /\ \/ /\ Set("good", disk.active) /\ Go("write") /\ Works
        /\ UNCHANGED <<prior, store, expected, unsaved, runtime, job, todo>>
     \/ Fault /\ FailsWith("degraded") /\ (UNCHANGED disk \/ Set("good", disk.active))

ReplaceActive ==
  /\ pc = "write"
  /\ \/ /\ Set("active", store) /\ Go("verify") /\ Works
        /\ UNCHANGED <<prior, store, expected, unsaved, runtime, job, todo>>
     \/ Fault /\ FailsWith("degraded") /\ UNCHANGED disk

Verify ==
  /\ pc = "verify"
  /\ \/ /\ Succeeds
        /\ saved' = IF damaged THEN saved ELSE With(saved, store)
        /\ UNCHANGED <<delivered, faults, imports, damaged>>
     \/ Fault /\ FailsWith("disabled") /\ UNCHANGED disk

-----------------------------------------------------------------------------
(* shutdown: the open session ends, every server is persisted, the backend
   is closed with a last flush.                                           *)
Quit ==
  /\ pc \in {"run", "off"}
  /\ IF pc = "run" THEN Go("quit") /\ todo' = Servers ELSE Go("closed") /\ UNCHANGED todo
  /\ UNCHANGED <<disk, prior, store, expected, unsaved, runtime, job>> /\ Works

QuitServer(s) ==
  /\ pc = "quit" /\ s \in todo /\ todo' = todo \ {s}
  /\ IF session[s] = "open" THEN Ends(s, "quit", "quit")
     ELSE Persist("quit", s, mem[s], dirty, "quit") /\ UNCHANGED <<mem, session, needs>>
  /\ RunOnly

Close ==
  /\ pc = "quit" /\ todo = {}
  /\ IF unsaved /\ status # "disabled" THEN FlushFor("close", None)
     ELSE Go("closed") /\ UNCHANGED job
  /\ UNCHANGED <<store, unsaved, runtime, todo>> /\ RunOnly

-----------------------------------------------------------------------------
(* stage_pending_import and cancel_pending_import, from the settings.  They
   touch no file of the runtime: it makes no difference when in its life
   they do their steps, and the model lets them while it is at rest.      *)
AtRest == pc \in {"run", "off"} /\ ~unsaved /\ dirty = {} /\ \A s \in Servers : session[s] = "none"

Back == IF store = None THEN "off" ELSE "run"

ImportStep == UNCHANGED <<store, expected, unsaved, runtime, job, todo>>

StageImport ==
  /\ AtRest /\ imports < MaxImports /\ imports' = imports + 1
  /\ imports' + Cardinality(monitored) <= MaxLoad
  /\ prior' = IF PendingIsValid THEN disk.payload ELSE None
  /\ Go("stage_payload") /\ delivered' = Nothing
  /\ UNCHANGED <<disk, saved, faults, damaged>> /\ ImportStep

Imported == New(4, imports)

StagePayload ==
  /\ pc = "stage_payload"
  /\ \/ Set("payload", Imported) /\ Go("stage_meta") /\ Works
     \/ Fails("stage_undo")
  /\ UNCHANGED prior /\ ImportStep

StageMeta ==
  /\ pc = "stage_meta"
  /\ \/ Set("meta", Imported) /\ Go(Back) /\ Works
     \/ Fails("stage_undo")
  /\ UNCHANGED prior /\ ImportStep

StageUndo ==
  /\ pc = "stage_undo" /\ Works
  /\ disk' = [disk EXCEPT !.payload = prior, !.meta = prior]
  /\ Go(Back) /\ UNCHANGED prior /\ ImportStep

CancelImport ==
  /\ AtRest /\ ~NothingPending
  /\ Set("payload", None) /\ Go("cancel_meta") /\ Works
  /\ UNCHANGED prior /\ ImportStep

CancelMeta ==
  /\ pc = "cancel_meta"
  /\ Set("meta", None) /\ Go(Back) /\ Works
  /\ UNCHANGED prior /\ ImportStep

(* Something else damages the database, or the record of one server. *)
Damage ==
  /\ pc \in Stopped \cup {"run"} /\ disk.active # None
  /\ \/ Set("active", [disk.active EXCEPT !.valid = FALSE])
     \/ \E s \in monitored : Set("active", [disk.active EXCEPT !.quarantined = @ \cup {s}])
  /\ Damaged /\ UNCHANGED <<pc, memory>>

-----------------------------------------------------------------------------
ImportAtStart ==
  \/ ReadPending \/ BackUpLive \/ CopyLiveToGood \/ InstallImport
  \/ ConsumePayload \/ ConsumeMeta \/ RollBackImport

PrepareAtStart ==
  \/ PrepareFresh \/ BackUpLegacy \/ InstallAfterLegacy \/ UnlinkLegacy \/ Retain
  \/ BackUpSchema3 \/ ApplyMigration \/ RollBackMigration

OpenAtStart == OpenActive \/ PreserveInvalid \/ RestoreGood

Run ==
  \/ \E s \in Servers : \/ Begin(s) \/ RetryBegin(s) \/ Learn(s) \/ Coalesce(s) \/ End(s)
                        \/ RecordDecision(s) \/ Reserve(s)
  \/ Dispatch

Write == FlushBegins \/ RotateGood \/ ReplaceActive \/ Verify

Import == StageImport \/ StagePayload \/ StageMeta \/ StageUndo \/ CancelImport \/ CancelMeta

ShutDown == Quit \/ (\E s \in Servers : QuitServer(s)) \/ Close

Step ==
  \/ Start \/ ImportAtStart \/ PrepareAtStart \/ OpenAtStart
  \/ Run \/ Write \/ ShutDown \/ Import \/ Crash \/ Damage

Next == Step /\ UNCHANGED monitored

Spec == Init /\ [][Next]_vars

Symmetry == Permutations(Servers)

-----------------------------------------------------------------------------
Present == ({disk.active, disk.good} \cup disk.kept) \ {None}

(* Whatever was once written and verified is still somewhere: in the
   database, in its last known good copy or in a copy that was preserved
   before an import, a migration or a recovery replaced it.  Only damage
   from outside costs something.                                          *)
NothingSavedIsLost ==
  ~damaged => \A d \in saved : \E f \in Present : f.valid /\ Covers(f, d)

(* The alert of an event is given at most once, whatever fails and whenever
   the launcher crashes; a damaged or an imported database remembers other
   alerts.                                                                *)
DeliveredAtMostOnce ==
  ~damaged /\ imports = 0 => \A s \in Servers : delivered[s] <= 1

(* What the learner relies on is on disk: when a session resumed after a
   reboot is exposed, the closure of the episode before it; and when a
   launcher with the learner enabled has ended in order, all it has learned,
   the writes that had failed on the way included.                        *)
LearnedIsDurable ==
  ~damaged =>
    /\ \A s \in Servers :
         session[s] = "open" /\ needs[s] > 0 => disk.active.learned[s] >= needs[s]
    /\ pc = "closed" /\ status = "enabled" => disk.active.learned = mem

(* Without a failing call and without damage the learner starts, wherever
   the launcher crashed before: halfway through a migration, an import or a
   write.                                                                 *)
CrashesAreHarmless == faults = 0 => pc # "off"

=============================================================================
