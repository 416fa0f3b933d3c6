--------------------------- MODULE LearningStoreProofs ---------------------------
(***************************************************************************)
(* Proofs about the learner's files, for any servers, any number of        *)
(* failing calls, crashes and imports.                                     *)
(***************************************************************************)
EXTENDS LearningStore, RestartAuthority, FiniteSetTheorems, WellFoundedInduction, TLAPS

LEMMA SetFile ==
  ASSUME disk \in Disks, NEW d \in Files
  PROVE  /\ Set("active", d) =>
              /\ disk' \in Disks /\ disk'.active = d /\ disk'.kept = disk.kept
              /\ disk'.payload = disk.payload /\ disk'.meta = disk.meta
         /\ Set("good", d) =>
              /\ disk' \in Disks /\ disk'.active = disk.active /\ disk'.kept = disk.kept
              /\ disk'.payload = disk.payload /\ disk'.meta = disk.meta
         /\ Set("legacy", d) =>
              /\ disk' \in Disks /\ disk'.active = disk.active /\ disk'.kept = disk.kept
              /\ disk'.payload = disk.payload /\ disk'.meta = disk.meta
         /\ Set("payload", d) =>
              /\ disk' \in Disks /\ disk'.active = disk.active /\ disk'.kept = disk.kept
              /\ disk'.payload = d /\ disk'.meta = disk.meta
         /\ Set("meta", d) =>
              /\ disk' \in Disks /\ disk'.active = disk.active /\ disk'.kept = disk.kept
              /\ disk'.payload = disk.payload /\ disk'.meta = d
BY DEF Set, Disks

LEMMA KeepFile ==
  ASSUME disk \in Disks, NEW d \in Documents, Keep(d)
  PROVE  /\ disk' \in Disks /\ disk'.active = disk.active /\ disk'.kept = With(disk.kept, d)
         /\ disk'.good = disk.good
         /\ disk'.payload = disk.payload /\ disk'.meta = disk.meta
<1>1. With(disk.kept, d) \subseteq Documents BY DEF With, Disks
<1>2. disk' = [disk EXCEPT !.kept = With(disk.kept, d)] BY DEF Keep, Disks
<1>3. QED BY <1>1, <1>2 DEF Disks

LEMMA FilesOf ==
  ASSUME disk \in Disks
  PROVE  /\ disk.active \in Files /\ disk.good \in Files /\ disk.legacy \in Files
         /\ disk.payload \in Files /\ disk.meta \in Files /\ disk.kept \subseteq Documents
BY DEF Disks

LEMMA NewDocument ==
  ASSUME NEW version \in {1, 3, 4}, NEW lineage \in Lineages
  PROVE  New(version, lineage) \in Documents
BY BoundsAssumption DEF New, Documents, Nothing, Learned

LEMMA OneLearned ==
  ASSUME NEW d \in Documents, NEW s \in Servers, NEW n \in 0..MaxLearned
  PROVE  LET e == [d EXCEPT !.learned[s] = n]
         IN /\ e \in Documents /\ e.learned = [d.learned EXCEPT ![s] = n]
            /\ e.version = d.version /\ e.valid = d.valid /\ e.quarantined = d.quarantined
            /\ e.fired = d.fired /\ e.lineage = d.lineage
BY DEF Documents, Learned

LEMMA OneFired ==
  ASSUME NEW d \in Documents, NEW s \in Servers
  PROVE  LET e == [d EXCEPT !.fired = @ \cup {s}]
         IN /\ e \in Documents /\ e.fired = d.fired \cup {s}
            /\ e.version = d.version /\ e.valid = d.valid /\ e.quarantined = d.quarantined
            /\ e.learned = d.learned /\ e.lineage = d.lineage
BY DEF Documents

LEMMA MigratedDocument ==
  ASSUME NEW d \in Documents
  PROVE  /\ Migrated(d) \in Documents /\ Migrated(d).version = 4
         /\ Migrated(d).valid = d.valid /\ Migrated(d).quarantined = d.quarantined
         /\ Migrated(d).fired = d.fired /\ Migrated(d).lineage = d.lineage
         /\ Migrated(d).learned = d.learned
BY DEF Migrated, Documents

-----------------------------------------------------------------------------
(* Types. *)
FileTypes == disk \in Disks /\ prior \in Files
PcType == pc \in Startup \cup Writing \cup Staging \cup Running \cup Stopped
StoreTypes == store \in Files /\ expected \in Files /\ unsaved \in BOOLEAN
LearnerTypes ==
  /\ status \in Statuses /\ mem \in Learned /\ dirty \subseteq Servers /\ staged \subseteq Servers
  /\ session \in [Servers -> {"none", "open", "staged"}] /\ needs \in Learned
  /\ job \in Jobs /\ todo \subseteq Servers
HistoryTypes ==
  /\ saved \subseteq Documents /\ delivered \in [Servers -> 0..2]
  /\ faults \in 0..MaxFaults /\ imports \in 0..MaxImports /\ damaged \in BOOLEAN

LEMMA TypesSplit ==
  ASSUME TypeOK
  PROVE  /\ FileTypes /\ PcType /\ StoreTypes /\ LearnerTypes /\ HistoryTypes
         /\ monitored \subseteq Servers
BY DEF TypeOK, FileTypes, PcType, StoreTypes, LearnerTypes, HistoryTypes

LEMMA TypesJoin ==
  ASSUME FileTypes', PcType', StoreTypes', LearnerTypes', HistoryTypes',
         monitored \subseteq Servers, monitored' = monitored
  PROVE  TypeOK'
BY DEF TypeOK, FileTypes, PcType, StoreTypes, LearnerTypes, HistoryTypes

(* What is there whatever has been damaged: the document a step is about,
   and a memory just while the learner runs.                              *)
PlaceInv ==
  /\ pc \in {"open", "migrate_apply"} => disk.active # None
  /\ pc = "recover" => disk.good # None
  /\ pc \in Startup \cup {"off", "crashed"} => store = None
  /\ pc \in Writing \cup {"run", "dispatch", "quit"} => store # None
  /\ store = None => /\ status = "disabled" /\ dirty = {} /\ staged = {} /\ ~unsaved
                     /\ \A s \in Servers : session[s] = "none"

LEMMA Histories ==
  ASSUME HistoryTypes, Works \/ Fault
  PROVE  /\ HistoryTypes' /\ faults' >= faults
         /\ UNCHANGED <<saved, delivered, imports, damaged>>
         /\ Works => faults' = faults
<1>1. CASE Works BY <1>1 DEF HistoryTypes, Works, history
<1>2. CASE Fault
  <2>1. /\ faults < MaxFaults /\ faults' = faults + 1
        /\ UNCHANGED <<saved, delivered, imports, damaged>>
    BY <1>2 DEF Fault
  <2>2. faults \in 0..MaxFaults /\ faults' \in 0..MaxFaults /\ faults' > faults
    BY <2>1, BoundsAssumption DEF HistoryTypes
  <2>3. Works => faults' = faults BY DEF Works, history
  <2>4. HistoryTypes' BY <2>1, <2>2 DEF HistoryTypes
  <2>5. QED BY <2>1, <2>2, <2>3, <2>4
<1>3. QED BY <1>1, <1>2

LEMMA MemoryRests ==
  ASSUME StoreTypes, LearnerTypes, StartupOnly
  PROVE  StoreTypes' /\ LearnerTypes'
<1>1. UNCHANGED <<store, expected, unsaved, status, mem, dirty, staged, session, needs, job, todo>>
  BY DEF StartupOnly, runtime
<1>2. StoreTypes' BY <1>1 DEF StoreTypes
<1>3. LearnerTypes' BY <1>1 DEF LearnerTypes
<1>4. QED BY <1>2, <1>3

(* A step on the files at the start. *)
Onward == Startup \cup {"off"}
StartStep ==
  /\ disk' \in Disks /\ prior' \in Files
  /\ pc \in Startup /\ pc' \in Onward \ {"recover"}
  /\ pc' \in {"open", "migrate_apply"} => disk'.active # None
  /\ StartupOnly /\ (Works \/ Fault)

LEMMA StartStepTypes ==
  ASSUME TypeOK, PlaceInv, StartStep, monitored' = monitored
  PROVE  TypeOK' /\ PlaceInv'
<1>1. FileTypes' /\ PcType'
  BY DEF StartStep, FileTypes, PcType, Onward, Startup, Running
<1>2. StoreTypes' /\ LearnerTypes' BY TypesSplit, MemoryRests DEF StartStep
<1>3. HistoryTypes' BY TypesSplit, Histories DEF StartStep
<1>4. TypeOK' BY <1>1, <1>2, <1>3, TypesSplit, TypesJoin
<1>5. UNCHANGED <<store, unsaved, status, dirty, staged, session>>
  BY DEF StartStep, StartupOnly, runtime
<1>6. store = None BY DEF PlaceInv, StartStep
<1>7. PlaceInv'
  BY <1>5, <1>6 DEF PlaceInv, StartStep, Onward, Startup, Writing
<1>8. QED BY <1>4, <1>7

LEMMA ImportAtStartIsStartStep ==
  ASSUME TypeOK, PlaceInv, ImportAtStart
  PROVE  StartStep
<1>0. disk \in Disks /\ prior \in Files BY DEF TypeOK
<1>f. None \in Files BY DEF Files
<1> USE <1>0, <1>f, FilesOf, SetFile DEF StartStep, Onward, Startup, Go, Fails
<1>1. CASE ReadPending BY <1>1 DEF ReadPending
<1>2. CASE BackUpLive
  <2>1. disk.active # None => disk.active \in Documents BY DEF Files
  <2>2. QED BY <1>2, <2>1, KeepFile DEF BackUpLive
<1>3. CASE CopyLiveToGood BY <1>3 DEF CopyLiveToGood
<1>4. CASE InstallImport BY <1>4 DEF InstallImport
<1>5. CASE ConsumePayload BY <1>5 DEF ConsumePayload
<1>6. CASE ConsumeMeta BY <1>6 DEF ConsumeMeta
<1>7. CASE RollBackImport BY <1>7 DEF RollBackImport
<1>8. QED BY <1>1, <1>2, <1>3, <1>4, <1>5, <1>6, <1>7 DEF ImportAtStart

LEMMA PrepareAtStartIsStartStep ==
  ASSUME TypeOK, PlaceInv, PrepareAtStart
  PROVE  StartStep
<1>0. disk \in Disks /\ prior \in Files BY DEF TypeOK
<1>f. /\ None \in Files /\ New(3, 0) \in Files /\ New(4, 0) \in Files
      /\ New(4, 0) # None
  BY NewDocument, BoundsAssumption, NoFileAssumption DEF Lineages, Files
<1>d. disk.active # None => disk.active \in Documents BY <1>0, FilesOf DEF Files
<1>l. disk.legacy # None => disk.legacy \in Documents BY <1>0, FilesOf DEF Files
<1> USE <1>0, <1>f, <1>d, <1>l, FilesOf, SetFile DEF StartStep, Onward, Startup, Go, Fails
<1>1. CASE PrepareFresh BY <1>1 DEF PrepareFresh
<1>2. CASE BackUpLegacy BY <1>2, KeepFile DEF BackUpLegacy
<1>3. CASE InstallAfterLegacy BY <1>3 DEF InstallAfterLegacy
<1>4. CASE UnlinkLegacy BY <1>4 DEF UnlinkLegacy
<1>5. CASE Retain BY <1>5 DEF Retain
<1>6. CASE BackUpSchema3 BY <1>6, KeepFile DEF BackUpSchema3
<1>7. CASE RollBackMigration BY <1>7 DEF RollBackMigration
<1>8. CASE ApplyMigration
  <2>1. disk.active \in Documents BY <1>8 DEF ApplyMigration, PlaceInv
  <2>2. Migrated(disk.active) \in Files /\ Migrated(disk.active) # None
    BY <2>1, MigratedDocument, NoFileAssumption DEF Files
  <2>3. QED BY <1>8, <2>2 DEF ApplyMigration
<1>9. QED BY <1>1, <1>2, <1>3, <1>4, <1>5, <1>6, <1>7, <1>8 DEF PrepareAtStart

(* The process begins and ends. *)
LEMMA BlankTypes ==
  ASSUME TypeOK, Blank, UNCHANGED <<disk, monitored>>, Works,
         pc' \in {"import", "crashed"}
  PROVE  TypeOK' /\ PlaceInv'
<1>1. FileTypes' /\ PcType'
  BY TypesSplit DEF Blank, FileTypes, PcType, Files, Startup, Stopped
<1>2. /\ store' = None /\ expected' = None /\ unsaved' = FALSE /\ status' = "disabled"
      /\ mem' = Nothing /\ dirty' = {} /\ staged' = {} /\ needs' = Nothing
      /\ session' = [s \in Servers |-> "none"] /\ job' = NoJob /\ todo' = {}
  BY DEF Blank
<1>3. Nothing \in Learned /\ NoJob \in Jobs
  BY BoundsAssumption DEF Nothing, Learned, NoJob, Jobs
<1>4. StoreTypes' BY <1>2 DEF StoreTypes, Files
<1>5. LearnerTypes' BY <1>2, <1>3 DEF LearnerTypes, Statuses
<1>6. HistoryTypes' BY TypesSplit, Histories
<1>7. TypeOK' BY <1>1, <1>4, <1>5, <1>6, TypesSplit, TypesJoin
<1>8. PlaceInv' BY <1>2 DEF PlaceInv, Writing, Startup
<1>9. QED BY <1>7, <1>8

LEMMA StopTypes ==
  ASSUME TypeOK, Start \/ Crash, monitored' = monitored
  PROVE  TypeOK' /\ PlaceInv'
<1>1. Blank /\ disk' = disk /\ Works /\ pc' \in {"import", "crashed"}
  BY DEF Start, Crash, Go
<1>2. QED BY <1>1, BlankTypes

(* The database is opened. *)
LEMMA LoadTypes ==
  ASSUME TypeOK, PlaceInv, store = None, NEW d \in Documents, Load(d), pc' = "run",
         disk' \in Disks, prior' = prior, Works, monitored' = monitored
  PROVE  TypeOK' /\ PlaceInv'
<1>1. /\ store' = d /\ expected' = d /\ unsaved' = FALSE /\ status' = "enabled"
      /\ mem' = [s \in Servers |-> IF s \in d.quarantined THEN 0 ELSE d.learned[s]]
      /\ UNCHANGED <<dirty, staged, session, needs, job, todo>>
  BY DEF Load
<1>2. mem' \in Learned BY <1>1, BoundsAssumption DEF Documents, Learned
<1>3. FileTypes' /\ PcType' BY TypesSplit DEF FileTypes, PcType, Running
<1>4. StoreTypes' BY <1>1 DEF StoreTypes, Files
<1>5. LearnerTypes' BY <1>1, <1>2, TypesSplit DEF LearnerTypes, Statuses
<1>6. HistoryTypes' BY TypesSplit, Histories
<1>7. TypeOK' BY <1>3, <1>4, <1>5, <1>6, TypesSplit, TypesJoin
<1>8. store' # None BY <1>1, NoFileAssumption
<1>9. PlaceInv' BY <1>8 DEF PlaceInv, Writing, Startup
<1>10. QED BY <1>7, <1>9

LEMMA DamagedTypes ==
  ASSUME HistoryTypes, Damaged
  PROVE  HistoryTypes' /\ damaged' /\ faults' > 0
<1>1. /\ faults < MaxFaults /\ faults' = faults + 1 /\ damaged' = TRUE
      /\ saved' = {} /\ delivered' = Nothing /\ imports' = imports
  BY DEF Damaged
<1>2. faults \in 0..MaxFaults /\ faults' \in 0..MaxFaults /\ faults' > 0
  BY <1>1, BoundsAssumption DEF HistoryTypes
<1>3. Nothing \in [Servers -> 0..2] BY DEF Nothing
<1>4. HistoryTypes' BY <1>1, <1>2, <1>3 DEF HistoryTypes
<1>5. QED BY <1>1, <1>2, <1>4

LEMMA OpenTypes ==
  ASSUME TypeOK, PlaceInv, OpenAtStart, monitored' = monitored
  PROVE  TypeOK' /\ PlaceInv'
<1>0. disk \in Disks /\ prior \in Files BY DEF TypeOK
<1>1. CASE OpenActive
  <2>1. disk.active \in Documents /\ store = None
    BY <1>0, <1>1, FilesOf DEF OpenActive, Files, PlaceInv, Startup
  <2>2. /\ Load(disk.active) /\ pc' = "run" /\ disk' \in Disks /\ prior' = prior /\ Works
    BY <1>0, <1>1 DEF OpenActive, Go
  <2>3. QED BY <2>1, <2>2, LoadTypes
<1>2. CASE RestoreGood
  <2>1. disk.good \in Documents /\ store = None
    BY <1>0, <1>2, FilesOf DEF RestoreGood, Files, PlaceInv, Startup
  <2>2. CASE Load(disk.good) /\ Set("active", disk.good) /\ pc' = "run" /\ Works /\ prior' = prior
    <3>1. disk' \in Disks BY <1>0, <2>1, <2>2, SetFile DEF Files
    <3>2. QED BY <2>1, <2>2, <3>1, LoadTypes
  <2>3. CASE Fails("off") /\ StartupOnly /\ prior' = prior
    <3>1. StartStep
      BY <1>0, <1>2, <2>3 DEF RestoreGood, StartStep, Fails, Go, Onward, Startup
    <3>2. QED BY <3>1, StartStepTypes
  <2>4. QED BY <1>2, <2>2, <2>3 DEF RestoreGood, Go
<1>3. CASE PreserveInvalid
  <2>1. disk.active \in Documents /\ store = None
    BY <1>0, <1>3, FilesOf DEF PreserveInvalid, Files, PlaceInv, Startup
  <2>2. /\ disk' \in Disks /\ prior' = prior /\ StartupOnly
        /\ Works \/ Damaged
        /\ pc' \in {"recover", "off"}
        /\ pc' = "recover" => disk'.good # None
    BY <1>0, <1>3, <2>1, KeepFile DEF PreserveInvalid, Go, GoodIsUsable
  <2>3. FileTypes' /\ PcType'
    BY <1>0, <2>2 DEF FileTypes, PcType, Startup, Running
  <2>4. HistoryTypes' BY <2>2, TypesSplit, Histories, DamagedTypes
  <2>5. StoreTypes' /\ LearnerTypes' BY <2>2, TypesSplit, MemoryRests
  <2>6. TypeOK' BY <2>3, <2>4, <2>5, TypesSplit, TypesJoin
  <2>7. UNCHANGED <<store, unsaved, status, dirty, staged, session>>
    BY <2>2 DEF StartupOnly, runtime
  <2>8. PlaceInv' BY <2>1, <2>2, <2>7 DEF PlaceInv, Startup, Writing
  <2>9. QED BY <2>6, <2>8
<1>4. QED BY <1>1, <1>2, <1>3 DEF OpenAtStart

(* The running learner. *)
Kinds == {"persist", "session", "retry", "reserve", "complete", "quit", "close"}

LEMMA PersistTypes ==
  ASSUME StoreTypes, LearnerTypes, store # None, NEW kind \in Kinds, NEW s \in Servers,
         NEW learned \in 0..MaxLearned, NEW dirtyNow \in SUBSET Servers,
         NEW otherwise, Persist(kind, s, learned, dirtyNow, otherwise)
  PROVE  /\ store' \in Documents /\ unsaved' \in BOOLEAN /\ status' \in Statuses
         /\ dirty' \subseteq Servers /\ staged' \subseteq Servers /\ job' \in Jobs
         /\ pc' \in {"flush", otherwise}
<1>1. store \in Documents BY DEF StoreTypes, Files
<1>2. NoJob \in Jobs /\ Job(kind, s) \in Jobs BY DEF NoJob, Job, Jobs, Kinds
<1>3. dirty' = dirtyNow BY DEF Persist
<1>4. CASE Enabled /\ s \in dirtyNow /\ s \notin store.quarantined
  <2>1. /\ store' = [store EXCEPT !.learned[s] = learned]
        /\ unsaved' = (unsaved \/ store' # store)
        /\ staged' = staged \cup {s} /\ pc' = "flush" /\ job' = Job(kind, s) /\ status' = status
    BY <1>4 DEF Persist, FlushFor, Go
  <2>2. store' \in Documents BY <1>1, <2>1, OneLearned
  <2>3. staged \subseteq Servers /\ status \in Statuses BY DEF LearnerTypes
  <2>4. unsaved' \in BOOLEAN BY <2>1
  <2>5. QED BY <1>2, <1>3, <2>1, <2>2, <2>3, <2>4
<1>5. CASE ~(Enabled /\ s \in dirtyNow /\ s \notin store.quarantined)
  <2>1. /\ status' \in {status, "disabled"} /\ pc' = otherwise /\ job' = NoJob
        /\ UNCHANGED <<store, unsaved, staged>>
    BY <1>5 DEF Persist, Go
  <2>2. QED BY <1>1, <1>2, <1>3, <2>1 DEF StoreTypes, LearnerTypes, Statuses
<1>6. QED BY <1>4, <1>5

(* A step of the running process. *)
LEMMA AliveTypes ==
  ASSUME FileTypes', StoreTypes', LearnerTypes', HistoryTypes', store' # None,
         pc' \in Writing \cup Staging \cup {"run", "dispatch", "quit", "closed"},
         monitored \subseteq Servers, monitored' = monitored
  PROVE  TypeOK' /\ PlaceInv'
<1>1. PcType' BY DEF PcType, Running, Stopped
<1>2. TypeOK' BY <1>1, TypesJoin
<1>3. PlaceInv' BY DEF PlaceInv, Startup, Writing, Staging
<1>4. QED BY <1>2, <1>3

LEMMA Learnable ==
  ASSUME mem \in Learned, NEW s \in Servers
  PROVE  /\ mem[s] \in 0..MaxLearned /\ MayLearn(s) \subseteq 0..MaxLearned
         /\ \A n \in MayLearn(s) : n >= mem[s]
         /\ mem[s] < MaxLearned => mem[s] + 1 \in MayLearn(s)
BY BoundsAssumption DEF Learned, MayLearn

LEMMA RunsOn ==
  ASSUME TypeOK, UNCHANGED <<disk, prior, expected, monitored>>, HistoryTypes',
         store' \in Documents, unsaved' \in BOOLEAN, LearnerTypes',
         pc' \in Writing \cup {"run", "dispatch", "quit", "closed"}
  PROVE  TypeOK' /\ PlaceInv'
<1>1. FileTypes' /\ StoreTypes' BY DEF TypeOK, FileTypes, StoreTypes, Files
<1>2. store' # None BY NoFileAssumption
<1>3. QED BY <1>1, <1>2, TypesSplit, AliveTypes

LEMMA OneMore ==
  ASSUME mem \in Learned, NEW s \in Servers, NEW n \in 0..MaxLearned
  PROVE  /\ [mem EXCEPT ![s] = n] \in Learned
         /\ \A x \in Servers : [mem EXCEPT ![s] = n][x] = IF x = s THEN n ELSE mem[x]
BY DEF Learned

LEMMA EndsTypes ==
  ASSUME StoreTypes, LearnerTypes, store # None, NEW s \in Servers, NEW kind \in Kinds,
         NEW otherwise, Ends(s, kind, otherwise), todo' \subseteq Servers
  PROVE  /\ store' \in Documents /\ unsaved' \in BOOLEAN /\ LearnerTypes'
         /\ pc' \in {"flush", otherwise}
<1>0. mem \in Learned /\ dirty \subseteq Servers BY DEF LearnerTypes
<1>1. PICK learned \in MayLearn(s) :
        /\ mem' = [mem EXCEPT ![s] = learned]
        /\ session' = [session EXCEPT ![s] = "none"]
        /\ Persist(kind, s, learned, dirty \cup {s}, otherwise)
        /\ UNCHANGED needs
  BY DEF Ends
<1>2. learned \in 0..MaxLearned BY <1>0, Learnable
<1>3. dirty \cup {s} \in SUBSET Servers BY <1>0
<1>4. /\ store' \in Documents /\ unsaved' \in BOOLEAN /\ status' \in Statuses
      /\ dirty' \subseteq Servers /\ staged' \subseteq Servers /\ job' \in Jobs
      /\ pc' \in {"flush", otherwise}
  BY <1>1, <1>2, <1>3, PersistTypes
<1>5. mem' \in Learned BY <1>0, <1>1, <1>2, OneMore
<1>6. session' \in [Servers -> {"none", "open", "staged"}] /\ needs' \in Learned
  BY <1>1 DEF LearnerTypes
<1>7. QED BY <1>4, <1>5, <1>6 DEF LearnerTypes

LEMMA RunTypes ==
  ASSUME TypeOK, PlaceInv, Run, monitored' = monitored
  PROVE  TypeOK' /\ PlaceInv'
<1>0. /\ StoreTypes /\ LearnerTypes /\ HistoryTypes
      /\ mem \in Learned /\ needs \in Learned /\ dirty \subseteq Servers /\ staged \subseteq Servers
      /\ session \in [Servers -> {"none", "open", "staged"}] /\ todo \subseteq Servers
      /\ status \in Statuses /\ job \in Jobs
  BY TypesSplit DEF LearnerTypes
<1>1. store # None /\ store \in Documents
  <2>1. pc \in {"run", "dispatch"}
    BY DEF Run, Begin, RetryBegin, Learn, Coalesce, End, RecordDecision, Reserve, Dispatch
  <2>2. store # None BY <2>1 DEF PlaceInv
  <2>3. QED BY <2>2 DEF TypeOK, Files
<1>2. ASSUME NEW s \in Servers, Begin(s) PROVE TypeOK' /\ PlaceInv'
  <2>1. PICK learned \in MayLearn(s), resumed \in BOOLEAN :
          /\ mem' = [mem EXCEPT ![s] = learned]
          /\ needs' = [needs EXCEPT ![s] = IF resumed THEN learned ELSE 0]
          /\ session' = [session EXCEPT ![s] =
               IF resumed THEN "staged"
               ELSE IF s \in store.quarantined THEN "none" ELSE "open"]
          /\ Persist("session", s, learned, dirty \cup {s}, "run")
    BY <1>2 DEF Begin
  <2>2. todo' = todo /\ UNCHANGED <<disk, prior, expected>> /\ Works
    BY <1>2 DEF Begin, RunOnly
  <2>3. learned \in 0..MaxLearned BY <1>0, Learnable
  <2>4. dirty \cup {s} \in SUBSET Servers /\ "session" \in Kinds BY <1>0 DEF Kinds
  <2>5. /\ store' \in Documents /\ unsaved' \in BOOLEAN /\ status' \in Statuses
        /\ dirty' \subseteq Servers /\ staged' \subseteq Servers /\ job' \in Jobs
        /\ pc' \in {"flush", "run"}
    BY <1>0, <1>1, <2>1, <2>3, <2>4, PersistTypes
  <2>6. mem' \in Learned BY <1>0, <2>1, <2>3, OneMore
  <2>7. needs' \in Learned BY <1>0, <2>1, <2>3, BoundsAssumption DEF Learned
  <2>8. session' \in [Servers -> {"none", "open", "staged"}] BY <1>0, <2>1
  <2>9. LearnerTypes' BY <1>0, <2>2, <2>5, <2>6, <2>7, <2>8 DEF LearnerTypes
  <2>10. HistoryTypes' BY <1>0, <2>2, Histories
  <2>11. QED BY <2>2, <2>5, <2>9, <2>10, RunsOn DEF Writing
<1>3. ASSUME NEW s \in Servers, RetryBegin(s) PROVE TypeOK' /\ PlaceInv'
  <2>1. Persist("retry", s, mem[s], dirty, "run") /\ UNCHANGED <<mem, needs, todo>>
    BY <1>3 DEF RetryBegin
  <2>2. UNCHANGED <<disk, prior, expected>> /\ Works BY <1>3 DEF RetryBegin, RunOnly
  <2>3. mem[s] \in 0..MaxLearned BY <1>0, Learnable
  <2>4. dirty \in SUBSET Servers /\ "retry" \in Kinds BY <1>0 DEF Kinds
  <2>5. /\ store' \in Documents /\ unsaved' \in BOOLEAN /\ status' \in Statuses
        /\ dirty' \subseteq Servers /\ staged' \subseteq Servers /\ job' \in Jobs
        /\ pc' \in {"flush", "run"}
    BY <1>0, <1>1, <2>1, <2>3, <2>4, PersistTypes
  <2>6. session' \in [Servers -> {"none", "open", "staged"}]
    BY <1>0, <1>3 DEF RetryBegin
  <2>7. LearnerTypes' BY <1>0, <2>1, <2>5, <2>6 DEF LearnerTypes
  <2>8. HistoryTypes' BY <1>0, <2>2, Histories
  <2>9. QED BY <2>2, <2>5, <2>7, <2>8, RunsOn DEF Writing
<1>4. ASSUME NEW s \in Servers, Learn(s) PROVE TypeOK' /\ PlaceInv'
  <2>1. /\ mem' = [mem EXCEPT ![s] = mem[s] + 1]
        /\ Persist("persist", s, mem[s] + 1, dirty \cup {s}, "run")
        /\ UNCHANGED <<session, needs, todo>> /\ UNCHANGED <<disk, prior, expected>> /\ Works
    BY <1>0, <1>4 DEF Learn, RunOnly, Learned
  <2>2. mem[s] + 1 \in 0..MaxLearned BY <1>0, <1>4, Learnable DEF Learn
  <2>3. dirty \cup {s} \in SUBSET Servers /\ "persist" \in Kinds BY <1>0 DEF Kinds
  <2>4. /\ store' \in Documents /\ unsaved' \in BOOLEAN /\ status' \in Statuses
        /\ dirty' \subseteq Servers /\ staged' \subseteq Servers /\ job' \in Jobs
        /\ pc' \in {"flush", "run"}
    BY <1>0, <1>1, <2>1, <2>2, <2>3, PersistTypes
  <2>5. mem' \in Learned BY <1>0, <2>1, <2>2, OneMore
  <2>6. LearnerTypes' BY <1>0, <2>1, <2>4, <2>5 DEF LearnerTypes
  <2>7. HistoryTypes' BY <1>0, <2>1, Histories
  <2>8. QED BY <2>1, <2>4, <2>6, <2>7, RunsOn DEF Writing
<1>5. ASSUME NEW s \in Servers, Coalesce(s) PROVE TypeOK' /\ PlaceInv'
  <2>1. /\ mem' = [mem EXCEPT ![s] = mem[s] + 1] /\ dirty' = dirty \cup {s} /\ pc = "run"
        /\ UNCHANGED <<pc, store, unsaved, status, staged, session, needs, job, todo>>
        /\ UNCHANGED <<disk, prior, expected>> /\ Works
    BY <1>0, <1>5 DEF Coalesce, RunOnly, Learned
  <2>2. mem[s] + 1 \in 0..MaxLearned BY <1>0, <1>5, Learnable DEF Coalesce
  <2>3. mem' \in Learned BY <1>0, <2>1, <2>2, OneMore
  <2>4. LearnerTypes' BY <1>0, <2>1, <2>3 DEF LearnerTypes
  <2>5. HistoryTypes' BY <1>0, <2>1, Histories
  <2>6. unsaved' \in BOOLEAN BY <2>1, <1>0 DEF StoreTypes
  <2>7. QED BY <1>1, <2>1, <2>4, <2>5, <2>6, RunsOn
<1>6. ASSUME NEW s \in Servers, End(s) PROVE TypeOK' /\ PlaceInv'
  <2>1. Ends(s, "persist", "run") /\ todo' = todo /\ UNCHANGED <<disk, prior, expected>> /\ Works
    BY <1>6 DEF End, RunOnly
  <2>2. /\ store' \in Documents /\ unsaved' \in BOOLEAN /\ LearnerTypes'
        /\ pc' \in {"flush", "run"}
    BY <1>0, <1>1, <2>1, EndsTypes DEF Kinds
  <2>3. HistoryTypes' BY <1>0, <2>1, Histories
  <2>4. QED BY <2>1, <2>2, <2>3, RunsOn DEF Writing
<1>7. ASSUME NEW s \in Servers, RecordDecision(s) PROVE TypeOK' /\ PlaceInv'
  <2>1. /\ pc = "run" /\ unsaved' = TRUE
        /\ UNCHANGED <<pc, store, job, todo, status, mem, dirty, staged, session, needs>>
        /\ UNCHANGED <<disk, prior, expected>> /\ Works
    BY <1>7 DEF RecordDecision, RunOnly, runtime
  <2>2. LearnerTypes' BY <1>0, <2>1 DEF LearnerTypes
  <2>3. HistoryTypes' BY <1>0, <2>1, Histories
  <2>4. QED BY <1>1, <2>1, <2>2, <2>3, RunsOn
<1>8. ASSUME NEW s \in Servers, Reserve(s) PROVE TypeOK' /\ PlaceInv'
  <2>1. /\ store' = [store EXCEPT !.fired = @ \cup {s}] /\ unsaved' = TRUE
        /\ pc' = "flush" /\ job' = Job("reserve", s)
        /\ UNCHANGED <<todo, status, mem, dirty, staged, session, needs>>
        /\ UNCHANGED <<disk, prior, expected>> /\ Works
    BY <1>8 DEF Reserve, RunOnly, runtime, FlushFor, Go
  <2>2. store' \in Documents BY <1>1, <2>1, OneFired
  <2>3. job' \in Jobs BY <2>1 DEF Job, Jobs
  <2>4. LearnerTypes' BY <1>0, <2>1, <2>3 DEF LearnerTypes
  <2>5. HistoryTypes' BY <1>0, <2>1, Histories
  <2>6. QED BY <2>1, <2>2, <2>4, <2>5, RunsOn DEF Writing
<1>9. CASE Dispatch
  <2>1. /\ unsaved' = TRUE /\ pc' = "flush" /\ job' = Job("complete", job.server)
        /\ UNCHANGED <<store, todo, status, mem, dirty, staged, session, needs>>
        /\ UNCHANGED <<disk, prior, expected>>
        /\ UNCHANGED <<saved, faults, imports, damaged>>
    BY <1>9 DEF Dispatch, runtime, FlushFor, Go
  <2>2. job' \in Jobs BY <1>0, <2>1 DEF Job, Jobs
  <2>3. LearnerTypes' BY <1>0, <2>1, <2>2 DEF LearnerTypes
  <2>4. delivered \in [Servers -> 0..2] BY <1>0 DEF HistoryTypes
  <2>5. delivered' \in [Servers -> 0..2]
    <3>1. delivered' \in {delivered, [delivered EXCEPT ![job.server] = IF @ < 2 THEN @ + 1 ELSE @]}
      BY <1>9 DEF Dispatch
    <3>2. QED BY <2>4, <3>1
  <2>6. HistoryTypes' BY <1>0, <2>1, <2>5 DEF HistoryTypes
  <2>7. QED BY <1>1, <2>1, <2>3, <2>6, RunsOn DEF Writing
<1>10. QED BY <1>2, <1>3, <1>4, <1>5, <1>6, <1>7, <1>8, <1>9 DEF Run

LEMMA AfterTypes ==
  ASSUME LearnerTypes, NEW written \in BOOLEAN, After(written)
  PROVE  /\ session' \in [Servers -> {"none", "open", "staged"}]
         /\ pc' \in {"dispatch", "quit", "closed", "run"} /\ job' \in Jobs
         /\ UNCHANGED <<prior, store, mem, needs, todo>>
<1>0. session \in [Servers -> {"none", "open", "staged"}] /\ job \in Jobs BY DEF LearnerTypes
<1>1. session' \in {session, [session EXCEPT ![job.server] = "open"],
                    [session EXCEPT ![job.server] = "none"]}
  BY DEF After
<1>2. pc' \in {"dispatch", "quit", "closed", "run"} BY DEF After, Go
<1>3. job' \in {job, NoJob} BY DEF After
<1>4. NoJob \in Jobs BY DEF NoJob, Jobs
<1>5. UNCHANGED <<prior, store, mem, needs, todo>> BY DEF After
<1>6. session' \in [Servers -> {"none", "open", "staged"}] BY <1>0, <1>1
<1>7. QED BY <1>0, <1>2, <1>3, <1>4, <1>5, <1>6

LEMMA FlushEndsTypes ==
  ASSUME StoreTypes, LearnerTypes, NEW new \in Statuses, Succeeds \/ FailsWith(new)
  PROVE  /\ LearnerTypes' /\ StoreTypes' /\ store' = store /\ prior' = prior
         /\ pc' \in {"dispatch", "quit", "closed", "run"}
<1>0. /\ status \in Statuses /\ dirty \subseteq Servers /\ staged \subseteq Servers
      /\ mem \in Learned /\ needs \in Learned /\ todo \subseteq Servers
  BY DEF LearnerTypes
<1>1. /\ session' \in [Servers -> {"none", "open", "staged"}]
      /\ pc' \in {"dispatch", "quit", "closed", "run"} /\ job' \in Jobs
      /\ UNCHANGED <<prior, store, mem, needs, todo>>
  <2>1. CASE Succeeds BY <2>1, AfterTypes DEF Succeeds
  <2>2. CASE FailsWith(new) BY <2>2, AfterTypes DEF FailsWith
  <2>3. QED BY <2>1, <2>2
<1>2. CASE Succeeds
  <2>1. /\ expected' = store /\ unsaved' = FALSE /\ staged' = {}
        /\ status' = IF status = "degraded" THEN "enabled" ELSE status
    BY <1>2 DEF Succeeds
  <2>2. dirty' \subseteq dirty BY <1>2 DEF Succeeds
  <2>3. LearnerTypes' BY <1>0, <1>1, <2>1, <2>2 DEF LearnerTypes, Statuses
  <2>4. StoreTypes' BY <1>1, <2>1 DEF StoreTypes
  <2>5. QED BY <1>1, <2>3, <2>4
<1>3. CASE FailsWith(new)
  <2>1. /\ status' = IF status = "disabled" THEN status ELSE new
        /\ UNCHANGED <<expected, unsaved, dirty, staged>>
    BY <1>3 DEF FailsWith
  <2>2. LearnerTypes' BY <1>0, <1>1, <2>1 DEF LearnerTypes
  <2>3. StoreTypes' BY <1>1, <2>1 DEF StoreTypes
  <2>4. QED BY <1>1, <2>2, <2>3
<1>4. QED BY <1>2, <1>3

(* What a step of a flush does to the files and to the history. *)
LEMMA WriteTypes ==
  ASSUME TypeOK, PlaceInv, Write, monitored' = monitored
  PROVE  TypeOK' /\ PlaceInv'
<1>0. /\ StoreTypes /\ LearnerTypes /\ HistoryTypes /\ FileTypes
      /\ "disabled" \in Statuses /\ "degraded" \in Statuses
  BY TypesSplit DEF Statuses
<1>1. store # None /\ store \in Documents
  <2>1. pc \in Writing BY DEF Write, FlushBegins, RotateGood, ReplaceActive, Verify, Writing
  <2>2. store # None BY <2>1 DEF PlaceInv
  <2>3. QED BY <2>2 DEF TypeOK, Files
<1>2. disk' \in Disks
  <2>1. disk.active \in Files /\ store \in Files BY <1>0, FilesOf DEF FileTypes, StoreTypes
  <2>2. disk' = disk \/ Set("good", disk.active) \/ Set("active", store)
    BY DEF Write, FlushBegins, RotateGood, ReplaceActive, Verify, Succeeds
  <2>3. QED BY <1>0, <2>1, <2>2, SetFile DEF FileTypes
<1>3. HistoryTypes'
  <2>1. CASE Works \/ Fault BY <1>0, <2>1, Histories
  <2>2. CASE ~(Works \/ Fault)
    <3>1. /\ saved' = IF damaged THEN saved ELSE With(saved, store)
          /\ UNCHANGED <<delivered, faults, imports, damaged>>
      BY <2>2 DEF Write, FlushBegins, RotateGood, ReplaceActive, Verify
    <3>2. With(saved, store) \subseteq Documents BY <1>0, <1>1 DEF With, HistoryTypes
    <3>3. QED BY <1>0, <3>1, <3>2 DEF HistoryTypes
  <2>3. QED BY <2>1, <2>2
<1>4. CASE Succeeds \/ FailsWith("disabled") \/ FailsWith("degraded")
  <2>1. /\ LearnerTypes' /\ StoreTypes' /\ store' = store /\ prior' = prior
        /\ pc' \in {"dispatch", "quit", "closed", "run"}
    <3>1. CASE Succeeds BY <1>0, <3>1, FlushEndsTypes
    <3>2. CASE FailsWith("disabled") BY <1>0, <3>2, FlushEndsTypes
    <3>3. CASE FailsWith("degraded") BY <1>0, <3>3, FlushEndsTypes
    <3>4. QED BY <1>4, <3>1, <3>2, <3>3
  <2>2. FileTypes' BY <1>0, <1>2, <2>1 DEF FileTypes
  <2>3. QED BY <1>1, <1>3, <2>1, <2>2, AliveTypes, TypesSplit
<1>5. CASE ~(Succeeds \/ FailsWith("disabled") \/ FailsWith("degraded"))
  <2>1. /\ UNCHANGED <<prior, store, expected, unsaved, runtime, job, todo>>
        /\ pc' \in Writing
    BY <1>5 DEF Write, FlushBegins, RotateGood, ReplaceActive, Verify, Go, Writing
  <2>2. UNCHANGED <<prior, store, expected, unsaved, status, mem, dirty, staged, session,
                    needs, job, todo>>
    BY <2>1 DEF runtime
  <2>3. FileTypes' BY <1>0, <1>2, <2>2 DEF FileTypes
  <2>4. StoreTypes' BY <1>0, <2>2 DEF StoreTypes
  <2>5. LearnerTypes' BY <1>0, <2>2 DEF LearnerTypes
  <2>6. QED BY <1>1, <1>3, <2>1, <2>2, <2>3, <2>4, <2>5, AliveTypes, TypesSplit
<1>6. QED BY <1>4, <1>5

LEMMA ShutDownTypes ==
  ASSUME TypeOK, PlaceInv, ShutDown, monitored' = monitored
  PROVE  TypeOK' /\ PlaceInv'
<1>0. /\ StoreTypes /\ LearnerTypes /\ HistoryTypes /\ FileTypes
      /\ mem \in Learned /\ dirty \subseteq Servers /\ todo \subseteq Servers
  BY TypesSplit DEF LearnerTypes
<1>1. CASE Quit
  <2>1. /\ UNCHANGED <<disk, prior, store, expected, unsaved, status, mem, dirty, staged,
                      session, needs, job>>
        /\ Works /\ todo' \in {todo, Servers}
        /\ \/ pc = "run" /\ pc' = "quit"
           \/ pc = "off" /\ pc' = "closed"
    BY <1>1 DEF Quit, runtime, Go
  <2>2. FileTypes' BY <1>0, <2>1 DEF FileTypes
  <2>3. StoreTypes' BY <1>0, <2>1 DEF StoreTypes
  <2>4. LearnerTypes' BY <1>0, <2>1 DEF LearnerTypes
  <2>5. HistoryTypes' BY <1>0, <2>1, Histories
  <2>6. PcType' BY <2>1 DEF PcType, Running, Stopped
  <2>7. TypeOK' BY <2>2, <2>3, <2>4, <2>5, <2>6, TypesSplit, TypesJoin
  <2>8. PlaceInv' BY <2>1 DEF PlaceInv, Startup, Writing
  <2>9. QED BY <2>7, <2>8
<1>2. ASSUME NEW s \in Servers, QuitServer(s) PROVE TypeOK' /\ PlaceInv'
  <2>1. /\ pc = "quit" /\ todo' = todo \ {s} /\ UNCHANGED <<disk, prior, expected>> /\ Works
    BY <1>2 DEF QuitServer, RunOnly
  <2>2. store # None BY <2>1 DEF PlaceInv
  <2>3. /\ store' \in Documents /\ unsaved' \in BOOLEAN /\ LearnerTypes'
        /\ pc' \in {"flush", "quit"}
    <3>1. todo' \subseteq Servers BY <1>0, <2>1
    <3>2. CASE Ends(s, "quit", "quit")
      BY <1>0, <2>2, <3>1, <3>2, EndsTypes DEF Kinds
    <3>3. CASE Persist("quit", s, mem[s], dirty, "quit") /\ UNCHANGED <<mem, session, needs>>
      <4>1. mem[s] \in 0..MaxLearned BY <1>0, Learnable
      <4>2. dirty \in SUBSET Servers /\ "quit" \in Kinds BY <1>0 DEF Kinds
      <4>3. /\ store' \in Documents /\ unsaved' \in BOOLEAN /\ status' \in Statuses
            /\ dirty' \subseteq Servers /\ staged' \subseteq Servers /\ job' \in Jobs
            /\ pc' \in {"flush", "quit"}
        BY <1>0, <2>2, <3>3, <4>1, <4>2, PersistTypes
      <4>4. LearnerTypes' BY <1>0, <3>1, <3>3, <4>3 DEF LearnerTypes
      <4>5. QED BY <4>3, <4>4
    <3>4. QED BY <1>2, <3>2, <3>3 DEF QuitServer
  <2>4. HistoryTypes' BY <1>0, <2>1, Histories
  <2>5. QED BY <2>1, <2>3, <2>4, RunsOn DEF Writing
<1>3. CASE Close
  <2>1. /\ UNCHANGED <<store, unsaved, status, mem, dirty, staged, session, needs, todo>>
        /\ UNCHANGED <<disk, prior, expected>> /\ Works /\ pc = "quit"
        /\ \/ pc' = "flush" /\ job' = Job("close", None)
           \/ pc' = "closed" /\ job' = job
    BY <1>3 DEF Close, RunOnly, runtime, FlushFor, Go
  <2>2. job' \in Jobs BY <1>0, <2>1 DEF Job, Jobs, LearnerTypes
  <2>3. LearnerTypes' BY <1>0, <2>1, <2>2 DEF LearnerTypes
  <2>4. HistoryTypes' BY <1>0, <2>1, Histories
  <2>5. store' \in Documents BY <2>1 DEF PlaceInv, TypeOK, Files
  <2>6. unsaved' \in BOOLEAN BY <1>0, <2>1 DEF StoreTypes
  <2>7. QED BY <2>1, <2>3, <2>4, <2>5, <2>6, RunsOn DEF Writing
<1>4. QED BY <1>1, <1>2, <1>3 DEF ShutDown

LEMMA ImportStepRests ==
  ASSUME StoreTypes, LearnerTypes, ImportStep
  PROVE  /\ StoreTypes' /\ LearnerTypes'
         /\ UNCHANGED <<store, expected, unsaved, status, mem, dirty, staged, session, needs,
                        job, todo>>
<1>1. UNCHANGED <<store, expected, unsaved, status, mem, dirty, staged, session, needs, job, todo>>
  BY DEF ImportStep, runtime
<1>2. StoreTypes' BY <1>1 DEF StoreTypes
<1>3. LearnerTypes' BY <1>1 DEF LearnerTypes
<1>4. QED BY <1>1, <1>2, <1>3

LEMMA ImportDoes ==
  ASSUME TypeOK, PlaceInv, Import
  PROVE  /\ disk' \in Disks /\ prior' \in Files /\ HistoryTypes' /\ ImportStep
         /\ pc' \in Staging \cup {Back}
         /\ disk'.active = disk.active /\ disk'.kept = disk.kept
         /\ UNCHANGED <<saved, damaged>>
<1>0. disk \in Disks /\ prior \in Files /\ HistoryTypes /\ imports \in 0..MaxImports
  BY TypesSplit DEF TypeOK
<1>i. Imported \in Files /\ None \in Files
  BY <1>0, NewDocument DEF Imported, Lineages, Files
<1>1. CASE StageImport
  <2>1. HistoryTypes'
    <3>1. imports < MaxImports /\ imports' = imports + 1 /\ delivered' = Nothing
          /\ UNCHANGED <<saved, faults, damaged>>
      BY <1>1 DEF StageImport
    <3>2. imports' \in 0..MaxImports BY <1>0, <3>1, BoundsAssumption
    <3>3. Nothing \in [Servers -> 0..2] BY DEF Nothing
    <3>4. QED BY <1>0, <3>1, <3>2, <3>3 DEF HistoryTypes
  <2>2. prior' \in Files BY <1>0, <1>1, <1>i, FilesOf DEF StageImport
  <2>3. QED BY <1>0, <1>1, <2>1, <2>2 DEF StageImport, Go, Staging
<1>2. CASE StagePayload
  <2>1. Works \/ Fault BY <1>2 DEF StagePayload, Fails
  <2>2. HistoryTypes' /\ UNCHANGED <<saved, damaged>> BY <1>0, <2>1, Histories
  <2>3. QED BY <1>0, <1>i, <1>2, <2>2, SetFile DEF StagePayload, Go, Staging, Fails
<1>3. CASE StageMeta
  <2>1. Works \/ Fault BY <1>3 DEF StageMeta, Fails
  <2>2. HistoryTypes' /\ UNCHANGED <<saved, damaged>> BY <1>0, <2>1, Histories
  <2>3. QED BY <1>0, <1>i, <1>3, <2>2, SetFile DEF StageMeta, Go, Staging, Fails
<1>4. CASE StageUndo
  <2>1. HistoryTypes' /\ UNCHANGED <<saved, damaged>> BY <1>0, <1>4, Histories DEF StageUndo
  <2>2. disk' = [disk EXCEPT !.payload = prior, !.meta = prior] BY <1>4 DEF StageUndo
  <2>3. disk' \in Disks /\ disk'.active = disk.active /\ disk'.kept = disk.kept
    BY <1>0, <2>2 DEF Disks
  <2>4. QED BY <1>0, <1>4, <2>1, <2>3 DEF StageUndo, Go, Staging
<1>5. CASE CancelImport
  <2>1. HistoryTypes' /\ UNCHANGED <<saved, damaged>> BY <1>0, <1>5, Histories DEF CancelImport
  <2>2. QED BY <1>0, <1>i, <1>5, <2>1, SetFile DEF CancelImport, Go, Staging
<1>6. CASE CancelMeta
  <2>1. HistoryTypes' /\ UNCHANGED <<saved, damaged>> BY <1>0, <1>6, Histories DEF CancelMeta
  <2>2. QED BY <1>0, <1>i, <1>6, <2>1, SetFile DEF CancelMeta, Go, Staging
<1>7. QED BY <1>1, <1>2, <1>3, <1>4, <1>5, <1>6 DEF Import

LEMMA ImportTypes ==
  ASSUME TypeOK, PlaceInv, Import, monitored' = monitored
  PROVE  TypeOK' /\ PlaceInv'
<1>1. /\ disk' \in Disks /\ prior' \in Files /\ HistoryTypes' /\ ImportStep
      /\ pc' \in Staging \cup {Back}
  BY ImportDoes
<1>2. /\ StoreTypes' /\ LearnerTypes'
      /\ UNCHANGED <<store, unsaved, status, dirty, staged, session>>
  BY <1>1, TypesSplit, ImportStepRests
<1>3. FileTypes' /\ PcType'
  BY <1>1 DEF FileTypes, PcType, Staging, Back, Running
<1>4. TypeOK' BY <1>1, <1>2, <1>3, TypesSplit, TypesJoin
<1>5. PlaceInv' BY <1>1, <1>2 DEF PlaceInv, Back, Staging, Startup, Writing
<1>6. QED BY <1>4, <1>5

LEMMA DamageTypes ==
  ASSUME TypeOK, PlaceInv, Damage, monitored' = monitored
  PROVE  TypeOK' /\ PlaceInv'
<1>0. disk \in Disks /\ disk.active \in Documents /\ monitored \subseteq Servers
  BY FilesOf DEF Damage, TypeOK, Files
<1>1. PICK d \in Documents : Set("active", d)
  <2>1. [disk.active EXCEPT !.valid = FALSE] \in Documents BY <1>0 DEF Documents
  <2>2. \A s \in monitored : [disk.active EXCEPT !.quarantined = @ \cup {s}] \in Documents
    BY <1>0 DEF Documents
  <2>3. QED BY <2>1, <2>2 DEF Damage
<1>2. /\ UNCHANGED <<pc, prior, store, expected, unsaved, status, mem, dirty, staged, session,
                    needs, job, todo>>
      /\ Damaged
  BY DEF Damage, memory, runtime
<1>3. disk' \in Disks /\ disk'.active # None
  BY <1>0, <1>1, SetFile, NoFileAssumption DEF Files
<1>4. FileTypes' /\ PcType' BY <1>2, <1>3, TypesSplit DEF FileTypes, PcType
<1>5. StoreTypes' BY <1>2, TypesSplit DEF StoreTypes
<1>6. LearnerTypes' BY <1>2, TypesSplit DEF LearnerTypes
<1>7. HistoryTypes' BY <1>2, TypesSplit, DamagedTypes
<1>8. TypeOK' BY <1>4, <1>5, <1>6, <1>7, TypesSplit, TypesJoin
<1>9. PlaceInv'
  <2>1. pc \in Stopped \cup {"run"} BY DEF Damage
  <2>2. QED BY <1>2, <1>3, <2>1 DEF PlaceInv, Stopped, Startup
<1>10. QED BY <1>8, <1>9

LEMMA FirstDisk ==
  ASSUME Init
  PROVE  /\ disk \in Disks
         /\ disk.good = None /\ disk.payload = None /\ disk.meta = None /\ disk.kept = {}
         /\ disk.active # None =>
              /\ disk.active \in Documents /\ disk.active.version = 3 /\ disk.active.valid
              /\ disk.active.quarantined = {} /\ disk.active.lineage = 0
              /\ disk.active.fired = {}
<1> DEFINE none == [active |-> None, good |-> None, legacy |-> None, payload |-> None,
                    meta |-> None, kept |-> {}]
           taught == [s \in Servers |-> 1]
           old == [New(3, 0) EXCEPT !.learned = taught]
<1>1. New(1, 0) \in Documents /\ New(3, 0) \in Documents
  BY NewDocument, BoundsAssumption DEF Lineages
<1>2. taught \in Learned BY BoundsAssumption DEF Learned
<1>3. /\ old \in Documents /\ old.version = 3 /\ old.valid /\ old.quarantined = {}
      /\ old.lineage = 0 /\ old.fired = {}
  BY <1>1, <1>2 DEF New, Documents
<1>4. none \in Disks BY DEF Disks, Files
<1>5. \/ disk = none
      \/ disk = [none EXCEPT !.legacy = New(1, 0)]
      \/ disk = [none EXCEPT !.active = old]
  BY DEF Init, FirstFiles
<1> HIDE DEF old, taught
<1>6. QED BY <1>1, <1>3, <1>4, <1>5 DEF Disks, Files

LEMMA InitTypes ==
  ASSUME Init
  PROVE  TypeOK /\ PlaceInv
<1>1. /\ pc = "crashed" /\ prior = None /\ store = None /\ expected = None /\ unsaved = FALSE
      /\ status = "disabled" /\ mem = Nothing /\ dirty = {} /\ staged = {}
      /\ session = [s \in Servers |-> "none"] /\ needs = Nothing /\ job = NoJob /\ todo = {}
      /\ saved = {disk.active} \ {None} /\ delivered = Nothing
      /\ faults = 0 /\ imports = 0 /\ damaged = FALSE /\ monitored \subseteq Servers
  BY DEF Init
<1>2. Nothing \in Learned /\ Nothing \in [Servers -> 0..2] /\ NoJob \in Jobs
  BY BoundsAssumption DEF Nothing, Learned, NoJob, Jobs
<1>3. disk \in Disks /\ (disk.active # None => disk.active \in Documents) BY FirstDisk
<1>4. saved \subseteq Documents BY <1>1, <1>3
<1>5. LearnerTypes BY <1>1, <1>2 DEF LearnerTypes, Statuses
<1>6. HistoryTypes
  <2>1. 0 \in 0..MaxFaults /\ 0 \in 0..MaxImports BY BoundsAssumption
  <2>2. damaged \in BOOLEAN /\ delivered \in [Servers -> 0..2] BY <1>1, <1>2
  <2>3. faults \in 0..MaxFaults /\ imports \in 0..MaxImports BY <1>1, <2>1
  <2>4. QED BY <1>4, <2>2, <2>3 DEF HistoryTypes
<1>7. TypeOK
  BY <1>1, <1>3, <1>5, <1>6 DEF TypeOK, LearnerTypes, HistoryTypes, Files, Stopped
<1>8. PlaceInv BY <1>1 DEF PlaceInv, Writing, Startup
<1>9. QED BY <1>7, <1>8

LEMMA TypesKept ==
  ASSUME TypeOK, PlaceInv, Next
  PROVE  TypeOK' /\ PlaceInv'
<1>1. monitored' = monitored /\ Step BY DEF Next
<1>2. CASE Start \/ Crash BY <1>1, <1>2, StopTypes
<1>3. CASE ImportAtStart BY <1>1, <1>3, ImportAtStartIsStartStep, StartStepTypes
<1>4. CASE PrepareAtStart BY <1>1, <1>4, PrepareAtStartIsStartStep, StartStepTypes
<1>5. CASE OpenAtStart BY <1>1, <1>5, OpenTypes
<1>6. CASE Run BY <1>1, <1>6, RunTypes
<1>7. CASE Write BY <1>1, <1>7, WriteTypes
<1>8. CASE ShutDown BY <1>1, <1>8, ShutDownTypes
<1>9. CASE Import BY <1>1, <1>9, ImportTypes
<1>10. CASE Damage BY <1>1, <1>10, DamageTypes
<1>11. QED BY <1>1, <1>2, <1>3, <1>4, <1>5, <1>6, <1>7, <1>8, <1>9, <1>10 DEF Step

(* Every variable keeps its type: no sequence of crashes, failing calls and
   imports brings the learner's files or its memory out of their form.    *)
THEOREM StoreIsTyped == Spec => []TypeOK
<1>1. Init => TypeOK /\ PlaceInv BY InitTypes
<1>2. TypeOK /\ PlaceInv /\ [Next]_vars => (TypeOK /\ PlaceInv)'
  <2>1. ASSUME TypeOK, PlaceInv, UNCHANGED vars PROVE TypeOK' /\ PlaceInv'
    <3>1. UNCHANGED <<disk, pc, prior, store, expected, unsaved, status, mem, dirty, staged,
                      session, needs, job, todo, saved, delivered, faults, imports, damaged,
                      monitored>>
      BY <2>1 DEF vars, memory, runtime, history
    <3>2. TypeOK' BY <2>1, <3>1 DEF TypeOK
    <3>3. PlaceInv' BY <2>1, <3>1 DEF PlaceInv
    <3>4. QED BY <3>2, <3>3
  <2>2. QED BY <2>1, TypesKept
<1>3. QED BY <1>1, <1>2, PTL DEF Spec

-----------------------------------------------------------------------------
(* The invariant.  Until the database is damaged, every file a start uses is
   fine, and what was saved is either what the database shows or in a copy.
   "Fine" includes that no server is quarantined: only damage does that.   *)
Fine(d) == d.valid /\ d.version \in {3, 4} /\ d.quarantined = {}
FineOrNone(f) == f # None => Fine(f)
Kept(d) == \E f \in disk.kept : f.valid /\ Covers(f, d)
Shown(d) == disk.active # None /\ disk.active.valid /\ Covers(disk.active, d)

(* Where the database may be replaced by one that covers nothing. *)
Importing == {"import_good", "install", "consume", "consume_meta", "rollback"}
Replacing == Importing \cup {"migrate_apply", "migrate_rollback"}

FilesAreFine == FineOrNone(disk.active) /\ FineOrNone(disk.payload) /\ FineOrNone(prior)

FilesInPlace ==
  /\ pc = "legacy_install" => disk.active = None
  /\ pc = "open" => disk.active # None /\ disk.active.version = 4
  /\ pc # "recover"
  /\ pc = "migrate_apply" => prior = disk.active /\ prior # None
  /\ pc = "migrate_rollback" => prior # None /\ disk.active = Migrated(prior)

SavedIsSomewhere ==
  /\ \A d \in saved : Kept(d) \/ Shown(d)
  /\ pc \in Replacing => \A d \in saved : Kept(d)

(* What the backend believes of the disk, and what it has over it. *)
MemoryInv ==
  /\ store # None =>
      /\ Fine(store) /\ expected # None /\ Covers(store, expected)
      /\ \A s \in Servers : store.learned[s] <= mem[s]
      /\ Enabled /\ pc # "verify" => disk.active = expected
      /\ ~unsaved => expected = store
  /\ pc \in {"write_good", "write"} => disk.active = expected /\ unsaved
  /\ pc = "verify" => disk.active = store /\ unsaved

(* What of the runtime has reached the backend's document. *)
SessionInv ==
  /\ \A s \in Servers : session[s] = "staged" => needs[s] <= mem[s]
  /\ \A s \in Servers : session[s] = "open" /\ needs[s] > 0 =>
        disk.active # None /\ disk.active.learned[s] >= needs[s]
  /\ store # None /\ Enabled =>
        \A s \in Servers : session[s] # "open" /\ (s \notin dirty \/ s \in staged)
             => store.learned[s] = mem[s]
  /\ pc \in Writing /\ job.kind \in {"session", "retry", "persist", "quit"} =>
        job.server \in Servers /\ store.learned[job.server] = mem[job.server]
  /\ pc \in Writing => job.kind \in Kinds

Closed == pc = "closed" /\ store # None
Closing == pc \in Writing /\ job.kind = "close"
Ending == pc = "quit" \/ (pc \in Writing /\ job.kind = "quit") \/ Closing \/ Closed

QuitInv ==
  /\ Ending => \A s \in Servers \ todo :
                 session[s] # "open" /\ (Enabled => store.learned[s] = mem[s])
  /\ Closing \/ Closed => todo = {}
  /\ Closed /\ status = "enabled" => ~unsaved

(* Until a database is imported, an alert that was given is recorded. *)
AlertInv ==
  /\ disk.payload = None /\ disk.meta = None
  /\ pc \notin Importing \cup Staging
  /\ \A s \in Servers : delivered[s] <= 1
  /\ \A s \in Servers : delivered[s] > 0 =>
       /\ disk.active # None /\ s \in disk.active.fired
       /\ store # None => s \in store.fired
  /\ pc \in Writing \cup {"dispatch"} /\ job.kind = "reserve" =>
       /\ job.server \in Servers /\ delivered[job.server] = 0 /\ job.server \in store.fired
       /\ pc # "dispatch" => unsaved
  /\ pc = "dispatch" =>
       job.kind = "reserve" /\ disk.active # None /\ job.server \in disk.active.fired

Safe ==
  /\ FilesAreFine /\ FilesInPlace /\ SavedIsSomewhere
  /\ MemoryInv /\ SessionInv /\ QuitInv
  /\ imports = 0 => AlertInv

(* Without a fault the start never fails. *)
HarmlessInv ==
  /\ damaged => faults > 0
  /\ faults = 0 =>
       /\ pc \notin {"off", "rollback", "migrate_rollback", "stage_undo", "recover"}
       /\ pc \in Staging => store # None
       /\ disk.active = None => NothingPending
       /\ store # None => disk.active # None
       /\ pc \in {"import_good", "install"} => PendingIsValid

StoreInv == TypeOK /\ PlaceInv /\ HarmlessInv /\ (~damaged => Safe)

LEMMA CoversItself == ASSUME NEW d \in Documents PROVE Covers(d, d)
BY BoundsAssumption DEF Covers, Documents, Learned

LEMMA CoversOn ==
  ASSUME NEW d \in Documents, NEW e \in Documents, NEW f \in Documents,
         Covers(f, e), Covers(e, d)
  PROVE  Covers(f, d)
<1>1. f.valid \/ ~d.valid BY DEF Covers
<1>2. f.lineage = d.lineage /\ d.fired \subseteq f.fired BY DEF Covers
<1>3. ASSUME NEW s \in Servers PROVE d.learned[s] <= f.learned[s]
  <2>1. d.learned[s] <= e.learned[s] /\ e.learned[s] <= f.learned[s] BY DEF Covers
  <2>2. d.learned[s] \in Nat /\ e.learned[s] \in Nat /\ f.learned[s] \in Nat
    BY BoundsAssumption DEF Documents, Learned
  <2>3. QED BY <2>1, <2>2
<1>4. QED BY <1>1, <1>2, <1>3 DEF Covers

(* A new copy keeps what the copies have kept. *)
LEMMA WithCovers ==
  ASSUME NEW kept \in SUBSET Documents, NEW new \in Documents, NEW d \in Documents,
         NEW f \in kept \cup {new}, f.valid, Covers(f, d)
  PROVE  \E g \in With(kept, new) : g.valid /\ Covers(g, d)
<1>1. CASE f = new \/ ~Covers(new, f) BY <1>1 DEF With
<1>2. CASE f # new /\ Covers(new, f)
  <2>1. f \in Documents OBVIOUS
  <2>2. Covers(new, d) BY <1>2, <2>1, CoversOn
  <2>3. new.valid BY <1>2 DEF Covers
  <2>4. new \in With(kept, new) BY DEF With
  <2>5. QED BY <2>2, <2>3, <2>4
<1>3. QED BY <1>1, <1>2

LEMMA KeepKeeps ==
  ASSUME disk \in Disks, NEW x \in Documents, x.valid, Keep(x), NEW d \in Documents
  PROVE  /\ Kept(d) => Kept(d)'
         /\ Covers(x, d) => Kept(d)'
<1>1. disk'.kept = With(disk.kept, x) BY KeepFile
<1>2. disk.kept \subseteq Documents BY FilesOf
<1>3. ASSUME Kept(d) PROVE Kept(d)'
  <2>1. PICK f \in disk.kept : f.valid /\ Covers(f, d) BY <1>3 DEF Kept
  <2>2. \E g \in With(disk.kept, x) : g.valid /\ Covers(g, d) BY <1>2, <2>1, WithCovers
  <2>3. QED BY <1>1, <2>2 DEF Kept
<1>4. ASSUME Covers(x, d) PROVE Kept(d)'
  <2>1. \E g \in With(disk.kept, x) : g.valid /\ Covers(g, d) BY <1>2, <1>4, WithCovers
  <2>2. QED BY <1>1, <2>1 DEF Kept
<1>5. QED BY <1>3, <1>4

LEMMA DiskRests ==
  ASSUME UNCHANGED <<disk, saved>>, SavedIsSomewhere, pc' \in Replacing => pc \in Replacing
  PROVE  SavedIsSomewhere'
BY DEF SavedIsSomewhere, Kept, Shown

LEMMA StopIsSafe ==
  ASSUME StoreInv, Start \/ Crash
  PROVE  HarmlessInv' /\ (~damaged' => Safe')
<1>1. /\ UNCHANGED <<disk, saved, delivered, faults, imports, damaged>>
      /\ pc' \in {"import", "crashed"}
      /\ prior' = None /\ store' = None /\ unsaved' = FALSE
      /\ session' = [s \in Servers |-> "none"]
  BY DEF Start, Crash, Blank, Go, Works, history
<1>2. HarmlessInv'
  BY <1>1 DEF StoreInv, HarmlessInv, Staging, NothingPending, PendingIsValid
<1>3. ASSUME ~damaged' PROVE Safe'
  <2>1. Safe BY <1>1, <1>3 DEF StoreInv
  <2>2. FilesAreFine' BY <1>1, <2>1 DEF Safe, FilesAreFine, FineOrNone
  <2>3. FilesInPlace' BY <1>1 DEF FilesInPlace
  <2>4. SavedIsSomewhere'
    <3>1. pc' \notin Replacing BY <1>1 DEF Replacing, Importing
    <3>2. QED BY <1>1, <2>1, <3>1, DiskRests DEF Safe
  <2>5. MemoryInv' BY <1>1 DEF MemoryInv
  <2>6. SessionInv' BY <1>1 DEF SessionInv, Writing
  <2>7. QuitInv' BY <1>1 DEF QuitInv, Ending, Closing, Closed, Writing
  <2>8. imports' = 0 => AlertInv'
    BY <1>1, <2>1 DEF Safe, AlertInv, Importing, Staging, Writing
  <2>9. QED BY <2>2, <2>3, <2>4, <2>5, <2>6, <2>7, <2>8 DEF Safe
<1>4. QED BY <1>2, <1>3

(* At the start there is no memory to be wrong. *)
LEMMA StartStepMemory ==
  ASSUME TypeOK, PlaceInv, StartStep
  PROVE  MemoryInv' /\ SessionInv' /\ QuitInv' /\ store = None /\ store' = None
<1>1. store = None /\ \A s \in Servers : session[s] = "none"
  BY DEF PlaceInv, StartStep
<1>2. UNCHANGED <<store, session>> /\ pc' \in Onward BY DEF StartStep, StartupOnly, runtime
<1>3. MemoryInv' BY <1>1, <1>2 DEF MemoryInv, Onward, Startup
<1>4. SessionInv' BY <1>1, <1>2 DEF SessionInv, Onward, Startup, Writing
<1>5. QuitInv' BY <1>1, <1>2 DEF QuitInv, Ending, Closing, Closed, Onward, Startup, Writing
<1>6. QED BY <1>1, <1>2, <1>3, <1>4, <1>5

(* What of the alerts a step of the start has to keep. *)
LEMMA StartStepAlerts ==
  ASSUME TypeOK, PlaceInv, StartStep, AlertInv, UNCHANGED delivered,
         pc' \notin Importing, disk'.payload = None, disk'.meta = None,
         disk.active # None =>
           disk'.active # None /\ disk.active.fired \subseteq disk'.active.fired
  PROVE  AlertInv'
<1>1. store = None /\ store' = None BY StartStepMemory
<1>2. pc' \in Onward BY DEF StartStep
<1>3. pc' \notin Importing \cup Staging /\ pc' \notin Writing \cup {"dispatch"}
  BY <1>2 DEF Onward, Startup, Staging, Writing
<1>4. ASSUME NEW s \in Servers
      PROVE  /\ delivered'[s] <= 1
             /\ delivered'[s] > 0 => disk'.active # None /\ s \in disk'.active.fired
  BY <1>4 DEF AlertInv
<1>5. QED BY <1>1, <1>3, <1>4 DEF AlertInv

LEMMA ReplacingKeeps ==
  ASSUME saved' = saved, disk'.kept = disk.kept, SavedIsSomewhere, pc \in Replacing
  PROVE  SavedIsSomewhere'
<1>1. \A d \in saved : Kept(d) BY DEF SavedIsSomewhere
<1>2. \A d \in saved' : Kept(d)' BY <1>1 DEF Kept
<1>3. QED BY <1>2 DEF SavedIsSomewhere

LEMMA ImportAtStartHistory ==
  ASSUME HistoryTypes, ImportAtStart \/ PrepareAtStart
  PROVE  /\ UNCHANGED <<saved, delivered, imports, damaged>>
         /\ Works \/ Fault
         /\ faults' >= faults /\ faults \in Nat /\ faults' \in Nat
         /\ Fault => faults' > 0
<1>1. Works \/ Fault
  <2>1. CASE ImportAtStart
    BY <2>1 DEF ImportAtStart, ReadPending, BackUpLive, CopyLiveToGood, InstallImport,
                ConsumePayload, ConsumeMeta, RollBackImport, Fails
  <2>2. CASE PrepareAtStart
    BY <2>2 DEF PrepareAtStart, PrepareFresh, BackUpLegacy, InstallAfterLegacy, UnlinkLegacy,
                Retain, BackUpSchema3, ApplyMigration, RollBackMigration, Fails
  <2>3. QED BY <2>1, <2>2
<1>2. faults \in Nat BY BoundsAssumption DEF HistoryTypes
<1>3. Fault => faults' > 0 BY <1>2 DEF Fault
<1>4. HistoryTypes' /\ faults' >= faults /\ UNCHANGED <<saved, delivered, imports, damaged>>
  BY <1>1, Histories
<1>5. faults' \in Nat BY <1>4, BoundsAssumption DEF HistoryTypes
<1>6. QED BY <1>1, <1>2, <1>3, <1>4, <1>5

LEMMA HarmlessOn ==
  ASSUME HarmlessInv, damaged' = damaged, faults \in Nat, faults' \in Nat, faults' >= faults,
         store' = None, pc' \notin Staging,
         faults' = 0 =>
           /\ pc' \notin {"off", "rollback", "migrate_rollback", "recover"}
           /\ disk'.active = None => disk'.payload = None /\ disk'.meta = None
           /\ pc' \in {"import_good", "install"} =>
                disk'.payload # None /\ disk'.payload = disk'.meta
  PROVE  HarmlessInv'
<1>1. ASSUME damaged' PROVE faults' > 0
  <2>1. damaged BY <1>1
  <2>2. faults > 0 BY <2>1 DEF HarmlessInv
  <2>3. QED BY <2>2
<1>2. QED BY <1>1 DEF HarmlessInv, NothingPending, PendingIsValid, Staging

LEMMA ImportAtStartIsSafe ==
  ASSUME StoreInv, ImportAtStart
  PROVE  HarmlessInv' /\ (~damaged' => Safe')
<1>0. /\ TypeOK /\ PlaceInv /\ HarmlessInv /\ disk \in Disks /\ disk.active \in Files
      /\ disk.payload \in Files /\ prior \in Files /\ HistoryTypes
      /\ disk.active # None => disk.active \in Documents
      /\ saved \subseteq Documents /\ None \in Files
  BY TypesSplit, FilesOf DEF StoreInv, TypeOK, Files
<1>1. /\ StartStep
      /\ UNCHANGED <<saved, delivered, imports, damaged>>
      /\ Works \/ Fault
      /\ faults' >= faults /\ faults \in Nat /\ faults' \in Nat
      /\ Fault => faults' > 0
  BY <1>0, ImportAtStartIsStartStep, ImportAtStartHistory
<1>2. MemoryInv' /\ SessionInv' /\ QuitInv' /\ store' = None
  BY <1>0, <1>1, StartStepMemory
<1>3. pc' \in Importing \cup {"prepare", "off"}
  BY DEF ImportAtStart, ReadPending, BackUpLive, CopyLiveToGood, InstallImport, ConsumePayload,
         ConsumeMeta, RollBackImport, Go, Fails, Importing
<1>4. FilesInPlace' BY <1>3 DEF FilesInPlace, Importing
<1>5. ~damaged' => Safe BY <1>1 DEF StoreInv
<1>h. faults' = 0 =>
        /\ faults = 0 /\ ~Fault /\ pc # "rollback"
        /\ disk.active = None => disk.payload = None /\ disk.meta = None
        /\ pc \in {"import_good", "install"} => disk.payload # None /\ disk.payload = disk.meta
  <2>1. faults' = 0 => faults = 0 /\ ~Fault BY <1>1
  <2>2. faults = 0 =>
          /\ pc # "rollback" /\ (disk.active = None => NothingPending)
          /\ pc \in {"import_good", "install"} => PendingIsValid
    BY <1>0 DEF HarmlessInv
  <2>3. QED BY <2>1, <2>2 DEF NothingPending, PendingIsValid
<1> DEFINE Goal == HarmlessInv' /\ (~damaged' => FilesAreFine' /\ SavedIsSomewhere')
<1>6. ASSUME ReadPending PROVE Goal
  <2>1. disk' = disk /\ prior' = prior /\ pc' \in {"off", "prepare"} /\ faults' = faults
        /\ (pc' = "off" => disk.active = None /\ ~NothingPending)
    BY <1>6 DEF ReadPending, Go, Works, history
  <2>2. HarmlessInv' BY <1>0, <1>1, <1>2, <2>1 DEF HarmlessInv, Staging, NothingPending
  <2>3. ASSUME ~damaged' PROVE FilesAreFine' /\ SavedIsSomewhere'
    <3>1. pc' \notin Replacing BY <2>1 DEF Replacing, Importing
    <3>2. SavedIsSomewhere' BY <1>1, <1>5, <2>1, <2>3, <3>1, DiskRests DEF Safe
    <3>3. QED BY <1>5, <2>1, <2>3, <3>2 DEF Safe, FilesAreFine, FineOrNone
  <2>4. QED BY <2>2, <2>3
<1>7. ASSUME BackUpLive PROVE Goal
  <2>0. /\ PendingIsValid /\ pc = "import"
        /\ prior' \in {None, disk.active, prior} /\ disk'.active = disk.active
        /\ disk'.payload = disk.payload /\ disk'.meta = disk.meta
        /\ pc' \in {"prepare", "install", "import_good"}
    BY <1>0, <1>7, KeepFile DEF BackUpLive, Go, Fails
  <2>1. HarmlessInv'
    BY <1>0, <1>1, <1>2, <1>h, <2>0, HarmlessOn DEF Staging, PendingIsValid
  <2>2. ASSUME ~damaged' PROVE FilesAreFine' /\ SavedIsSomewhere'
    <3>1. FilesAreFine' BY <1>5, <2>0, <2>2 DEF Safe, FilesAreFine, FineOrNone
    <3>2. ASSUME disk.active = None, disk' = disk PROVE SavedIsSomewhere'
      <4>1. \A d \in saved : Kept(d) BY <1>5, <2>2, <3>2 DEF Safe, SavedIsSomewhere, Shown
      <4>2. \A d \in saved' : Kept(d)' BY <1>1, <3>2, <4>1 DEF Kept
      <4>3. QED BY <4>2 DEF SavedIsSomewhere
    <3>3. ASSUME disk.active # None, Keep(disk.active) PROVE SavedIsSomewhere'
      <4>1. disk.active \in Documents /\ disk.active.valid
        BY <1>0, <1>5, <2>2, <3>3 DEF Safe, FilesAreFine, FineOrNone, Fine
      <4>2. \A d \in saved : Kept(d)'
        <5>1. TAKE d \in saved
        <5>2. d \in Documents BY <1>0
        <5>3. Kept(d) \/ Covers(disk.active, d)
          BY <1>5, <2>2 DEF Safe, SavedIsSomewhere, Shown
        <5>4. QED BY <1>0, <3>3, <4>1, <5>2, <5>3, KeepKeeps
      <4>3. QED BY <1>1, <4>2 DEF SavedIsSomewhere
    <3>4. ASSUME disk' = disk, pc' = "prepare" PROVE SavedIsSomewhere'
      <4>1. pc' \notin Replacing BY <3>4 DEF Replacing, Importing
      <4>2. QED BY <1>1, <1>5, <2>2, <3>4, <4>1, DiskRests DEF Safe
    <3>5. SavedIsSomewhere' BY <1>7, <3>2, <3>3, <3>4 DEF BackUpLive, Fails, Go
    <3>6. QED BY <3>1, <3>5
  <2>3. QED BY <2>1, <2>2
<1>8. ASSUME CopyLiveToGood \/ InstallImport \/ ConsumePayload \/ ConsumeMeta \/ RollBackImport
      PROVE  Goal
  <2>1. ASSUME ~damaged' PROVE SavedIsSomewhere'
    <3>1. pc \in Replacing
      BY <1>8 DEF CopyLiveToGood, InstallImport, ConsumePayload, ConsumeMeta, RollBackImport,
                  Replacing, Importing
    <3>2. disk'.kept = disk.kept
      BY <1>0, <1>8, SetFile DEF CopyLiveToGood, InstallImport, ConsumePayload, ConsumeMeta,
                         RollBackImport, Fails
    <3>3. QED BY <1>1, <1>5, <2>1, <3>1, <3>2, ReplacingKeeps DEF Safe
  <2>2. CASE CopyLiveToGood
    <3>1. /\ pc = "import_good" /\ prior' = prior /\ disk'.active = disk.active
          /\ disk'.payload = disk.payload /\ disk'.meta = disk.meta
          /\ pc' \in {"install", "prepare"}
      BY <1>0, <2>2, SetFile DEF CopyLiveToGood, Go, Fails
    <3>2. HarmlessInv'
      BY <1>0, <1>1, <1>2, <1>h, <3>1, HarmlessOn DEF Staging, PendingIsValid
    <3>3. QED BY <1>5, <2>1, <3>1, <3>2 DEF Safe, FilesAreFine, FineOrNone
  <2>3. CASE InstallImport
    <3>1. /\ pc = "install" /\ prior' = prior /\ disk'.active \in {disk.active, disk.payload}
          /\ disk'.payload = disk.payload /\ disk'.meta = disk.meta
          /\ \/ pc' = "consume" /\ disk'.active = disk.payload
             \/ pc' = "rollback" /\ Fault
      BY <1>0, <2>3, SetFile DEF InstallImport, Go, Fails
    <3>2. HarmlessInv'
      BY <1>0, <1>1, <1>2, <1>h, <3>1, HarmlessOn DEF Staging, PendingIsValid
    <3>3. QED BY <1>5, <2>1, <3>1, <3>2 DEF Safe, FilesAreFine, FineOrNone
  <2>4. CASE ConsumePayload
    <3>1. /\ pc = "consume" /\ prior' = prior /\ disk'.active = disk.active
          /\ disk'.payload \in {None, disk.payload} /\ disk'.meta = disk.meta
          /\ \/ pc' = "consume_meta" /\ disk'.payload = None
             \/ pc' = "rollback" /\ Fault
      BY <1>0, <2>4, SetFile DEF ConsumePayload, Go, Fails
    <3>2. HarmlessInv'
      BY <1>0, <1>1, <1>2, <1>h, <3>1, HarmlessOn DEF Staging, PendingIsValid
    <3>3. QED BY <1>5, <2>1, <3>1, <3>2 DEF Safe, FilesAreFine, FineOrNone
  <2>5. CASE ConsumeMeta
    <3>1. /\ pc = "consume_meta" /\ prior' = prior /\ disk'.active = disk.active
          /\ disk'.payload = disk.payload /\ disk'.meta \in {None, disk.meta}
          /\ \/ pc' = "prepare" /\ disk'.meta = None
             \/ pc' = "rollback" /\ Fault
      BY <1>0, <2>5, SetFile DEF ConsumeMeta, Go, Fails
    <3>2. HarmlessInv'
      BY <1>0, <1>1, <1>2, <1>h, <3>1, HarmlessOn DEF Staging, PendingIsValid
    <3>3. QED BY <1>5, <2>1, <3>1, <3>2 DEF Safe, FilesAreFine, FineOrNone
  <2>6. CASE RollBackImport
    <3>1. /\ pc = "rollback" /\ prior' = prior
          /\ disk'.active \in {disk.active, prior, None} /\ disk'.payload = disk.payload
      BY <1>0, <2>6, SetFile DEF RollBackImport, Go, Fails
    <3>2. faults' # 0 BY <1>h, <3>1
    <3>3. pc' \notin Staging BY <1>3 DEF Importing, Staging
    <3>4. HarmlessInv' BY <1>0, <1>1, <1>2, <3>2, <3>3, HarmlessOn
    <3>5. QED BY <1>5, <2>1, <3>1, <3>4 DEF Safe, FilesAreFine, FineOrNone
  <2>7. QED BY <1>8, <2>2, <2>3, <2>4, <2>5, <2>6
<1>9. Goal BY <1>6, <1>7, <1>8 DEF ImportAtStart
<1>10. ASSUME ~damaged', imports' = 0 PROVE AlertInv'
  <2>1. AlertInv /\ imports = 0 BY <1>1, <1>5, <1>10 DEF Safe
  <2>2. ReadPending
    BY <2>1 DEF AlertInv, ImportAtStart, BackUpLive, CopyLiveToGood, InstallImport,
                ConsumePayload, ConsumeMeta, RollBackImport, PendingIsValid, Importing
  <2>3. disk' = disk /\ pc' \notin Importing BY <2>2 DEF ReadPending, Go, Importing
  <2>4. QED BY <1>0, <1>1, <2>1, <2>3, StartStepAlerts DEF AlertInv
<1>11. QED BY <1>2, <1>4, <1>9, <1>10 DEF Safe

LEMMA PrepareAtStartIsSafe ==
  ASSUME StoreInv, PrepareAtStart
  PROVE  HarmlessInv' /\ (~damaged' => Safe')
<1>0. /\ TypeOK /\ PlaceInv /\ HarmlessInv /\ disk \in Disks /\ disk.active \in Files
      /\ disk.payload \in Files /\ prior \in Files /\ HistoryTypes
      /\ disk.active # None => disk.active \in Documents
      /\ disk.legacy # None => disk.legacy \in Documents
      /\ prior # None => prior \in Documents
      /\ saved \subseteq Documents /\ None \in Files
  BY TypesSplit, FilesOf DEF StoreInv, TypeOK, Files
<1>1. /\ StartStep
      /\ UNCHANGED <<saved, delivered, imports, damaged>>
      /\ Works \/ Fault
      /\ faults' >= faults /\ faults \in Nat /\ faults' \in Nat
      /\ Fault => faults' > 0
  BY <1>0, PrepareAtStartIsStartStep, ImportAtStartHistory
<1>2. MemoryInv' /\ SessionInv' /\ QuitInv' /\ store' = None
  BY <1>0, <1>1, StartStepMemory
<1>3. ~damaged' => Safe BY <1>1 DEF StoreInv
<1>4. faults' = 0 =>
        /\ faults = 0 /\ ~Fault /\ pc # "migrate_rollback"
        /\ disk.active = None => disk.payload = None /\ disk.meta = None
  <2>1. faults' = 0 => faults = 0 /\ ~Fault BY <1>1
  <2>2. faults = 0 => pc # "migrate_rollback" /\ (disk.active = None => NothingPending)
    BY <1>0 DEF HarmlessInv
  <2>3. QED BY <2>1, <2>2 DEF NothingPending
<1>n. /\ New(3, 0) \in Documents /\ New(4, 0) \in Documents
      /\ Fine(New(3, 0)) /\ Fine(New(4, 0)) /\ New(4, 0).version = 4
      /\ New(3, 0) # None /\ New(4, 0) # None
  BY NewDocument, BoundsAssumption, NoFileAssumption DEF Lineages, Fine, New
(* What each step does. *)
<1> DEFINE Same == disk'.payload = disk.payload /\ disk'.meta = disk.meta
           Place == pc' \in {"off", "open", "legacy_install", "legacy_unlink", "prepare",
                             "migrate_apply", "migrate_rollback"}
           Goal ==
             /\ Same /\ Place
             /\ pc' \in {"off", "migrate_rollback"} => faults' # 0
             /\ disk'.active = None => disk.active = None \/ faults' # 0
             /\ ~damaged' =>
                  /\ FilesAreFine' /\ FilesInPlace' /\ SavedIsSomewhere'
                  /\ disk.active # None =>
                       disk'.active # None /\ disk.active.fired \subseteq disk'.active.fired
<1>5. ASSUME disk.active = None, Safe, disk'.kept = disk.kept PROVE SavedIsSomewhere'
  <2>1. \A d \in saved : Kept(d) BY <1>5 DEF Safe, SavedIsSomewhere, Shown
  <2>2. \A d \in saved' : Kept(d)' BY <1>1, <1>5, <2>1 DEF Kept
  <2>3. QED BY <2>2 DEF SavedIsSomewhere
<1>6. ASSUME PrepareFresh PROVE Goal
  <2>1. /\ disk.active = None /\ prior' = prior /\ Same /\ disk'.kept = disk.kept
        /\ \/ pc' = "open" /\ disk'.active = New(4, 0)
           \/ pc' = "off" /\ Fault /\ disk'.active \in {None, New(4, 0)}
    BY <1>0, <1>1, <1>n, <1>6, SetFile DEF PrepareFresh, Go, Fails, Files
  <2>2. ASSUME ~damaged' PROVE FilesAreFine' /\ FilesInPlace' /\ SavedIsSomewhere'
    <3>1. SavedIsSomewhere' BY <1>3, <1>5, <2>1, <2>2
    <3>2. FilesAreFine' BY <1>3, <1>n, <2>1, <2>2 DEF Safe, FilesAreFine, FineOrNone
    <3>3. FilesInPlace' BY <1>n, <2>1 DEF FilesInPlace
    <3>4. QED BY <3>1, <3>2, <3>3
  <2>3. QED BY <1>4, <2>1, <2>2
<1>7. ASSUME BackUpLegacy PROVE Goal
  <2>1. /\ disk.active = None /\ prior' = prior /\ Same /\ disk'.active = None
        /\ \/ pc' = "legacy_install" /\ Keep(disk.legacy)
           \/ pc' = "off" /\ Fault /\ disk' = disk
        /\ disk.legacy \in Documents
    BY <1>0, <1>7, KeepFile DEF BackUpLegacy, Go, Fails
  <2>2. ASSUME ~damaged' PROVE FilesAreFine' /\ FilesInPlace' /\ SavedIsSomewhere'
    <3>1. ASSUME NEW d \in saved PROVE Kept(d)'
      <4>1. Kept(d) BY <1>3, <2>1, <2>2 DEF Safe, SavedIsSomewhere, Shown
      <4>2. CASE disk' = disk BY <4>1, <4>2 DEF Kept
      <4>3. CASE Keep(disk.legacy)
        <5>1. PICK f \in disk.kept : f.valid /\ Covers(f, d) BY <4>1 DEF Kept
        <5>2. /\ disk.kept \in SUBSET Documents /\ d \in Documents
              /\ f \in disk.kept \cup {disk.legacy}
          BY <1>0, <5>1, FilesOf
        <5>3. \E g \in With(disk.kept, disk.legacy) : g.valid /\ Covers(g, d)
          BY <2>1, <5>1, <5>2, WithCovers
        <5>4. disk'.kept = With(disk.kept, disk.legacy) BY <1>0, <2>1, <4>3, KeepFile
        <5>5. QED BY <5>3, <5>4 DEF Kept
      <4>4. QED BY <2>1, <4>2, <4>3
    <3>2. SavedIsSomewhere' BY <1>1, <3>1 DEF SavedIsSomewhere
    <3>3. FilesAreFine' BY <1>3, <2>1, <2>2 DEF Safe, FilesAreFine, FineOrNone
    <3>4. FilesInPlace' BY <2>1 DEF FilesInPlace
    <3>5. QED BY <3>2, <3>3, <3>4
  <2>3. QED BY <1>4, <2>1, <2>2
<1>8. ASSUME InstallAfterLegacy PROVE Goal
  <2>1. /\ pc = "legacy_install" /\ prior' = prior /\ Same /\ disk'.kept = disk.kept
        /\ \/ pc' = "legacy_unlink" /\ disk'.active = New(3, 0)
           \/ pc' = "off" /\ Fault /\ disk'.active = disk.active
    BY <1>0, <1>n, <1>8, SetFile DEF InstallAfterLegacy, Go, Fails, Files
  <2>2. ASSUME ~damaged'
        PROVE  /\ FilesAreFine' /\ FilesInPlace' /\ SavedIsSomewhere'
               /\ disk.active = None
    <3>1. disk.active = None BY <1>3, <2>1, <2>2 DEF Safe, FilesInPlace
    <3>2. SavedIsSomewhere' BY <1>3, <1>5, <2>1, <2>2, <3>1
    <3>3. FilesAreFine' BY <1>3, <1>n, <2>1, <2>2 DEF Safe, FilesAreFine, FineOrNone
    <3>4. FilesInPlace' BY <2>1 DEF FilesInPlace
    <3>5. QED BY <3>1, <3>2, <3>3, <3>4
  <2>3. QED BY <1>4, <1>n, <2>1, <2>2
<1>9. ASSUME UnlinkLegacy \/ Retain PROVE Goal
  <2>1. /\ prior' = prior /\ Same /\ disk'.active = disk.active /\ disk'.kept = disk.kept
        /\ \/ pc' = "prepare"
           \/ /\ pc' = "open" /\ disk.active # None /\ ~Migratable(disk.active)
    BY <1>0, <1>9, SetFile DEF UnlinkLegacy, Retain, Go, Fails
  <2>2. ASSUME ~damaged' PROVE FilesAreFine' /\ FilesInPlace' /\ SavedIsSomewhere'
    <3>1. \A d \in saved : Kept(d) \/ Shown(d) BY <1>3, <2>2 DEF Safe, SavedIsSomewhere
    <3>2. \A d \in saved' : (Kept(d) \/ Shown(d))' BY <1>1, <2>1, <3>1 DEF Kept, Shown
    <3>3. SavedIsSomewhere' BY <2>1, <3>2 DEF SavedIsSomewhere, Replacing, Importing
    <3>4. FilesAreFine' BY <1>3, <2>1, <2>2 DEF Safe, FilesAreFine, FineOrNone
    <3>5. FilesInPlace'
      BY <1>3, <2>1, <2>2 DEF Safe, FilesAreFine, FineOrNone, Fine, Migratable, FilesInPlace
    <3>6. QED BY <3>3, <3>4, <3>5
  <2>3. QED BY <1>4, <2>1, <2>2
<1>10. ASSUME BackUpSchema3 PROVE Goal
  <2>1. /\ disk.active \in Documents /\ disk.active # None /\ disk.active.valid
        /\ prior' = disk.active /\ Same /\ disk'.active = disk.active
        /\ \/ pc' = "migrate_apply" /\ Keep(disk.active)
           \/ pc' = "off" /\ Fault /\ disk' = disk
    BY <1>0, <1>10, KeepFile DEF BackUpSchema3, Go, Fails, Migratable
  <2>2. ASSUME ~damaged' PROVE FilesAreFine' /\ FilesInPlace' /\ SavedIsSomewhere'
    <3>1. ASSUME Keep(disk.active) PROVE SavedIsSomewhere'
      <4>1. \A d \in saved : Kept(d)'
        <5>1. TAKE d \in saved
        <5>2. d \in Documents BY <1>0
        <5>3. Kept(d) \/ Covers(disk.active, d)
          BY <1>3, <2>2 DEF Safe, SavedIsSomewhere, Shown
        <5>4. QED BY <1>0, <2>1, <3>1, <5>2, <5>3, KeepKeeps
      <4>2. QED BY <1>1, <4>1 DEF SavedIsSomewhere
    <3>2. ASSUME disk' = disk, pc' = "off" PROVE SavedIsSomewhere'
      <4>1. pc' \notin Replacing BY <3>2 DEF Replacing, Importing
      <4>2. QED BY <1>1, <1>3, <2>2, <3>2, <4>1, DiskRests DEF Safe
    <3>3. SavedIsSomewhere' BY <2>1, <3>1, <3>2
    <3>4. FilesAreFine' BY <1>3, <2>1, <2>2 DEF Safe, FilesAreFine, FineOrNone
    <3>5. FilesInPlace' BY <2>1 DEF FilesInPlace
    <3>6. QED BY <3>3, <3>4, <3>5
  <2>3. QED BY <1>4, <2>1, <2>2
<1>11. ASSUME ApplyMigration PROVE Goal
  <2>1. disk.active \in Documents BY <1>0, <1>11 DEF ApplyMigration, PlaceInv
  <2>2. /\ Migrated(disk.active) \in Documents /\ Migrated(disk.active) # None
        /\ Migrated(disk.active).version = 4
        /\ Fine(disk.active) => Fine(Migrated(disk.active))
        /\ Migrated(disk.active).fired = disk.active.fired
    BY <2>1, MigratedDocument, NoFileAssumption DEF Fine
  <2>3. /\ pc = "migrate_apply" /\ prior' = prior /\ Same /\ disk'.kept = disk.kept
        /\ \/ pc' = "open" /\ disk'.active = Migrated(disk.active)
           \/ pc' = "off" /\ Fault /\ disk'.active = disk.active
           \/ pc' = "migrate_rollback" /\ Fault /\ disk'.active = Migrated(disk.active)
    BY <1>0, <1>11, <2>2, SetFile DEF ApplyMigration, Go, Fails, Files
  <2>4. disk.active # None BY <2>1, NoFileAssumption
  <2>5. ASSUME ~damaged' PROVE FilesAreFine' /\ FilesInPlace' /\ SavedIsSomewhere'
    <3>1. pc \in Replacing BY <2>3 DEF Replacing
    <3>2. SavedIsSomewhere' BY <1>1, <1>3, <2>3, <2>5, <3>1, ReplacingKeeps DEF Safe
    <3>3. FilesAreFine' BY <1>3, <2>2, <2>3, <2>4, <2>5 DEF Safe, FilesAreFine, FineOrNone
    <3>4. prior = disk.active /\ prior # None BY <1>3, <2>3, <2>5 DEF Safe, FilesInPlace
    <3>5. FilesInPlace' BY <2>2, <2>3, <3>4 DEF FilesInPlace
    <3>6. QED BY <3>2, <3>3, <3>5
  <2>6. QED BY <1>4, <2>2, <2>3, <2>4, <2>5
<1>12. ASSUME RollBackMigration PROVE Goal
  <2>1. /\ pc = "migrate_rollback" /\ prior' = prior /\ Same /\ disk'.kept = disk.kept
        /\ pc' = "off" /\ disk'.active \in {prior, disk.active}
    BY <1>0, <1>12, SetFile DEF RollBackMigration, Go, Fails
  <2>2. faults' # 0 BY <1>4, <2>1
  <2>3. ASSUME ~damaged'
        PROVE  /\ FilesAreFine' /\ FilesInPlace' /\ SavedIsSomewhere'
               /\ prior # None /\ disk'.active # None
               /\ disk.active.fired = disk'.active.fired
    <3>1. pc \in Replacing BY <2>1 DEF Replacing
    <3>2. SavedIsSomewhere' BY <1>1, <1>3, <2>1, <2>3, <3>1, ReplacingKeeps DEF Safe
    <3>3. FilesAreFine' BY <1>3, <2>1, <2>3 DEF Safe, FilesAreFine, FineOrNone
    <3>4. prior # None /\ disk.active = Migrated(prior)
      BY <1>3, <2>1, <2>3 DEF Safe, FilesInPlace
    <3>5. FilesInPlace' BY <2>1 DEF FilesInPlace
    <3>6. prior \in Documents BY <1>0, <3>4
    <3>7. Migrated(prior).fired = prior.fired /\ Migrated(prior) # None
      BY <3>6, MigratedDocument, NoFileAssumption
    <3>8. QED BY <2>1, <3>2, <3>3, <3>4, <3>5, <3>7
  <2>4. QED BY <1>4, <2>1, <2>2, <2>3
<1>13. Goal
  BY <1>6, <1>7, <1>8, <1>9, <1>10, <1>11, <1>12 DEF PrepareAtStart
<1>14. HarmlessInv'
  <2>1. pc' \notin Staging BY <1>13 DEF Staging
  <2>2. QED BY <1>0, <1>1, <1>2, <1>4, <1>13, <2>1, HarmlessOn
<1>15. ASSUME ~damaged', imports' = 0 PROVE AlertInv'
  <2>1. AlertInv /\ imports = 0 BY <1>1, <1>3, <1>15 DEF Safe
  <2>2. pc' \notin Importing BY <1>13 DEF Importing
  <2>3. disk'.payload = None /\ disk'.meta = None BY <1>13, <2>1 DEF AlertInv
  <2>4. QED BY <1>0, <1>1, <1>13, <1>15, <2>1, <2>2, <2>3, StartStepAlerts
<1>16. QED BY <1>2, <1>13, <1>14, <1>15 DEF Safe

LEMMA OpenIsSafe ==
  ASSUME StoreInv, OpenAtStart
  PROVE  HarmlessInv' /\ (~damaged' => Safe')
<1>0. /\ TypeOK /\ PlaceInv /\ HarmlessInv /\ disk \in Disks /\ disk.active \in Files
      /\ HistoryTypes /\ faults \in Nat
  BY TypesSplit, FilesOf, BoundsAssumption DEF StoreInv, TypeOK
<1>1. CASE OpenActive
  <2>1. /\ disk.active \in Documents /\ disk.active # None
        /\ store' = disk.active /\ expected' = disk.active /\ unsaved' = FALSE
        /\ status' = "enabled" /\ pc' = "run"
        /\ mem' = [s \in Servers |-> IF s \in disk.active.quarantined THEN 0
                                     ELSE disk.active.learned[s]]
        /\ UNCHANGED <<dirty, staged, session, needs, job, todo>>
        /\ UNCHANGED <<disk, prior, saved, delivered, faults, imports, damaged>>
    BY <1>0, <1>1 DEF OpenActive, Load, Go, Works, history, Files
  <2>2. HarmlessInv' BY <1>0, <2>1 DEF HarmlessInv, Staging, NothingPending, PendingIsValid
  <2>3. ASSUME ~damaged' PROVE Safe'
    <3>1. Safe BY <2>1, <2>3 DEF StoreInv
    <3>2. FilesAreFine' BY <2>1, <3>1 DEF Safe, FilesAreFine, FineOrNone
    <3>3. FilesInPlace' BY <2>1 DEF FilesInPlace
    <3>4. pc' \notin Replacing BY <2>1 DEF Replacing, Importing
    <3>5. SavedIsSomewhere' BY <2>1, <3>1, <3>4, DiskRests DEF Safe
    <3>6. Fine(disk.active) BY <2>1, <3>1 DEF Safe, FilesAreFine, FineOrNone
    <3>7. \A s \in Servers : mem'[s] = disk.active.learned[s] BY <2>1, <3>6 DEF Fine
    <3>8. \A s \in Servers : disk.active.learned[s] <= mem'[s]
      BY <2>1, <3>7, BoundsAssumption DEF Documents, Learned
    <3>9. MemoryInv' BY <2>1, <3>6, <3>8, CoversItself DEF MemoryInv
    <3>10. \A s \in Servers : session'[s] = "none"
      BY <1>0, <1>1, <2>1 DEF OpenActive, PlaceInv, Startup
    <3>11. SessionInv' BY <2>1, <3>7, <3>10 DEF SessionInv, Writing
    <3>12. QuitInv' BY <2>1 DEF QuitInv, Ending, Closing, Closed, Writing
    <3>13. imports' = 0 => AlertInv'
      BY <2>1, <3>1 DEF Safe, AlertInv, Importing, Staging, Writing
    <3>14. QED BY <3>2, <3>3, <3>5, <3>9, <3>11, <3>12, <3>13 DEF Safe
  <2>4. QED BY <2>2, <2>3
<1>2. CASE RestoreGood
  <2>1. pc = "recover" /\ (Works \/ Fault) BY <1>2 DEF RestoreGood, Fails
  <2>2. damaged /\ faults > 0 BY <1>0, <2>1 DEF StoreInv, HarmlessInv, Safe, FilesInPlace
  <2>3. damaged' = damaged /\ faults' >= faults BY <1>0, <2>1, Histories
  <2>4. faults' > 0
    <3>1. HistoryTypes' BY <1>0, <2>1, Histories
    <3>2. faults' \in Nat BY <3>1, BoundsAssumption DEF HistoryTypes
    <3>3. QED BY <1>0, <2>2, <2>3, <3>2
  <2>5. QED BY <2>2, <2>3, <2>4 DEF HarmlessInv
<1>3. CASE PreserveInvalid
  <2>1. damaged' /\ faults' > 0
    <3>1. CASE Damaged BY <1>0, <3>1, DamagedTypes
    <3>2. CASE Works /\ ~Opens(disk.active)
      <4>1. pc = "open" BY <1>3 DEF PreserveInvalid
      <4>2. damaged
        BY <3>2, <4>1 DEF StoreInv, Safe, FilesAreFine, FineOrNone, Fine, FilesInPlace, Opens
      <4>3. faults > 0 BY <1>0, <4>2 DEF HarmlessInv
      <4>4. QED BY <3>2, <4>2, <4>3 DEF Works, history
    <3>3. QED BY <1>3, <3>1, <3>2 DEF PreserveInvalid
  <2>2. QED BY <2>1 DEF HarmlessInv
<1>4. QED BY <1>1, <1>2, <1>3 DEF OpenAtStart

(* The running learner.  Its operations leave the files to the writer. *)
Afoot == {"run", "flush", "quit", "closed", "dispatch"}

LEMMA AfootIsHarmless ==
  ASSUME HarmlessInv, store # None, pc' \in Afoot,
         UNCHANGED <<disk, faults, damaged>>
  PROVE  HarmlessInv'
BY DEF HarmlessInv, Afoot, Staging, NothingPending, PendingIsValid

LEMMA AfootFiles ==
  ASSUME Safe, pc' \in Afoot, UNCHANGED <<disk, prior, saved>>
  PROVE  FilesAreFine' /\ FilesInPlace' /\ SavedIsSomewhere'
<1>1. FilesAreFine' BY DEF Safe, FilesAreFine, FineOrNone
<1>2. FilesInPlace' BY DEF Afoot, FilesInPlace
<1>3. pc' \notin Replacing BY DEF Afoot, Replacing, Importing
<1>4. SavedIsSomewhere' BY <1>3, DiskRests DEF Safe
<1>5. QED BY <1>1, <1>2, <1>4

LEMMA RunMemory ==
  ASSUME MemoryInv, store # None, pc \in {"run", "dispatch", "quit"},
         pc' \in {"run", "flush", "quit", "closed"},
         UNCHANGED <<disk, expected>>, Fine(store'), Covers(store', expected),
         \A s \in Servers : store'.learned[s] <= mem'[s],
         Enabled' => Enabled,
         ~unsaved' => ~unsaved /\ store' = store
  PROVE  MemoryInv'
<1>1. /\ expected # None
      /\ Enabled => disk.active = expected
      /\ ~unsaved => expected = store
  BY DEF MemoryInv
<1>2. QED BY <1>1 DEF MemoryInv

LEMMA RunAlerts ==
  ASSUME AlertInv, UNCHANGED <<disk, delivered>>, store # None,
         store.fired \subseteq store'.fired, pc' \in {"run", "flush", "quit", "closed"},
         pc' = "flush" => job'.kind # "reserve"
  PROVE  AlertInv'
BY DEF AlertInv, Importing, Staging, Writing

(* What a forced write does to a document without a quarantined server. *)
LEMMA PersistDoes ==
  ASSUME StoreTypes, store # None, Fine(store), NEW kind \in Kinds, NEW s \in Servers,
         NEW learned \in 0..MaxLearned, NEW dirtyNow \in SUBSET Servers,
         NEW otherwise, Persist(kind, s, learned, dirtyNow, otherwise)
  PROVE  /\ dirty' = dirtyNow /\ status' = status
         /\ Fine(store') /\ store'.fired = store.fired
         /\ \A x \in Servers : x # s => store'.learned[x] = store.learned[x]
         /\ \/ /\ Enabled /\ s \in dirtyNow
               /\ store' = [store EXCEPT !.learned[s] = learned] /\ store'.learned[s] = learned
               /\ store'.lineage = store.lineage
               /\ unsaved' = (unsaved \/ store' # store)
               /\ staged' = staged \cup {s} /\ pc' = "flush" /\ job' = Job(kind, s)
            \/ /\ ~(Enabled /\ s \in dirtyNow)
               /\ UNCHANGED <<store, unsaved, staged>> /\ pc' = otherwise /\ job' = NoJob
<1>1. store \in Documents /\ store.quarantined = {} BY DEF StoreTypes, Files, Fine
<1>2. dirty' = dirtyNow BY DEF Persist
<1>3. CASE Enabled /\ s \in dirtyNow
  <2>1. /\ store' = [store EXCEPT !.learned[s] = learned]
        /\ unsaved' = (unsaved \/ store' # store)
        /\ staged' = staged \cup {s} /\ pc' = "flush" /\ job' = Job(kind, s) /\ status' = status
    BY <1>1, <1>3 DEF Persist, FlushFor, Go
  <2>2. /\ store' \in Documents /\ store'.learned = [store.learned EXCEPT ![s] = learned]
        /\ store'.version = store.version /\ store'.valid = store.valid
        /\ store'.quarantined = store.quarantined
        /\ store'.fired = store.fired /\ store'.lineage = store.lineage
    BY <1>1, <2>1, OneLearned
  <2>3. store'.learned[s] = learned
        /\ \A x \in Servers : x # s => store'.learned[x] = store.learned[x]
    BY <1>1, <2>2 DEF Documents, Learned
  <2>4. Fine(store') BY <2>2 DEF Fine
  <2>5. QED BY <1>2, <1>3, <2>1, <2>2, <2>3, <2>4
<1>4. CASE ~(Enabled /\ s \in dirtyNow)
  <2>1. status' = status /\ pc' = otherwise /\ job' = NoJob /\ UNCHANGED <<store, unsaved, staged>>
    BY <1>4 DEF Persist, Go
  <2>2. QED BY <1>2, <1>4, <2>1
<1>5. QED BY <1>3, <1>4

(* A document that has learned no less covers what the other did. *)
LEMMA LearnedCovers ==
  ASSUME NEW d \in Documents, NEW e \in Documents, NEW f \in Documents, Covers(e, d),
         f.valid, f.lineage = e.lineage, e.fired \subseteq f.fired,
         \A s \in Servers : e.learned[s] <= f.learned[s]
  PROVE  Covers(f, d)
<1>1. Covers(f, e) BY DEF Covers
<1>2. QED BY <1>1, CoversOn

(* An operation that forces what is known of a server to disk. *)
Forces(kind, s, learned, dirtyNow, otherwise) ==
  /\ Persist(kind, s, learned, dirtyNow, otherwise)
  /\ UNCHANGED <<disk, prior, expected>> /\ Works
  /\ \A x \in Servers : mem'[x] = IF x = s THEN learned ELSE mem[x]

LEMMA ForcesIsSafe ==
  ASSUME StoreInv, ~damaged, store # None, pc \in {"run", "quit"},
         NEW kind \in Kinds \ {"reserve"}, NEW s \in Servers, NEW learned \in 0..MaxLearned,
         NEW dirtyNow \in SUBSET Servers, NEW otherwise \in {"run", "quit"},
         Forces(kind, s, learned, dirtyNow, otherwise), learned >= mem[s]
  PROVE  /\ FilesAreFine' /\ FilesInPlace' /\ SavedIsSomewhere' /\ MemoryInv'
         /\ imports' = 0 => AlertInv'
         /\ dirty' = dirtyNow /\ status' = status /\ disk' = disk /\ store' # None
         /\ \A x \in Servers : mem'[x] = IF x = s THEN learned ELSE mem[x]
         /\ \A x \in Servers : x # s => store'.learned[x] = store.learned[x]
         /\ \/ /\ Enabled /\ s \in dirtyNow /\ store'.learned[s] = learned
               /\ staged' = staged \cup {s} /\ pc' = "flush" /\ job' = Job(kind, s)
            \/ /\ ~(Enabled /\ s \in dirtyNow)
               /\ UNCHANGED <<store, unsaved, staged>> /\ pc' = otherwise /\ job' = NoJob
<1>0. /\ Safe /\ StoreTypes /\ LearnerTypes /\ store \in Documents /\ mem \in Learned
  BY TypesSplit DEF StoreInv, StoreTypes, LearnerTypes, Files
<1>1. /\ Fine(store) /\ expected # None /\ Covers(store, expected)
      /\ \A x \in Servers : store.learned[x] <= mem[x]
      /\ ~unsaved => expected = store
  BY <1>0 DEF Safe, MemoryInv
<1>2. expected \in Documents BY <1>0, <1>1 DEF StoreTypes, Files
<1>3. /\ Persist(kind, s, learned, dirtyNow, otherwise)
      /\ UNCHANGED <<disk, prior, expected, saved, delivered, faults, imports, damaged>>
      /\ \A x \in Servers : mem'[x] = IF x = s THEN learned ELSE mem[x]
  BY DEF Forces, Works, history
<1>4. /\ dirty' = dirtyNow /\ status' = status
      /\ Fine(store') /\ store'.fired = store.fired
      /\ \A x \in Servers : x # s => store'.learned[x] = store.learned[x]
      /\ \/ /\ Enabled /\ s \in dirtyNow
            /\ store' = [store EXCEPT !.learned[s] = learned] /\ store'.learned[s] = learned
            /\ store'.lineage = store.lineage
            /\ unsaved' = (unsaved \/ store' # store)
            /\ staged' = staged \cup {s} /\ pc' = "flush" /\ job' = Job(kind, s)
         \/ /\ ~(Enabled /\ s \in dirtyNow)
            /\ UNCHANGED <<store, unsaved, staged>> /\ pc' = otherwise /\ job' = NoJob
  BY <1>0, <1>1, <1>3, PersistDoes
<1>5. store' \in Documents /\ store' # None
  BY <1>0, <1>3, PersistTypes, NoFileAssumption
<1>6. pc' \in {"run", "flush", "quit"} /\ (pc' = "flush" => job'.kind # "reserve")
  BY <1>4 DEF Job
<1>7. \A x \in Servers : store.learned[x] <= store'.learned[x] /\ store'.learned[x] <= mem'[x]
  <2>1. TAKE x \in Servers
  <2>2. /\ store.learned[x] \in 0..MaxLearned /\ mem[x] \in 0..MaxLearned
        /\ mem[s] \in 0..MaxLearned
    BY <1>0 DEF Documents, Learned
  <2>3. mem'[x] >= mem[x] BY <1>3, <2>2, BoundsAssumption
  <2>4. CASE x = s /\ store'.learned[s] = learned
    BY <1>1, <1>3, <2>2, <2>4, BoundsAssumption
  <2>5. CASE store'.learned[x] = store.learned[x]
    <3>1. mem'[x] \in 0..MaxLearned BY <1>3, <2>2
    <3>2. QED BY <1>1, <2>2, <2>3, <2>5, <3>1, BoundsAssumption
  <2>6. QED BY <1>4, <2>4, <2>5
<1>8. Covers(store', expected)
  <2>1. store'.valid /\ store'.lineage = store.lineage BY <1>4 DEF Fine
  <2>2. QED BY <1>0, <1>1, <1>2, <1>4, <1>5, <1>7, <2>1, LearnedCovers
<1>9. MemoryInv'
  <2>1. Enabled' => Enabled BY <1>4 DEF Enabled
  <2>2. ~unsaved' => ~unsaved /\ store' = store BY <1>4
  <2>3. MemoryInv BY <1>0 DEF Safe
  <2>4. QED BY <1>3, <1>4, <1>6, <1>7, <1>8, <2>1, <2>2, <2>3, RunMemory
<1>10. FilesAreFine' /\ FilesInPlace' /\ SavedIsSomewhere'
  BY <1>0, <1>3, <1>6, AfootFiles DEF Afoot
<1>11. imports' = 0 => AlertInv'
  <2>1. imports' = 0 => AlertInv BY <1>0, <1>3 DEF Safe
  <2>2. QED BY <1>3, <1>4, <1>6, <2>1, RunAlerts
<1>12. QED BY <1>3, <1>4, <1>5, <1>9, <1>10, <1>11

LEMMA RunsOnQuit ==
  ASSUME pc' \in {"run", "flush"}, pc' = "flush" => job'.kind \notin {"quit", "close"}
  PROVE  QuitInv'
BY DEF QuitInv, Ending, Closing, Closed, Writing

(* The session is none or staged: what it learned is in the document. *)
LEMMA BeginIsSafe ==
  ASSUME StoreInv, ~damaged, store # None, NEW s \in Servers, Begin(s)
  PROVE  Safe'
<1>0. /\ Safe /\ mem \in Learned /\ needs \in Learned /\ dirty \subseteq Servers
      /\ session \in [Servers -> {"none", "open", "staged"}] /\ Fine(store) /\ SessionInv
  BY DEF StoreInv, TypeOK, Safe, MemoryInv
<1>1. PICK learned \in MayLearn(s), resumed \in BOOLEAN :
        /\ ~resumed => learned = mem[s]
        /\ mem' = [mem EXCEPT ![s] = learned]
        /\ needs' = [needs EXCEPT ![s] = IF resumed THEN learned ELSE 0]
        /\ session' = [session EXCEPT ![s] =
             IF resumed THEN "staged"
             ELSE IF s \in store.quarantined THEN "none" ELSE "open"]
        /\ Persist("session", s, learned, dirty \cup {s}, "run")
  BY DEF Begin
<1>2. learned \in 0..MaxLearned /\ learned >= mem[s] BY <1>0, Learnable
<1>3. /\ UNCHANGED <<disk, prior, expected>> /\ Works /\ pc = "run" /\ Enabled
      /\ session[s] = "none"
  BY DEF Begin, RunOnly
<1>4. \A x \in Servers : mem'[x] = IF x = s THEN learned ELSE mem[x]
  BY <1>0, <1>1, <1>2, OneMore
<1>5. Forces("session", s, learned, dirty \cup {s}, "run") BY <1>1, <1>3, <1>4 DEF Forces
<1>6. /\ dirty \cup {s} \in SUBSET Servers /\ "session" \in Kinds \ {"reserve"}
      /\ "run" \in {"run", "quit"} /\ pc \in {"run", "quit"}
  BY <1>0, <1>3 DEF Kinds
<1>7. /\ FilesAreFine' /\ FilesInPlace' /\ SavedIsSomewhere' /\ MemoryInv'
      /\ imports' = 0 => AlertInv'
      /\ dirty' = dirty \cup {s} /\ status' = status /\ disk' = disk /\ store' # None
      /\ \A x \in Servers : x # s => store'.learned[x] = store.learned[x]
      /\ store'.learned[s] = learned
      /\ staged' = staged \cup {s} /\ pc' = "flush" /\ job' = Job("session", s)
  BY <1>2, <1>3, <1>5, <1>6, ForcesIsSafe
<1>8. \A x \in Servers : /\ x # s => session'[x] = session[x] /\ needs'[x] = needs[x]
                         /\ mem'[x] = IF x = s THEN learned ELSE mem[x]
  BY <1>0, <1>1, <1>4
<1>9. /\ session'[s] \in {"staged", "open"}
      /\ session'[s] = "staged" => needs'[s] = learned
      /\ session'[s] = "open" => needs'[s] = 0
  BY <1>0, <1>1 DEF Fine, Learned
<1>10. SessionInv'
  <2>1. \A x \in Servers : session'[x] = "staged" => needs'[x] <= mem'[x]
    BY <1>0, <1>2, <1>8, <1>9, BoundsAssumption DEF SessionInv
  <2>2. \A x \in Servers : session'[x] = "open" /\ needs'[x] > 0 =>
          disk'.active # None /\ disk'.active.learned[x] >= needs'[x]
    BY <1>0, <1>7, <1>8, <1>9 DEF SessionInv
  <2>3. \A x \in Servers : session'[x] # "open" /\ (x \notin dirty' \/ x \in staged')
          => store'.learned[x] = mem'[x]
    <3>1. TAKE x \in Servers
    <3>2. CASE x = s BY <1>7, <1>8, <3>2
    <3>3. CASE x # s
      <4>1. session[x] # "open" /\ (x \notin dirty \/ x \in staged) => store.learned[x] = mem[x]
        BY <1>0, <1>3 DEF SessionInv
      <4>2. QED BY <1>7, <1>8, <3>3, <4>1
    <3>4. QED BY <3>2, <3>3
  <2>4. job'.kind = "session" /\ job'.server = s BY <1>7 DEF Job
  <2>5. store'.learned[s] = mem'[s] BY <1>7, <1>8
  <2>6. job'.kind \in Kinds BY <2>4 DEF Kinds
  <2>7. QED BY <2>1, <2>2, <2>3, <2>4, <2>5, <2>6 DEF SessionInv
<1>11. QuitInv' BY <1>7, RunsOnQuit DEF Job
<1>12. QED BY <1>7, <1>10, <1>11 DEF Safe

LEMMA RetryBeginIsSafe ==
  ASSUME StoreInv, ~damaged, store # None, NEW s \in Servers, RetryBegin(s)
  PROVE  Safe'
<1>0. /\ Safe /\ mem \in Learned /\ needs \in Learned /\ dirty \subseteq Servers
      /\ session \in [Servers -> {"none", "open", "staged"}] /\ SessionInv /\ MemoryInv
  BY DEF StoreInv, TypeOK, Safe
<1>1. /\ UNCHANGED <<disk, prior, expected, mem, needs>> /\ Works /\ pc = "run" /\ Enabled
      /\ session[s] = "staged" /\ Persist("retry", s, mem[s], dirty, "run")
      /\ s \in dirty => session' = session
      /\ s \notin dirty =>
           session' = [session EXCEPT ![s] = IF status = "enabled" /\ ~unsaved THEN "open" ELSE @]
  BY DEF RetryBegin, RunOnly
<1>2. mem[s] \in 0..MaxLearned /\ mem[s] >= mem[s] BY <1>0, Learnable
<1>3. Forces("retry", s, mem[s], dirty, "run") BY <1>1 DEF Forces
<1>4. /\ dirty \in SUBSET Servers /\ "retry" \in Kinds \ {"reserve"}
      /\ "run" \in {"run", "quit"} /\ pc \in {"run", "quit"}
  BY <1>0, <1>1 DEF Kinds
<1>5. /\ FilesAreFine' /\ FilesInPlace' /\ SavedIsSomewhere' /\ MemoryInv'
      /\ imports' = 0 => AlertInv'
      /\ dirty' = dirty /\ status' = status /\ disk' = disk /\ store' # None
      /\ \A x \in Servers : x # s => store'.learned[x] = store.learned[x]
      /\ \/ /\ s \in dirty /\ store'.learned[s] = mem[s]
            /\ staged' = staged \cup {s} /\ pc' = "flush" /\ job' = Job("retry", s)
         \/ /\ s \notin dirty /\ store' = store /\ staged' = staged /\ pc' = "run"
  BY <1>1, <1>2, <1>3, <1>4, ForcesIsSafe
<1>6. \A x \in Servers : x # s => session'[x] = session[x]
  BY <1>0, <1>1
<1>7. session'[s] # "staged" =>
        /\ session'[s] = "open" /\ s \notin dirty /\ status = "enabled" /\ ~unsaved
  BY <1>0, <1>1
<1>8. SessionInv'
  <2>1. \A x \in Servers : session'[x] = "staged" => needs'[x] <= mem'[x]
    BY <1>0, <1>1, <1>6 DEF SessionInv
  <2>2. \A x \in Servers : session'[x] = "open" /\ needs'[x] > 0 =>
          disk'.active # None /\ disk'.active.learned[x] >= needs'[x]
    <3>1. TAKE x \in Servers
    <3>2. CASE x # s BY <1>0, <1>1, <1>6, <3>2 DEF SessionInv
    <3>3. CASE x = s /\ session'[s] = "open"
      <4>1. s \notin dirty /\ ~unsaved BY <1>7, <3>3
      <4>2. store.learned[s] = mem[s] BY <1>0, <1>1, <4>1 DEF SessionInv
      <4>3. expected = store /\ disk.active = expected BY <1>0, <1>1, <4>1 DEF MemoryInv
      <4>4. needs[s] <= mem[s] BY <1>0, <1>1 DEF SessionInv
      <4>5. needs[s] \in Int /\ mem[s] \in Int BY <1>0, BoundsAssumption DEF Learned
      <4>6. disk'.active # None /\ disk'.active.learned[s] = mem[s]
        BY <1>1, <4>2, <4>3
      <4>7. QED BY <1>1, <3>3, <4>4, <4>5, <4>6
    <3>4. QED BY <3>2, <3>3
  <2>3. \A x \in Servers : session'[x] # "open" /\ (x \notin dirty' \/ x \in staged')
          => store'.learned[x] = mem'[x]
    <3>1. TAKE x \in Servers
    <3>2. session[x] # "open" /\ (x \notin dirty \/ x \in staged) => store.learned[x] = mem[x]
      BY <1>0, <1>1 DEF SessionInv
    <3>3. CASE x # s BY <1>1, <1>5, <1>6, <3>2, <3>3
    <3>4. CASE x = s BY <1>1, <1>5, <3>2, <3>4
    <3>5. QED BY <3>3, <3>4
  <2>4. pc' \in Writing =>
          /\ job'.kind = "retry" /\ job'.server = s /\ store'.learned[s] = mem'[s]
    BY <1>1, <1>5 DEF Job, Writing
  <2>5. pc' \in Writing => job'.kind \in Kinds BY <2>4 DEF Kinds
  <2>6. QED BY <2>1, <2>2, <2>3, <2>4, <2>5 DEF SessionInv
<1>9. QuitInv' BY <1>5, RunsOnQuit DEF Job
<1>10. QED BY <1>5, <1>8, <1>9 DEF Safe

LEMMA LearnIsSafe ==
  ASSUME StoreInv, ~damaged, store # None, NEW s \in Servers, Learn(s)
  PROVE  Safe'
<1>0. /\ Safe /\ mem \in Learned /\ dirty \subseteq Servers /\ SessionInv
      /\ session \in [Servers -> {"none", "open", "staged"}]
  BY DEF StoreInv, TypeOK, Safe
<1>1. /\ UNCHANGED <<disk, prior, expected, needs, session>> /\ Works /\ pc = "run"
      /\ session[s] = "open" /\ mem' = [mem EXCEPT ![s] = mem[s] + 1] /\ Enabled
      /\ Persist("persist", s, mem[s] + 1, dirty \cup {s}, "run")
  BY <1>0 DEF Learn, RunOnly, Learned
<1>2. mem[s] + 1 \in 0..MaxLearned /\ mem[s] + 1 >= mem[s]
  BY <1>0, Learnable DEF Learn
<1>3. \A x \in Servers : mem'[x] = IF x = s THEN mem[s] + 1 ELSE mem[x]
  BY <1>0, <1>1, <1>2, OneMore
<1>4. Forces("persist", s, mem[s] + 1, dirty \cup {s}, "run") BY <1>1, <1>3 DEF Forces
<1>5. /\ dirty \cup {s} \in SUBSET Servers /\ "persist" \in Kinds \ {"reserve"}
      /\ "run" \in {"run", "quit"} /\ pc \in {"run", "quit"}
  BY <1>0, <1>1 DEF Kinds
<1>6. /\ FilesAreFine' /\ FilesInPlace' /\ SavedIsSomewhere' /\ MemoryInv'
      /\ imports' = 0 => AlertInv'
      /\ dirty' = dirty \cup {s} /\ status' = status /\ disk' = disk /\ store' # None
      /\ \A x \in Servers : x # s => store'.learned[x] = store.learned[x]
      /\ store'.learned[s] = mem[s] + 1
      /\ staged' = staged \cup {s} /\ pc' = "flush" /\ job' = Job("persist", s)
  BY <1>1, <1>2, <1>4, <1>5, ForcesIsSafe
<1>7. SessionInv'
  <2>1. \A x \in Servers : session'[x] = "staged" => needs'[x] <= mem'[x]
    BY <1>0, <1>1, <1>3 DEF SessionInv
  <2>2. \A x \in Servers : session'[x] = "open" /\ needs'[x] > 0 =>
          disk'.active # None /\ disk'.active.learned[x] >= needs'[x]
    BY <1>0, <1>1 DEF SessionInv
  <2>3. \A x \in Servers : session'[x] # "open" /\ (x \notin dirty' \/ x \in staged')
          => store'.learned[x] = mem'[x]
    BY <1>0, <1>1, <1>3, <1>6 DEF SessionInv
  <2>4. job'.kind = "persist" /\ job'.server = s /\ store'.learned[s] = mem'[s]
    BY <1>3, <1>6 DEF Job
  <2>5. job'.kind \in Kinds BY <2>4 DEF Kinds
  <2>6. QED BY <2>1, <2>2, <2>3, <2>4, <2>5 DEF SessionInv
<1>8. QuitInv' BY <1>6, RunsOnQuit DEF Job
<1>9. QED BY <1>6, <1>7, <1>8 DEF Safe

LEMMA CoalesceIsSafe ==
  ASSUME StoreInv, ~damaged, store # None, NEW s \in Servers, Coalesce(s)
  PROVE  Safe'
<1>0. /\ Safe /\ mem \in Learned /\ dirty \subseteq Servers /\ SessionInv /\ MemoryInv
      /\ session \in [Servers -> {"none", "open", "staged"}] /\ store \in Documents
  BY DEF StoreInv, TypeOK, Safe, Files
<1>1. /\ UNCHANGED <<disk, prior, expected, needs, session, pc, store, unsaved, status, staged,
                    job, todo>>
      /\ UNCHANGED <<saved, delivered, faults, imports, damaged>>
      /\ pc = "run" /\ session[s] = "open" /\ mem' = [mem EXCEPT ![s] = mem[s] + 1]
      /\ dirty' = dirty \cup {s} /\ mem[s] < MaxLearned
  BY <1>0 DEF Coalesce, RunOnly, Learned, Works, history
<1>2. mem[s] + 1 \in 0..MaxLearned BY <1>0, <1>1, Learnable
<1>3. \A x \in Servers : mem'[x] = IF x = s THEN mem[s] + 1 ELSE mem[x]
  BY <1>0, <1>1, <1>2, OneMore
<1>4. FilesAreFine' /\ FilesInPlace' /\ SavedIsSomewhere' BY <1>0, <1>1, AfootFiles DEF Afoot
<1>5. \A x \in Servers : store.learned[x] <= mem'[x]
  <2>1. TAKE x \in Servers
  <2>2. store.learned[x] \in Nat /\ mem[x] \in Nat /\ mem[s] \in Nat
    BY <1>0, BoundsAssumption DEF Documents, Learned
  <2>3. store.learned[x] <= mem[x] BY <1>0 DEF MemoryInv
  <2>4. QED BY <1>3, <2>2, <2>3
<1>6. MemoryInv' BY <1>0, <1>1, <1>5 DEF MemoryInv, Enabled
<1>7. SessionInv'
  <2>1. \A x \in Servers : session'[x] = "staged" => needs'[x] <= mem'[x]
    BY <1>0, <1>1, <1>3 DEF SessionInv
  <2>2. \A x \in Servers : session'[x] = "open" /\ needs'[x] > 0 =>
          disk'.active # None /\ disk'.active.learned[x] >= needs'[x]
    BY <1>0, <1>1 DEF SessionInv
  <2>3. Enabled' => \A x \in Servers : session'[x] # "open" /\ (x \notin dirty' \/ x \in staged')
          => store'.learned[x] = mem'[x]
    BY <1>0, <1>1, <1>3 DEF SessionInv, Enabled
  <2>4. pc' \notin Writing BY <1>1 DEF Writing
  <2>5. QED BY <2>1, <2>2, <2>3, <2>4 DEF SessionInv
<1>8. QuitInv' BY <1>1, RunsOnQuit
<1>9. imports' = 0 => AlertInv'
  <2>1. imports' = 0 => AlertInv BY <1>0, <1>1 DEF Safe
  <2>2. QED BY <1>1, <2>1, RunAlerts
<1>10. QED BY <1>4, <1>6, <1>7, <1>8, <1>9 DEF Safe

(* What was learned of a server whose session is over is in the document,
   whichever operation has put it there.                                  *)
LEMMA EndedIsSafe ==
  ASSUME StoreInv, ~damaged, store # None, pc \in {"run", "quit"}, NEW s \in Servers,
         NEW kind \in {"persist", "quit"}, NEW otherwise \in {"run", "quit"},
         NEW learned \in 0..MaxLearned, learned >= mem[s], NEW dirtyNow \in SUBSET Servers,
         Forces(kind, s, learned, dirtyNow, otherwise), needs' = needs,
         \A x \in Servers : x # s => session'[x] = session[x],
         \/ session'[s] = "none" /\ dirtyNow = dirty \cup {s}
         \/ session'[s] = session[s] /\ session[s] # "open" /\ dirtyNow = dirty /\ learned = mem[s]
  PROVE  /\ FilesAreFine' /\ FilesInPlace' /\ SavedIsSomewhere' /\ MemoryInv' /\ SessionInv'
         /\ imports' = 0 => AlertInv'
         /\ status' = status /\ session'[s] # "open"
         /\ \A x \in Servers : x # s => /\ store'.learned[x] = store.learned[x]
                                        /\ mem'[x] = mem[x]
         /\ Enabled' => store'.learned[s] = mem'[s]
         /\ \/ pc' = "flush" /\ job' = Job(kind, s)
            \/ pc' = otherwise
<1>0. /\ Safe /\ SessionInv /\ dirty \subseteq Servers
      /\ kind \in Kinds \ {"reserve"}
  BY DEF StoreInv, TypeOK, Safe, Kinds
<1>1. /\ FilesAreFine' /\ FilesInPlace' /\ SavedIsSomewhere' /\ MemoryInv'
      /\ imports' = 0 => AlertInv'
      /\ dirty' = dirtyNow /\ status' = status /\ disk' = disk /\ store' # None
      /\ \A x \in Servers : mem'[x] = IF x = s THEN learned ELSE mem[x]
      /\ \A x \in Servers : x # s => store'.learned[x] = store.learned[x]
      /\ \/ /\ Enabled /\ s \in dirtyNow /\ store'.learned[s] = learned
            /\ staged' = staged \cup {s} /\ pc' = "flush" /\ job' = Job(kind, s)
         \/ /\ ~(Enabled /\ s \in dirtyNow)
            /\ UNCHANGED <<store, unsaved, staged>> /\ pc' = otherwise /\ job' = NoJob
  BY <1>0, ForcesIsSafe
<1>2. session'[s] # "open" OBVIOUS
<1>3. Enabled' <=> Enabled BY <1>1 DEF Enabled
<1>4. Enabled => store'.learned[s] = mem'[s]
  <2>1. CASE Enabled /\ s \in dirtyNow BY <1>1, <2>1
  <2>2. CASE Enabled /\ s \notin dirtyNow
    <3>1. session[s] # "open" /\ learned = mem[s] /\ s \notin dirty BY <2>2
    <3>2. store.learned[s] = mem[s] BY <1>0, <2>2, <3>1 DEF SessionInv
    <3>3. QED BY <1>1, <2>2, <3>1, <3>2
  <2>3. QED BY <2>1, <2>2
<1>5. \A x \in Servers : x # s => /\ store'.learned[x] = store.learned[x]
                                  /\ mem'[x] = mem[x]
  BY <1>1
<1>6. SessionInv'
  <2>1. \A x \in Servers : session'[x] = "staged" => needs'[x] <= mem'[x]
    <3>1. TAKE x \in Servers
    <3>2. session[x] = "staged" => needs[x] <= mem[x] BY <1>0 DEF SessionInv
    <3>3. CASE x # s BY <1>5, <3>2, <3>3
    <3>4. CASE x = s /\ session'[s] = session[s]
      <4>1. session'[s] = "staged" => learned = mem[s] OBVIOUS
      <4>2. QED BY <1>1, <3>2, <3>4, <4>1
    <3>5. CASE x = s /\ session'[s] = "none" BY <3>5
    <3>6. QED BY <3>3, <3>4, <3>5
  <2>2. \A x \in Servers : session'[x] = "open" /\ needs'[x] > 0 =>
          disk'.active # None /\ disk'.active.learned[x] >= needs'[x]
    BY <1>0, <1>1, <1>2 DEF SessionInv
  <2>3. Enabled' => \A x \in Servers : session'[x] # "open" /\ (x \notin dirty' \/ x \in staged')
          => store'.learned[x] = mem'[x]
    <3>1. SUFFICES ASSUME Enabled, NEW x \in Servers, session'[x] # "open",
                          x \notin dirty' \/ x \in staged'
                   PROVE  store'.learned[x] = mem'[x]
      BY <1>3
    <3>2. CASE x = s BY <1>4, <3>1, <3>2
    <3>3. CASE x # s
      <4>1. session[x] # "open" /\ (x \notin dirty \/ x \in staged) BY <1>1, <3>1, <3>3
      <4>2. store.learned[x] = mem[x] BY <1>0, <3>1, <4>1 DEF SessionInv
      <4>3. QED BY <1>5, <3>3, <4>2
    <3>4. QED BY <3>2, <3>3
  <2>4. pc' \in Writing =>
          job'.kind = kind /\ job'.server = s /\ store'.learned[s] = mem'[s]
    BY <1>1 DEF Job, Writing
  <2>5. pc' \in Writing => job'.kind \in Kinds BY <1>0, <2>4
  <2>6. QED BY <2>1, <2>2, <2>3, <2>4, <2>5 DEF SessionInv
<1>7. QED BY <1>1, <1>2, <1>3, <1>4, <1>5, <1>6

(* The forms in which a session ends. *)
LEMMA EndsForces ==
  ASSUME TypeOK, NEW s \in Servers, NEW kind, NEW otherwise, Ends(s, kind, otherwise),
         UNCHANGED <<disk, prior, expected>>, Works
  PROVE  \E learned \in 0..MaxLearned :
           /\ learned >= mem[s] /\ Forces(kind, s, learned, dirty \cup {s}, otherwise)
           /\ needs' = needs /\ session'[s] = "none"
           /\ \A x \in Servers : x # s => session'[x] = session[x]
<1>0. /\ mem \in Learned /\ session \in [Servers -> {"none", "open", "staged"}]
  BY DEF TypeOK
<1>1. PICK learned \in MayLearn(s) :
        /\ mem' = [mem EXCEPT ![s] = learned]
        /\ session' = [session EXCEPT ![s] = "none"]
        /\ Persist(kind, s, learned, dirty \cup {s}, otherwise)
        /\ UNCHANGED needs
  BY DEF Ends
<1>2. learned \in 0..MaxLearned /\ learned >= mem[s] BY <1>0, Learnable
<1>3. \A x \in Servers : mem'[x] = IF x = s THEN learned ELSE mem[x]
  BY <1>0, <1>1, <1>2, OneMore
<1>4. Forces(kind, s, learned, dirty \cup {s}, otherwise) BY <1>1, <1>3 DEF Forces
<1>5. session'[s] = "none" /\ \A x \in Servers : x # s => session'[x] = session[x]
  BY <1>0, <1>1
<1>6. QED BY <1>1, <1>2, <1>4, <1>5

LEMMA EndIsSafe ==
  ASSUME StoreInv, ~damaged, store # None, NEW s \in Servers, End(s)
  PROVE  Safe'
<1>1. /\ Ends(s, "persist", "run") /\ UNCHANGED <<disk, prior, expected>> /\ Works
      /\ pc = "run" /\ TypeOK
  BY DEF End, RunOnly, StoreInv
<1>2. PICK learned \in 0..MaxLearned :
           /\ learned >= mem[s] /\ Forces("persist", s, learned, dirty \cup {s}, "run")
           /\ needs' = needs /\ session'[s] = "none"
           /\ \A x \in Servers : x # s => session'[x] = session[x]
  BY <1>1, EndsForces
<1>3. dirty \cup {s} \in SUBSET Servers BY <1>1 DEF TypeOK
<1>4. /\ FilesAreFine' /\ FilesInPlace' /\ SavedIsSomewhere' /\ MemoryInv' /\ SessionInv'
      /\ imports' = 0 => AlertInv'
      /\ \/ pc' = "flush" /\ job' = Job("persist", s)
         \/ pc' = "run"
  BY <1>1, <1>2, <1>3, EndedIsSafe
<1>5. QuitInv' BY <1>4, RunsOnQuit DEF Job
<1>6. QED BY <1>4, <1>5 DEF Safe

LEMMA QuitServerIsSafe ==
  ASSUME StoreInv, ~damaged, store # None, NEW s \in Servers, QuitServer(s)
  PROVE  Safe'
<1>1. /\ UNCHANGED <<disk, prior, expected>> /\ Works /\ pc = "quit" /\ TypeOK
      /\ s \in todo /\ todo' = todo \ {s} /\ QuitInv /\ mem \in Learned
      /\ dirty \subseteq Servers
  BY DEF QuitServer, RunOnly, StoreInv, Safe, TypeOK
<1>2. \E learned \in 0..MaxLearned, dirtyNow \in SUBSET Servers :
           /\ learned >= mem[s] /\ Forces("quit", s, learned, dirtyNow, "quit")
           /\ needs' = needs
           /\ \A x \in Servers : x # s => session'[x] = session[x]
           /\ \/ session'[s] = "none" /\ dirtyNow = dirty \cup {s}
              \/ /\ session'[s] = session[s] /\ session[s] # "open"
                 /\ dirtyNow = dirty /\ learned = mem[s]
  <2>1. CASE session[s] = "open"
    <3>1. Ends(s, "quit", "quit") BY <2>1 DEF QuitServer
    <3>2. PICK learned \in 0..MaxLearned :
               /\ learned >= mem[s] /\ Forces("quit", s, learned, dirty \cup {s}, "quit")
               /\ needs' = needs /\ session'[s] = "none"
               /\ \A x \in Servers : x # s => session'[x] = session[x]
      BY <1>1, <3>1, EndsForces
    <3>3. dirty \cup {s} \in SUBSET Servers BY <1>1
    <3>4. QED BY <3>2, <3>3
  <2>2. CASE session[s] # "open"
    <3>1. Persist("quit", s, mem[s], dirty, "quit") /\ UNCHANGED <<mem, session, needs>>
      BY <2>2 DEF QuitServer
    <3>2. Forces("quit", s, mem[s], dirty, "quit") BY <1>1, <3>1 DEF Forces
    <3>3. mem[s] \in 0..MaxLearned /\ mem[s] >= mem[s] BY <1>1, Learnable
    <3>4. QED BY <1>1, <2>2, <3>1, <3>2, <3>3
  <2>3. QED BY <2>1, <2>2
<1>3. /\ FilesAreFine' /\ FilesInPlace' /\ SavedIsSomewhere' /\ MemoryInv' /\ SessionInv'
      /\ imports' = 0 => AlertInv'
      /\ status' = status /\ session'[s] # "open"
      /\ \A x \in Servers : x # s => /\ store'.learned[x] = store.learned[x]
                                     /\ mem'[x] = mem[x] /\ session'[x] = session[x]
      /\ Enabled' => store'.learned[s] = mem'[s]
      /\ \/ pc' = "flush" /\ job' = Job("quit", s)
         \/ pc' = "quit"
  BY <1>1, <1>2, EndedIsSafe
<1>4. QuitInv'
  <2>1. \A x \in Servers \ todo :
           session[x] # "open" /\ (Enabled => store.learned[x] = mem[x])
    BY <1>1 DEF QuitInv, Ending
  <2>2. Enabled' => Enabled BY <1>3 DEF Enabled
  <2>3. \A x \in Servers \ todo' :
           session'[x] # "open" /\ (Enabled' => store'.learned[x] = mem'[x])
    BY <1>1, <1>3, <2>1, <2>2
  <2>4. ~Closing' /\ ~Closed' BY <1>3 DEF Closing, Closed, Job, Writing
  <2>5. QED BY <2>3, <2>4 DEF QuitInv
<1>5. QED BY <1>3, <1>4 DEF Safe

LEMMA RecordDecisionIsSafe ==
  ASSUME StoreInv, ~damaged, store # None, NEW s \in Servers, RecordDecision(s)
  PROVE  Safe'
<1>0. Safe /\ SessionInv /\ MemoryInv BY DEF StoreInv, Safe
<1>1. /\ UNCHANGED <<disk, prior, expected, pc, store, status, mem, dirty, staged, session,
                    needs, job, todo>>
      /\ UNCHANGED <<saved, delivered, faults, imports, damaged>>
      /\ pc = "run" /\ unsaved' = TRUE
  BY DEF RecordDecision, RunOnly, runtime, Works, history
<1>2. FilesAreFine' /\ FilesInPlace' /\ SavedIsSomewhere' BY <1>0, <1>1, AfootFiles DEF Afoot
<1>3. MemoryInv' BY <1>0, <1>1 DEF MemoryInv, Enabled
<1>4. SessionInv' BY <1>0, <1>1 DEF SessionInv, Enabled, Writing
<1>5. QuitInv' BY <1>1, RunsOnQuit
<1>6. imports' = 0 => AlertInv'
  <2>1. imports' = 0 => AlertInv BY <1>0, <1>1 DEF Safe
  <2>2. QED BY <1>1, <2>1, RunAlerts
<1>7. QED BY <1>2, <1>3, <1>4, <1>5, <1>6 DEF Safe

(* An alert is reserved only when it is not recorded, so it was not given. *)
LEMMA ReserveIsSafe ==
  ASSUME StoreInv, ~damaged, store # None, NEW s \in Servers, Reserve(s)
  PROVE  Safe'
<1>0. /\ Safe /\ SessionInv /\ MemoryInv /\ store \in Documents
      /\ delivered \in [Servers -> 0..2]
  BY DEF StoreInv, Safe, TypeOK, Files
<1>1. /\ UNCHANGED <<disk, prior, expected, status, mem, dirty, staged, session, needs, todo>>
      /\ UNCHANGED <<saved, delivered, faults, imports, damaged>>
      /\ pc = "run" /\ unsaved' = TRUE /\ pc' = "flush" /\ job' = Job("reserve", s)
      /\ store' = [store EXCEPT !.fired = @ \cup {s}] /\ s \notin store.fired
  BY DEF Reserve, RunOnly, runtime, Works, history, FlushFor, Go
<1>2. /\ store' \in Documents /\ store'.fired = store.fired \cup {s}
      /\ store'.version = store.version /\ store'.valid = store.valid
      /\ store'.quarantined = store.quarantined
      /\ store'.learned = store.learned /\ store'.lineage = store.lineage
  BY <1>0, <1>1, OneFired
<1>3. store' # None BY <1>2, NoFileAssumption
<1>4. FilesAreFine' /\ FilesInPlace' /\ SavedIsSomewhere' BY <1>0, <1>1, AfootFiles DEF Afoot
<1>5. MemoryInv'
  <2>1. Fine(store) /\ expected # None /\ Covers(store, expected)
    BY <1>0 DEF MemoryInv
  <2>2. Fine(store') BY <1>2, <2>1 DEF Fine
  <2>3. Covers(store', expected) BY <1>2, <2>1 DEF Covers
  <2>4. \A x \in Servers : store'.learned[x] <= mem'[x] BY <1>0, <1>1, <1>2 DEF MemoryInv
  <2>5. Enabled' => Enabled BY <1>1 DEF Enabled
  <2>6. QED BY <1>0, <1>1, <2>2, <2>3, <2>4, <2>5, RunMemory
<1>6. SessionInv'
  <2>1. job'.kind = "reserve" BY <1>1 DEF Job
  <2>2. Enabled' <=> Enabled BY <1>1 DEF Enabled
  <2>3. QED BY <1>0, <1>1, <1>2, <2>1, <2>2 DEF SessionInv, Kinds
<1>7. QuitInv' BY <1>1, RunsOnQuit DEF Job
<1>8. ASSUME imports' = 0 PROVE AlertInv'
  <2>1. AlertInv BY <1>0, <1>1, <1>8 DEF Safe
  <2>2. job'.kind = "reserve" /\ job'.server = s BY <1>1 DEF Job
  <2>3. delivered[s] = 0
    <3>1. ~(delivered[s] > 0) BY <1>1, <2>1 DEF AlertInv
    <3>2. QED BY <1>0, <3>1
  <2>4. \A x \in Servers : delivered'[x] > 0 =>
          disk'.active # None /\ x \in disk'.active.fired /\ x \in store'.fired
    BY <1>1, <1>2, <2>1 DEF AlertInv
  <2>5. QED
    BY <1>1, <1>2, <2>1, <2>2, <2>3, <2>4 DEF AlertInv, Importing, Staging
<1>9. QED BY <1>4, <1>5, <1>6, <1>7, <1>8 DEF Safe

LEMMA DispatchIsSafe ==
  ASSUME StoreInv, ~damaged, store # None, Dispatch
  PROVE  Safe'
<1>0. /\ Safe /\ SessionInv /\ MemoryInv /\ delivered \in [Servers -> 0..2]
  BY DEF StoreInv, Safe, TypeOK
<1>1. /\ UNCHANGED <<disk, prior, store, expected, status, mem, dirty, staged, session, needs,
                    todo>>
      /\ UNCHANGED <<saved, faults, imports, damaged>>
      /\ pc = "dispatch" /\ unsaved' = TRUE /\ pc' = "flush"
      /\ job' = Job("complete", job.server)
      /\ delivered' = IF damaged \/ imports > 0 THEN delivered
                  ELSE [delivered EXCEPT ![job.server] = IF @ < 2 THEN @ + 1 ELSE @]
  BY DEF Dispatch, runtime, FlushFor, Go
<1>2. FilesAreFine' /\ FilesInPlace' /\ SavedIsSomewhere' BY <1>0, <1>1, AfootFiles DEF Afoot
<1>3. MemoryInv' BY <1>0, <1>1 DEF MemoryInv, Enabled
<1>4. job'.kind = "complete" BY <1>1 DEF Job
<1>5. SessionInv' BY <1>0, <1>1, <1>4 DEF SessionInv, Enabled, Kinds
<1>6. QuitInv' BY <1>1, <1>4, RunsOnQuit
<1>7. ASSUME imports' = 0 PROVE AlertInv'
  <2>1. AlertInv BY <1>0, <1>1, <1>7 DEF Safe
  <2>2. /\ job.kind = "reserve" /\ disk.active # None /\ job.server \in disk.active.fired
        /\ job.server \in Servers /\ delivered[job.server] = 0 /\ job.server \in store.fired
    BY <1>1, <2>1 DEF AlertInv
  <2>3. delivered' = [delivered EXCEPT ![job.server] = 1] BY <1>0, <1>1, <1>7, <2>2
  <2>4. \A x \in Servers : delivered'[x] = IF x = job.server THEN 1 ELSE delivered[x]
    BY <1>0, <2>3
  <2>5. \A x \in Servers :
          /\ delivered'[x] <= 1
          /\ delivered'[x] > 0 => disk.active # None /\ x \in disk.active.fired
                                  /\ x \in store.fired
    BY <1>1, <2>1, <2>2, <2>4 DEF AlertInv
  <2>6. QED BY <1>1, <1>4, <2>1, <2>5 DEF AlertInv, Importing, Staging
<1>8. QED BY <1>2, <1>3, <1>5, <1>6, <1>7 DEF Safe

LEMMA RunIsSafe ==
  ASSUME StoreInv, Run
  PROVE  HarmlessInv' /\ (~damaged' => Safe')
<1>0. HarmlessInv /\ PlaceInv BY DEF StoreInv
<1>1. pc \in {"run", "dispatch"}
  BY DEF Run, Begin, RetryBegin, Learn, Coalesce, End, RecordDecision, Reserve, Dispatch
<1>2. store # None BY <1>0, <1>1 DEF PlaceInv
<1>3. UNCHANGED <<disk, faults, damaged>>
  BY DEF Run, Begin, RetryBegin, Learn, Coalesce, End, RecordDecision, Reserve, Dispatch,
         RunOnly, Works, history
<1>4. pc' \in {"run", "flush"}
  BY DEF Run, Begin, RetryBegin, Learn, Coalesce, End, RecordDecision, Reserve, Dispatch,
         Ends, Persist, FlushFor, Go
<1>5. HarmlessInv' BY <1>0, <1>2, <1>3, <1>4, AfootIsHarmless DEF Afoot
<1>6. ASSUME ~damaged' PROVE Safe'
  <2>1. ~damaged BY <1>3, <1>6
  <2>2. QED
    BY <1>2, <2>1, BeginIsSafe, RetryBeginIsSafe, LearnIsSafe, CoalesceIsSafe, EndIsSafe,
       RecordDecisionIsSafe, ReserveIsSafe, DispatchIsSafe DEF Run
<1>7. QED BY <1>5, <1>6

LEMMA QuitIsSafe ==
  ASSUME StoreInv, Quit
  PROVE  HarmlessInv' /\ (~damaged' => Safe')
<1>0. HarmlessInv /\ PlaceInv BY DEF StoreInv
<1>1. /\ UNCHANGED <<disk, prior, store, expected, unsaved, status, mem, dirty, staged,
                    session, needs, job>>
      /\ UNCHANGED <<saved, delivered, faults, imports, damaged>>
      /\ \/ pc = "run" /\ pc' = "quit" /\ todo' = Servers
         \/ pc = "off" /\ pc' = "closed"
  BY DEF Quit, runtime, Go, Works, history
<1>2. pc = "off" => store = None BY <1>0 DEF PlaceInv
<1>3. HarmlessInv'
  BY <1>0, <1>1 DEF HarmlessInv, Staging, NothingPending, PendingIsValid
<1>4. ASSUME ~damaged' PROVE Safe'
  <2>1. Safe /\ SessionInv /\ MemoryInv BY <1>1, <1>4 DEF StoreInv, Safe
  <2>2. FilesAreFine' /\ FilesInPlace' /\ SavedIsSomewhere'
    BY <1>1, <2>1, AfootFiles DEF Afoot
  <2>3. MemoryInv' BY <1>1, <2>1 DEF MemoryInv, Enabled
  <2>4. SessionInv' BY <1>1, <2>1 DEF SessionInv, Enabled, Writing
  <2>5. QuitInv' BY <1>1, <1>2 DEF QuitInv, Ending, Closing, Closed, Writing
  <2>6. imports' = 0 => AlertInv'
    BY <1>1, <2>1 DEF Safe, AlertInv, Importing, Staging, Writing
  <2>7. QED BY <2>2, <2>3, <2>4, <2>5, <2>6 DEF Safe
<1>5. QED BY <1>3, <1>4

LEMMA CloseIsSafe ==
  ASSUME StoreInv, ~damaged, store # None, Close
  PROVE  Safe'
<1>0. Safe /\ SessionInv /\ MemoryInv /\ QuitInv BY DEF StoreInv, Safe
<1>1. /\ UNCHANGED <<disk, prior, store, expected, unsaved, status, mem, dirty, staged,
                    session, needs, todo>>
      /\ UNCHANGED <<saved, delivered, faults, imports, damaged>>
      /\ pc = "quit" /\ todo = {}
      /\ \/ pc' = "flush" /\ job' = Job("close", None)
         \/ pc' = "closed" /\ job' = job /\ (~unsaved \/ status = "disabled")
  BY DEF Close, RunOnly, runtime, FlushFor, Go, Works, history
<1>2. FilesAreFine' /\ FilesInPlace' /\ SavedIsSomewhere' BY <1>0, <1>1, AfootFiles DEF Afoot
<1>3. MemoryInv' BY <1>0, <1>1 DEF MemoryInv, Enabled
<1>4. pc' = "flush" => job'.kind = "close" BY <1>1 DEF Job
<1>5. SessionInv' BY <1>0, <1>1, <1>4 DEF SessionInv, Enabled, Kinds, Writing
<1>6. QuitInv'
  <2>1. \A x \in Servers : session[x] # "open" /\ (Enabled => store.learned[x] = mem[x])
    BY <1>0, <1>1 DEF QuitInv, Ending
  <2>2. Enabled' => Enabled BY <1>1 DEF Enabled
  <2>3. QED BY <1>1, <2>1, <2>2 DEF QuitInv, Closed
<1>7. imports' = 0 => AlertInv'
  <2>1. imports' = 0 => AlertInv BY <1>0, <1>1 DEF Safe
  <2>2. QED BY <1>1, <1>4, <2>1, RunAlerts
<1>8. QED BY <1>2, <1>3, <1>5, <1>6, <1>7 DEF Safe

LEMMA ShutDownIsSafe ==
  ASSUME StoreInv, ShutDown
  PROVE  HarmlessInv' /\ (~damaged' => Safe')
<1>1. CASE Quit BY <1>1, QuitIsSafe
<1>2. CASE Close \/ \E s \in Servers : QuitServer(s)
  <2>1. pc = "quit" /\ UNCHANGED <<disk, faults, damaged>>
    BY <1>2 DEF Close, QuitServer, RunOnly, Works, history
  <2>2. store # None BY <2>1 DEF StoreInv, PlaceInv
  <2>3. pc' \in {"quit", "flush", "closed"}
    BY <1>2, <2>1 DEF Close, QuitServer, Ends, Persist, FlushFor, Go
  <2>4. HarmlessInv' BY <2>1, <2>2, <2>3, AfootIsHarmless DEF Afoot, StoreInv
  <2>5. ~damaged' => Safe' BY <1>2, <2>1, <2>2, CloseIsSafe, QuitServerIsSafe
  <2>6. QED BY <2>4, <2>5
<1>3. QED BY <1>1, <1>2 DEF ShutDown

(* The writer. *)
LEMMA AfterDoes ==
  ASSUME LearnerTypes, NEW written \in BOOLEAN, After(written), store # None
  PROVE  /\ UNCHANGED <<prior, store, mem, needs, todo>>
         /\ \A x \in Servers : session'[x] = "staged" => session[x] = "staged"
         /\ \A x \in Servers : session'[x] = "open" =>
              \/ session[x] = "open"
              \/ /\ x = job.server /\ session[x] = "staged" /\ DurableAfter(x)
                 /\ job.kind \in {"session", "retry"}
         /\ \A x \in Servers : session[x] = "open" =>
              session'[x] = "open" \/ (x = job.server /\ job.kind = "session")
         /\ job.kind \notin {"session", "retry"} => session' = session
         /\ pc' \in {"run", "dispatch", "quit", "closed"}
         /\ pc' = "dispatch" => written /\ job.kind = "reserve" /\ job' = job
         /\ pc' = "quit" => job.kind = "quit"
         /\ pc' = "closed" => job.kind = "close"
<1>0. session \in [Servers -> {"none", "open", "staged"}] BY DEF LearnerTypes
<1>1. /\ UNCHANGED <<prior, store, mem, needs, todo>>
      /\ session' = CASE job.kind \in {"session", "retry"} /\ session[job.server] = "staged"
                           /\ DurableAfter(job.server) -> [session EXCEPT ![job.server] = "open"]
                     [] job.kind = "session" /\ session[job.server] = "open" /\ status' = "disabled"
                          -> [session EXCEPT ![job.server] = "none"]
                     [] OTHER -> session
      /\ pc' = CASE job.kind = "reserve" /\ written -> "dispatch"
                 [] job.kind = "quit" -> "quit"
                 [] job.kind = "close" -> "closed"
                 [] OTHER -> "run"
      /\ job' = IF job.kind = "reserve" /\ written THEN job ELSE NoJob
  BY DEF After, Go
<1>2. /\ pc' \in {"run", "dispatch", "quit", "closed"}
      /\ pc' = "dispatch" => written /\ job.kind = "reserve" /\ job' = job
      /\ pc' = "quit" => job.kind = "quit"
      /\ pc' = "closed" => job.kind = "close"
  BY <1>1
<1>3. \/ /\ session' = [session EXCEPT ![job.server] = "open"]
         /\ job.kind \in {"session", "retry"} /\ session[job.server] = "staged"
         /\ DurableAfter(job.server)
      \/ /\ session' = [session EXCEPT ![job.server] = "none"]
         /\ job.kind = "session" /\ session[job.server] = "open"
      \/ session' = session
  BY <1>1
<1>4. job.kind \notin {"session", "retry"} => session' = session BY <1>3
<1>5. ASSUME NEW x \in Servers
      PROVE  /\ session'[x] = "staged" => session[x] = "staged"
             /\ session'[x] = "open" =>
                  \/ session[x] = "open"
                  \/ /\ x = job.server /\ session[x] = "staged" /\ DurableAfter(x)
                     /\ job.kind \in {"session", "retry"}
             /\ session[x] = "open" =>
                  session'[x] = "open" \/ (x = job.server /\ job.kind = "session")
  <2>1. CASE session' = session BY <2>1
  <2>2. CASE x # job.server
    <3>1. session'[x] = session[x] BY <1>0, <1>3, <2>2
    <3>2. QED BY <3>1
  <2>3. CASE x = job.server BY <1>0, <1>3, <2>3
  <2>4. QED BY <2>1, <2>2, <2>3
<1>6. QED BY <1>1, <1>2, <1>4, <1>5

(* The job a flush was for is done, or given up. *)
LEMMA FlushEnds ==
  ASSUME StoreInv, ~damaged, pc \in Writing, store # None, disk'.active = disk.active,
         NEW written \in BOOLEAN, After(written),
         disk'.payload = disk.payload, disk'.meta = disk.meta,
         UNCHANGED <<delivered, imports>>,
         Enabled' => Enabled, unsaved' => unsaved,
         written => ~unsaved' /\ (Enabled' => disk.active = store),
         written /\ job.kind = "reserve" /\ imports = 0 => disk.active = store,
         ~written => status' # "enabled" /\ UNCHANGED <<dirty, staged>>,
         \A x \in Servers : x \in staged' => x \in staged,
         \A x \in Servers : x \notin dirty' =>
           \/ x \notin dirty \/ x \in staged
           \/ x = job.server /\ job.kind \notin {"reserve", "complete", "close"}
  PROVE  SessionInv' /\ QuitInv' /\ (imports' = 0 => AlertInv')
<1>0. /\ Safe /\ SessionInv /\ QuitInv /\ LearnerTypes /\ MemoryInv
      /\ mem \in Learned /\ needs \in Learned
  BY TypesSplit DEF StoreInv, Safe, LearnerTypes
<1>1. /\ UNCHANGED <<prior, store, mem, needs, todo>>
      /\ \A x \in Servers : session'[x] = "staged" => session[x] = "staged"
      /\ \A x \in Servers : session'[x] = "open" =>
           \/ session[x] = "open"
           \/ /\ x = job.server /\ session[x] = "staged" /\ DurableAfter(x)
              /\ job.kind \in {"session", "retry"}
      /\ \A x \in Servers : session[x] = "open" =>
           session'[x] = "open" \/ (x = job.server /\ job.kind = "session")
      /\ job.kind \notin {"session", "retry"} => session' = session
      /\ pc' \in {"run", "dispatch", "quit", "closed"}
      /\ pc' = "dispatch" => written /\ job.kind = "reserve" /\ job' = job
      /\ pc' = "quit" => job.kind = "quit"
      /\ pc' = "closed" => job.kind = "close"
  BY <1>0, AfterDoes
<1>2. /\ job.kind \in Kinds
      /\ job.kind \in {"session", "retry", "persist", "quit"} =>
           job.server \in Servers /\ store.learned[job.server] = mem[job.server]
  BY <1>0 DEF SessionInv
<1>3. SessionInv'
  <2>1. \A x \in Servers : session'[x] = "staged" => needs'[x] <= mem'[x]
    BY <1>0, <1>1 DEF SessionInv
  <2>2. \A x \in Servers : session'[x] = "open" /\ needs'[x] > 0 =>
          disk'.active # None /\ disk'.active.learned[x] >= needs'[x]
    <3>1. SUFFICES ASSUME NEW x \in Servers, session'[x] = "open", needs[x] > 0
                   PROVE  disk.active # None /\ disk.active.learned[x] >= needs[x]
      BY <1>1
    <3>2. CASE session[x] = "open" BY <1>0, <3>1, <3>2 DEF SessionInv
    <3>3. CASE session[x] # "open"
      <4>1. x = job.server /\ session[x] = "staged" /\ status' = "enabled"
            /\ job.kind \in {"session", "retry"}
        BY <1>1, <3>1, <3>3 DEF DurableAfter
      <4>2. written /\ Enabled' BY <4>1 DEF Enabled
      <4>3. disk.active = store /\ disk.active # None BY <4>2
      <4>4. store.learned[x] = mem[x] BY <1>2, <4>1
      <4>5. needs[x] <= mem[x] BY <1>0, <4>1 DEF SessionInv
      <4>6. needs[x] \in Int /\ mem[x] \in Int BY <1>0, BoundsAssumption DEF Learned
      <4>7. QED BY <4>3, <4>4, <4>5, <4>6
    <3>4. QED BY <3>2, <3>3
  <2>3. Enabled' => \A x \in Servers : session'[x] # "open" /\ (x \notin dirty' \/ x \in staged')
          => store'.learned[x] = mem'[x]
    <3>1. SUFFICES ASSUME Enabled, NEW x \in Servers, session'[x] # "open",
                          x \notin dirty' \/ x \in staged'
                   PROVE  store.learned[x] = mem[x]
      BY <1>1
    <3>2. CASE x = job.server /\ job.kind \in {"session", "retry", "persist", "quit"}
      BY <1>2, <3>2
    <3>3. CASE ~(x = job.server /\ job.kind \in {"session", "retry", "persist", "quit"})
      <4>1. session[x] # "open" BY <1>1, <3>1, <3>3
      <4>2. ~(x = job.server /\ job.kind \notin {"reserve", "complete", "close"})
        BY <1>2, <3>3 DEF Kinds
      <4>3. x \notin dirty \/ x \in staged BY <3>1, <4>2
      <4>4. QED BY <1>0, <3>1, <4>1, <4>3 DEF SessionInv
    <3>4. QED BY <3>2, <3>3
  <2>4. pc' \notin Writing BY <1>1 DEF Writing
  <2>5. QED BY <2>1, <2>2, <2>3, <2>4 DEF SessionInv
<1>4. QuitInv'
  <2>1. SUFFICES ASSUME pc' \in {"quit", "closed"} PROVE QuitInv'
    BY <1>1 DEF QuitInv, Ending, Closing, Closed, Writing
  <2>2. job.kind \in {"quit", "close"} /\ (pc' = "closed" => job.kind = "close")
    BY <1>1, <2>1
  <2>3. Ending /\ (pc' = "closed" => Closing) BY <2>2 DEF Ending, Closing
  <2>4. session' = session BY <1>1, <2>2
  <2>5. \A x \in Servers \ todo' :
           session'[x] # "open" /\ (Enabled' => store'.learned[x] = mem'[x])
    BY <1>0, <1>1, <2>3, <2>4 DEF QuitInv
  <2>6. pc' = "closed" => todo' = {} BY <1>0, <1>1, <2>3 DEF QuitInv
  <2>7. status' = "enabled" => ~unsaved' OBVIOUS
  <2>8. ~Closing' BY <1>1 DEF Closing, Writing
  <2>9. QED BY <2>5, <2>6, <2>7, <2>8 DEF QuitInv, Closed
<1>5. ASSUME imports' = 0 PROVE AlertInv'
  <2>1. AlertInv BY <1>0, <1>5 DEF Safe
  <2>2. pc' = "dispatch" =>
          /\ job'.kind = "reserve" /\ disk.active # None /\ disk.active = store
          /\ job'.server \in Servers /\ delivered[job'.server] = 0
          /\ job'.server \in store.fired
    <3>1. SUFFICES ASSUME pc' = "dispatch"
                   PROVE  /\ job.kind = "reserve" /\ disk.active # None /\ disk.active = store
                          /\ job.server \in Servers /\ delivered[job.server] = 0
                          /\ job.server \in store.fired
      <4>1. pc' = "dispatch" => job' = job BY <1>1
      <4>2. QED BY <4>1
    <3>2. written /\ job.kind = "reserve" BY <1>1, <3>1
    <3>3. imports = 0 BY <1>5
    <3>4. disk.active = store BY <3>2, <3>3
    <3>5. job.server \in Servers /\ delivered[job.server] = 0 /\ job.server \in store.fired
      BY <2>1, <3>2 DEF AlertInv
    <3>6. QED BY <3>2, <3>4, <3>5
  <2>3. pc' \notin Importing \cup Staging /\ pc' \notin Writing
    BY <1>1 DEF Importing, Staging, Writing
  <2>4. QED BY <1>1, <2>1, <2>2, <2>3 DEF AlertInv
<1>6. QED BY <1>3, <1>4, <1>5

LEMMA SucceedsIsSafe ==
  ASSUME StoreInv, ~damaged, pc \in {"flush", "verify"}, store # None, Succeeds,
         pc = "flush" => ~unsaved, UNCHANGED <<delivered, imports>>
  PROVE  MemoryInv' /\ SessionInv' /\ QuitInv' /\ (imports' = 0 => AlertInv')
<1>0. /\ Safe /\ MemoryInv /\ LearnerTypes /\ StoreTypes /\ store \in Documents
      /\ HarmlessInv /\ status \in Statuses
  BY TypesSplit DEF StoreInv, Safe, StoreTypes, Files, LearnerTypes
<1>1. /\ expected' = store /\ unsaved' = FALSE /\ disk' = disk /\ staged' = {}
      /\ dirty' = dirty \ (staged \cup (IF job.kind \in {"reserve", "complete", "close"} THEN {}
                                        ELSE {job.server}))
      /\ status' = IF status = "degraded" THEN "enabled" ELSE status
      /\ After(TRUE)
  BY DEF Succeeds
<1>2. UNCHANGED <<prior, store, mem>> /\ pc' \in {"run", "dispatch", "quit", "closed"}
  BY <1>0, <1>1, AfterDoes
<1>3. Enabled' => Enabled BY <1>1 DEF Enabled
<1>4. pc = "verify" => disk.active = store /\ unsaved BY <1>0 DEF MemoryInv
<1>5. Enabled => disk.active = store BY <1>0, <1>4 DEF MemoryInv
<1>6. MemoryInv'
  <2>1. Fine(store) /\ \A s \in Servers : store.learned[s] <= mem[s] BY <1>0 DEF MemoryInv
  <2>2. Covers(store, store) BY <1>0, CoversItself
  <2>3. QED BY <1>1, <1>2, <1>3, <1>5, <2>1, <2>2 DEF MemoryInv
<1>7. pc \in Writing BY DEF Writing
<1>8. job.kind = "reserve" /\ imports = 0 => disk.active = store
  <2>1. imports = 0 => AlertInv BY <1>0 DEF Safe
  <2>2. job.kind = "reserve" /\ imports = 0 => unsaved BY <1>7, <2>1 DEF AlertInv
  <2>3. QED BY <1>4, <2>2
<1>9. \A x \in Servers : x \notin dirty' =>
           \/ x \notin dirty \/ x \in staged
           \/ x = job.server /\ job.kind \notin {"reserve", "complete", "close"}
  BY <1>1
<1>10. unsaved' => unsaved BY <1>1
<1>11. SessionInv' /\ QuitInv' /\ (imports' = 0 => AlertInv')
  BY <1>1, <1>3, <1>5, <1>7, <1>8, <1>9, <1>10, FlushEnds
<1>12. QED BY <1>6, <1>11

LEMMA FailsIsSafe ==
  ASSUME StoreInv, ~damaged, pc \in Writing, store # None, disk'.active = disk.active,
         disk'.payload = disk.payload, disk'.meta = disk.meta,
         NEW new \in {"degraded", "disabled"}, FailsWith(new),
         UNCHANGED <<delivered, imports>>,
         new = "disabled" \/ disk.active = expected \/ ~Enabled
  PROVE  MemoryInv' /\ SessionInv' /\ QuitInv' /\ (imports' = 0 => AlertInv')
<1>0. Safe /\ MemoryInv /\ LearnerTypes /\ status \in Statuses
  BY TypesSplit DEF StoreInv, Safe, LearnerTypes
<1>1. /\ status' = IF status = "disabled" THEN status ELSE new
      /\ UNCHANGED <<expected, unsaved, dirty, staged>>
      /\ After(FALSE)
  BY DEF FailsWith
<1>2. UNCHANGED <<prior, store, mem>> /\ pc' \in {"run", "dispatch", "quit", "closed"}
  BY <1>0, <1>1, AfterDoes
<1>3. Enabled' => Enabled /\ new = "degraded" BY <1>0, <1>1 DEF Enabled, Statuses
<1>4. MemoryInv'
  <2>1. Enabled' => disk.active = expected BY <1>3
  <2>2. QED BY <1>0, <1>1, <1>2, <2>1 DEF MemoryInv
<1>5. status' # "enabled" BY <1>1
<1>6. SessionInv' /\ QuitInv' /\ (imports' = 0 => AlertInv')
  BY <1>1, <1>3, <1>5, FlushEnds
<1>7. QED BY <1>4, <1>6

LEMMA WriteIsSafe ==
  ASSUME StoreInv, Write
  PROVE  HarmlessInv' /\ (~damaged' => Safe')
<1>0. /\ HarmlessInv /\ TypeOK /\ StoreTypes /\ LearnerTypes /\ HistoryTypes /\ disk \in Disks
      /\ disk.active \in Files /\ store \in Files /\ faults \in Nat
      /\ "disabled" \in {"degraded", "disabled"} /\ "degraded" \in {"degraded", "disabled"}
  BY TypesSplit, FilesOf, BoundsAssumption DEF StoreInv, TypeOK
<1>1. pc \in Writing BY DEF Write, FlushBegins, RotateGood, ReplaceActive, Verify, Writing
<1>2. store # None /\ store \in Documents BY <1>0, <1>1 DEF StoreInv, PlaceInv, Files
<1>3. /\ UNCHANGED <<delivered, imports, damaged>>
      /\ faults' = 0 => faults = 0
      /\ damaged => faults' > 0
  <2>1. UNCHANGED <<delivered, imports, damaged>>
    BY DEF Write, FlushBegins, RotateGood, ReplaceActive, Verify, Works, history, Fault
  <2>2. faults' = faults \/ faults' = faults + 1
    BY DEF Write, FlushBegins, RotateGood, ReplaceActive, Verify, Works, history, Fault
  <2>3. faults' = 0 => faults = 0 BY <1>0, <2>2
  <2>4. damaged => faults > 0 BY <1>0 DEF HarmlessInv
  <2>5. faults > 0 => faults' > 0 BY <1>0, <2>2
  <2>6. QED BY <2>1, <2>3, <2>4, <2>5
<1>4. /\ disk'.payload = disk.payload /\ disk'.meta = disk.meta /\ disk'.kept = disk.kept
      /\ disk'.active \in {disk.active, store}
      /\ disk'.active # disk.active => pc = "write" /\ pc' = "verify" /\ disk'.active = store
  <2>1. \/ disk' = disk \/ Set("good", disk.active)
        \/ Set("active", store) /\ pc = "write" /\ pc' = "verify"
    BY DEF Write, FlushBegins, RotateGood, ReplaceActive, Verify, Succeeds, Go
  <2>2. QED BY <1>0, <2>1, SetFile
<1>5. prior' = prior /\ store' = store /\ pc' \in Writing \cup Afoot
  <2>1. CASE Succeeds BY <1>0, <1>2, <2>1, AfterDoes DEF Succeeds, Afoot
  <2>2. CASE FailsWith("disabled") \/ FailsWith("degraded")
    BY <1>0, <1>2, <2>2, AfterDoes DEF FailsWith, Afoot
  <2>3. CASE ~Succeeds /\ ~FailsWith("disabled") /\ ~FailsWith("degraded")
    BY <2>3 DEF Write, FlushBegins, RotateGood, ReplaceActive, Verify, Go, Writing
  <2>4. QED BY <2>1, <2>2, <2>3
<1>6. HarmlessInv'
  <2>1. pc' \notin {"off", "rollback", "migrate_rollback", "stage_undo", "recover"}
        /\ pc' \notin Staging /\ pc' \notin {"import_good", "install"}
    BY <1>5 DEF Writing, Afoot, Staging
  <2>2. faults = 0 => disk.active # None BY <1>0, <1>2 DEF HarmlessInv
  <2>3. faults' = 0 => disk'.active # None BY <1>2, <1>3, <1>4, <2>2
  <2>4. damaged' => faults' > 0 BY <1>3
  <2>5. QED BY <2>1, <2>3, <2>4 DEF HarmlessInv
<1>7. ASSUME ~damaged' PROVE Safe'
  <2>0. /\ ~damaged /\ Safe /\ MemoryInv /\ SessionInv
        /\ Fine(store) /\ Covers(store, expected) /\ expected # None
    BY <1>2, <1>3, <1>7 DEF StoreInv, Safe, MemoryInv
  <2>1. FilesAreFine' BY <1>2, <1>4, <1>5, <2>0 DEF Safe, FilesAreFine, FineOrNone
  <2>2. FilesInPlace' BY <1>5 DEF FilesInPlace, Writing, Afoot
  <2>3. ASSUME pc = "write" PROVE disk.active = expected /\ unsaved
    BY <2>0, <2>3 DEF MemoryInv
  <2>4. expected \in Documents BY <1>0, <2>0 DEF StoreTypes, Files
  <2>5. SavedIsSomewhere'
    <3>1. \A d \in saved' : d \in saved \/ (d = store /\ disk'.active = store)
      <4>1. CASE saved' = saved BY <4>1
      <4>2. CASE saved' # saved
        <5>1. Verify /\ Succeeds /\ saved' = With(saved, store)
          BY <4>2 DEF Write, FlushBegins, RotateGood, ReplaceActive, Verify, Works, history, Fault
        <5>2. disk' = disk /\ disk.active = store
          BY <2>0, <5>1 DEF Verify, Succeeds, MemoryInv
        <5>3. QED BY <5>1, <5>2 DEF With
      <4>3. QED BY <4>1, <4>2
    <3>2. ASSUME NEW d \in saved' PROVE (Kept(d) \/ Shown(d))'
      <4>1. CASE d = store /\ disk'.active = store
        <5>1. store.valid /\ Covers(store, store) BY <1>2, <2>0, CoversItself DEF Fine
        <5>2. QED BY <1>2, <4>1, <5>1 DEF Shown
      <4>2. CASE d \in saved
        <5>1. Kept(d) \/ Shown(d) BY <2>0, <4>2 DEF Safe, SavedIsSomewhere
        <5>2. d \in Documents BY <1>0, <4>2 DEF TypeOK
        <5>3. CASE disk'.active = disk.active BY <1>4, <5>1, <5>3 DEF Kept, Shown
        <5>4. CASE disk'.active # disk.active
          <6>1. disk.active = expected /\ disk'.active = store BY <1>4, <2>3, <5>4
          <6>2. CASE Kept(d) BY <1>4, <6>2 DEF Kept
          <6>3. CASE Shown(d)
            <7>1. Covers(expected, d) BY <6>1, <6>3 DEF Shown
            <7>2. Covers(store, d) BY <1>2, <2>0, <2>4, <5>2, <7>1, CoversOn
            <7>3. store.valid BY <2>0 DEF Fine
            <7>4. QED BY <1>2, <6>1, <7>2, <7>3 DEF Shown
          <6>4. QED BY <5>1, <6>2, <6>3
        <5>5. QED BY <5>3, <5>4
      <4>3. QED BY <3>1, <4>1, <4>2
    <3>3. pc' \notin Replacing BY <1>5 DEF Replacing, Importing, Writing, Afoot
    <3>4. QED BY <3>2, <3>3 DEF SavedIsSomewhere
  <2>6. ASSUME Succeeds, pc \in {"flush", "verify"}, pc = "flush" => ~unsaved
        PROVE  MemoryInv' /\ SessionInv' /\ QuitInv' /\ (imports' = 0 => AlertInv')
    BY <1>2, <1>3, <2>0, <2>6, SucceedsIsSafe
  <2>7. ASSUME disk'.active = disk.active, FailsWith("disabled")
        PROVE  MemoryInv' /\ SessionInv' /\ QuitInv' /\ (imports' = 0 => AlertInv')
    BY <1>0, <1>1, <1>2, <1>3, <1>4, <2>0, <2>7, FailsIsSafe
  <2>8. ASSUME disk'.active = disk.active, FailsWith("degraded"), pc \in {"write_good", "write"}
        PROVE  MemoryInv' /\ SessionInv' /\ QuitInv' /\ (imports' = 0 => AlertInv')
    <3>1. disk.active = expected BY <2>0, <2>8 DEF MemoryInv
    <3>2. QED BY <1>0, <1>1, <1>2, <1>3, <1>4, <2>0, <2>8, <3>1, FailsIsSafe
  <2>9. ASSUME UNCHANGED <<prior, store, expected, unsaved, runtime, job, todo>>,
               \/ /\ pc = "flush" /\ pc' = "write_good" /\ unsaved /\ disk.active = expected
                  /\ disk'.active = disk.active
               \/ pc = "write_good" /\ pc' = "write" /\ disk'.active = disk.active
               \/ pc = "write" /\ pc' = "verify" /\ disk'.active = store
        PROVE  MemoryInv' /\ SessionInv' /\ QuitInv' /\ (imports' = 0 => AlertInv')
    <3>1. UNCHANGED <<store, expected, unsaved, status, mem, dirty, staged, session, needs, job,
                      todo>>
      BY <2>9 DEF runtime
    <3>2. disk.active = expected /\ unsaved BY <2>0, <2>9 DEF MemoryInv
    <3>3. MemoryInv' BY <2>0, <2>9, <3>1, <3>2 DEF MemoryInv, Enabled
    <3>4. \A s \in Servers : expected.learned[s] <= store.learned[s] BY <2>0 DEF Covers
    <3>5. SessionInv'
      <4>1. \A s \in Servers : session[s] = "open" /\ needs[s] > 0 =>
              disk'.active # None /\ disk'.active.learned[s] >= needs[s]
        <5>1. SUFFICES ASSUME NEW s \in Servers, session[s] = "open", needs[s] > 0
                       PROVE  disk'.active # None /\ disk'.active.learned[s] >= needs[s]
          OBVIOUS
        <5>2. disk.active.learned[s] >= needs[s] BY <2>0, <5>1 DEF SessionInv
        <5>3. /\ store.learned[s] \in Nat /\ expected.learned[s] \in Nat /\ needs[s] \in Nat
          BY <1>0, <1>2, <2>4, BoundsAssumption DEF Documents, Learned, LearnerTypes
        <5>4. disk'.active \in {expected, store} BY <2>9, <3>2
        <5>5. QED BY <1>2, <2>0, <3>2, <3>4, <5>2, <5>3, <5>4
      <4>2. Enabled' <=> Enabled BY <3>1 DEF Enabled
      <4>3. QED BY <1>1, <2>0, <3>1, <4>1, <4>2 DEF SessionInv
    <3>6. QuitInv'
      <4>1. pc' \in Writing BY <2>9 DEF Writing
      <4>2. Enabled' <=> Enabled BY <3>1 DEF Enabled
      <4>3. Ending' => Ending BY <1>1, <2>9, <3>1, <4>1 DEF Ending, Closing, Closed
      <4>4. Closing' => Closing BY <1>1, <3>1 DEF Closing
      <4>5. ~Closed' BY <2>9 DEF Closed
      <4>6. QED BY <2>0, <3>1, <4>2, <4>3, <4>4, <4>5 DEF Safe, QuitInv
    <3>7. ASSUME imports' = 0 PROVE AlertInv'
      <4>1. AlertInv BY <1>3, <2>0, <3>7 DEF Safe
      <4>2. \A s \in Servers : delivered'[s] > 0 =>
              disk'.active # None /\ s \in disk'.active.fired /\ s \in store'.fired
        BY <1>2, <1>3, <2>9, <3>1, <4>1 DEF AlertInv
      <4>3. pc' \in Writing BY <2>9 DEF Writing
      <4>4. QED
        BY <1>1, <1>3, <1>4, <2>9, <3>1, <3>2, <4>1, <4>2, <4>3 DEF AlertInv, Importing, Staging,
             Writing
    <3>8. QED BY <3>3, <3>5, <3>6, <3>7
  <2>10. MemoryInv' /\ SessionInv' /\ QuitInv' /\ (imports' = 0 => AlertInv')
    <3>1. CASE FlushBegins
      <4>1. unsaved \in BOOLEAN BY <1>0 DEF StoreTypes
      <4>2. \/ ~unsaved /\ Succeeds /\ pc = "flush"
            \/ FailsWith("disabled") /\ disk' = disk
            \/ /\ UNCHANGED <<disk, prior, store, expected, unsaved, runtime, job, todo>>
               /\ pc = "flush" /\ pc' = "write_good" /\ unsaved /\ disk.active = expected
        BY <3>1, <4>1 DEF FlushBegins, Go
      <4>3. QED BY <2>6, <2>7, <2>9, <4>2
    <3>2. CASE RotateGood
      <4>1. disk'.active = disk.active BY <1>4, <3>2 DEF RotateGood
      <4>2. pc = "write_good" BY <3>2 DEF RotateGood
      <4>3. \/ FailsWith("degraded")
            \/ /\ UNCHANGED <<prior, store, expected, unsaved, runtime, job, todo>>
               /\ pc' = "write"
        BY <3>2 DEF RotateGood, Go
      <4>4. QED BY <2>8, <2>9, <4>1, <4>2, <4>3
    <3>3. CASE ReplaceActive
      <4>1. pc = "write" BY <3>3 DEF ReplaceActive
      <4>2. \/ FailsWith("degraded") /\ disk' = disk
            \/ /\ UNCHANGED <<prior, store, expected, unsaved, runtime, job, todo>>
               /\ pc' = "verify" /\ Set("active", store)
        BY <3>3 DEF ReplaceActive, Go
      <4>3. Set("active", store) => disk'.active = store BY <1>0, SetFile
      <4>4. QED BY <2>8, <2>9, <4>1, <4>2, <4>3
    <3>4. CASE Verify
      <4>1. pc = "verify" BY <3>4 DEF Verify
      <4>2. Succeeds \/ (FailsWith("disabled") /\ disk' = disk) BY <3>4 DEF Verify
      <4>3. QED BY <2>6, <2>7, <4>1, <4>2
    <3>5. QED BY <3>1, <3>2, <3>3, <3>4 DEF Write
  <2>11. QED BY <2>1, <2>2, <2>5, <2>10 DEF Safe
<1>8. QED BY <1>6, <1>7

(* A database is staged, or is not any more. *)
LEMMA ImportIsSafe ==
  ASSUME StoreInv, Import
  PROVE  HarmlessInv' /\ (~damaged' => Safe')
<1>0. /\ HarmlessInv /\ PlaceInv /\ TypeOK /\ HistoryTypes /\ disk \in Disks /\ prior \in Files
      /\ imports \in 0..MaxImports /\ faults \in Nat /\ None \in Files
  BY TypesSplit, BoundsAssumption DEF StoreInv, TypeOK, Files
<1>1. /\ disk'.active = disk.active /\ disk'.kept = disk.kept
      /\ ImportStep /\ pc' \in Staging \cup {Back} /\ UNCHANGED <<saved, damaged>>
  BY <1>0, ImportDoes
<1>2. UNCHANGED <<store, expected, unsaved, status, mem, dirty, staged, session, needs, job, todo>>
  BY <1>1, ImportStepRests, TypesSplit DEF StoreInv
<1>3. pc \in Staging \cup {"run", "off"}
  BY DEF Import, StageImport, StagePayload, StageMeta, StageUndo, CancelImport, CancelMeta,
         AtRest, Staging
<1>4. /\ faults' \in {faults, faults + 1}
      /\ pc' = "stage_undo" => faults' = faults + 1
  BY DEF Import, StageImport, StagePayload, StageMeta, StageUndo, CancelImport, CancelMeta,
         Works, history, Fails, Fault, Go, Back
<1>5. HarmlessInv'
  <2>1. damaged' => faults' > 0
    <3>1. damaged => faults > 0 BY <1>0 DEF HarmlessInv
    <3>2. faults > 0 => faults' > 0 BY <1>0, <1>4
    <3>3. QED BY <1>1, <3>1, <3>2
  <2>2. faults' = 0 => faults = 0 /\ pc' # "stage_undo" BY <1>0, <1>4
  <2>3. ASSUME faults = 0 PROVE store # None /\ disk.active # None
    <3>1. pc \in Staging => store # None BY <1>0, <2>3 DEF HarmlessInv
    <3>2. pc # "off" BY <1>0, <2>3 DEF HarmlessInv
    <3>3. pc = "run" => store # None BY <1>0 DEF PlaceInv
    <3>4. store # None BY <1>3, <3>1, <3>2, <3>3
    <3>5. QED BY <1>0, <2>3, <3>4 DEF HarmlessInv
  <2>4. faults' = 0 => pc' \in (Staging \ {"stage_undo"}) \cup {"run"}
    BY <1>1, <2>2, <2>3 DEF Back
  <2>5. QED
    BY <1>1, <1>2, <2>1, <2>2, <2>3, <2>4 DEF HarmlessInv, Staging
<1>6. ASSUME ~damaged' PROVE Safe'
  <2>0. /\ Safe /\ MemoryInv /\ SessionInv /\ FilesAreFine
        /\ store # None => Back = "run"
        /\ pc' \in Staging \cup {"run", "off"}
    BY <1>1, <1>6 DEF StoreInv, Safe, Back
  <2>1. FilesAreFine'
    <3>1. Imported \in Documents /\ Fine(Imported)
      BY <1>0, NewDocument DEF Imported, Lineages, Fine, New
    <3>2. Imported \in Files BY <3>1 DEF Files
    <3>3. disk'.payload \in {disk.payload, prior, Imported, None}
      <4>1. StageImport => disk'.payload = disk.payload BY DEF StageImport
      <4>2. StagePayload => disk'.payload \in {disk.payload, Imported}
        BY <1>0, <3>2, SetFile DEF StagePayload, Fails
      <4>3. StageMeta => disk'.payload = disk.payload
        BY <1>0, <3>2, SetFile DEF StageMeta, Fails
      <4>4. StageUndo => disk'.payload = prior BY <1>0 DEF StageUndo, Disks
      <4>5. CancelImport => disk'.payload = None BY <1>0, SetFile DEF CancelImport
      <4>6. CancelMeta => disk'.payload = disk.payload BY <1>0, SetFile DEF CancelMeta
      <4>7. QED BY <4>1, <4>2, <4>3, <4>4, <4>5, <4>6 DEF Import
    <3>4. prior' \in {prior, disk.payload, None}
      BY DEF Import, StageImport, StagePayload, StageMeta, StageUndo, CancelImport, CancelMeta
    <3>5. QED BY <1>1, <2>0, <3>1, <3>3, <3>4 DEF FilesAreFine, FineOrNone
  <2>2. FilesInPlace' BY <2>0 DEF FilesInPlace, Staging
  <2>3. SavedIsSomewhere'
    <3>1. \A d \in saved : Kept(d) \/ Shown(d) BY <2>0 DEF Safe, SavedIsSomewhere
    <3>2. \A d \in saved' : (Kept(d) \/ Shown(d))' BY <1>1, <3>1 DEF Kept, Shown
    <3>3. pc' \notin Replacing BY <2>0 DEF Replacing, Importing, Staging
    <3>4. QED BY <3>2, <3>3 DEF SavedIsSomewhere
  <2>4. MemoryInv'
    <3>1. pc # "verify" /\ pc' \notin {"write_good", "write", "verify"}
      BY <1>3, <2>0 DEF Staging
    <3>2. QED BY <1>1, <1>2, <2>0, <3>1 DEF MemoryInv, Enabled
  <2>5. SessionInv'
    <3>1. pc' \notin Writing BY <2>0 DEF Writing, Staging
    <3>2. QED BY <1>1, <1>2, <2>0, <3>1 DEF SessionInv, Enabled
  <2>6. QuitInv' BY <2>0 DEF QuitInv, Ending, Closing, Closed, Writing, Staging
  <2>7. imports' # 0
    <3>1. CASE StageImport
      <4>1. imports' = imports + 1 BY <3>1 DEF StageImport
      <4>2. QED BY <1>0, <4>1
    <3>2. CASE CancelImport
      <4>1. imports' = imports /\ ~NothingPending BY <3>2 DEF CancelImport, Works, history
      <4>2. QED BY <2>0, <4>1 DEF Safe, AlertInv, NothingPending
    <3>3. CASE StagePayload \/ StageMeta \/ StageUndo \/ CancelMeta
      <4>1. imports' = imports /\ pc \in Staging
        BY <3>3 DEF StagePayload, StageMeta, StageUndo, CancelMeta, Works, history, Fails, Fault,
                    Staging
      <4>2. QED BY <2>0, <4>1 DEF Safe, AlertInv
    <3>4. QED BY <3>1, <3>2, <3>3 DEF Import
  <2>8. QED BY <2>1, <2>2, <2>3, <2>4, <2>5, <2>6, <2>7 DEF Safe
<1>7. QED BY <1>5, <1>6

LEMMA InitIsSafe ==
  ASSUME Init
  PROVE  StoreInv
<1>1. /\ pc = "crashed" /\ prior = None /\ store = None /\ unsaved = FALSE
      /\ session = [s \in Servers |-> "none"] /\ saved = {disk.active} \ {None}
      /\ delivered = Nothing /\ faults = 0 /\ imports = 0 /\ damaged = FALSE
  BY DEF Init
<1>2. /\ disk.payload = None /\ disk.meta = None
      /\ disk.active # None => disk.active \in Documents /\ Fine(disk.active)
  BY FirstDisk DEF Fine
<1>3. TypeOK /\ PlaceInv BY InitTypes
<1>4. HarmlessInv BY <1>1, <1>2 DEF HarmlessInv, NothingPending, Staging
<1>5. FilesAreFine BY <1>1, <1>2 DEF FilesAreFine, FineOrNone
<1>6. FilesInPlace BY <1>1 DEF FilesInPlace
<1>7. SavedIsSomewhere
  <2>1. ASSUME NEW d \in saved PROVE Shown(d)
    <3>1. d = disk.active /\ d # None BY <1>1, <2>1
    <3>2. Covers(d, d) /\ d.valid BY <1>2, <3>1, CoversItself DEF Fine
    <3>3. QED BY <3>1, <3>2 DEF Shown
  <2>2. pc \notin Replacing BY <1>1 DEF Replacing, Importing
  <2>3. QED BY <2>1, <2>2 DEF SavedIsSomewhere
<1>8. MemoryInv BY <1>1 DEF MemoryInv
<1>9. SessionInv BY <1>1 DEF SessionInv, Writing
<1>10. QuitInv BY <1>1 DEF QuitInv, Ending, Closing, Closed, Writing
<1>11. AlertInv
  <2>1. \A s \in Servers : delivered[s] = 0 BY <1>1 DEF Nothing
  <2>2. QED BY <1>1, <1>2, <2>1 DEF AlertInv, Importing, Staging, Writing
<1>12. QED
  BY <1>3, <1>4, <1>5, <1>6, <1>7, <1>8, <1>9, <1>10, <1>11 DEF StoreInv, Safe

LEMMA StoreInvKept ==
  ASSUME StoreInv, Next
  PROVE  StoreInv'
<1>1. TypeOK' /\ PlaceInv' BY TypesKept DEF StoreInv
<1>2. HarmlessInv' /\ (~damaged' => Safe')
  <2>1. CASE Start \/ Crash BY <2>1, StopIsSafe
  <2>2. CASE ImportAtStart BY <2>2, ImportAtStartIsSafe
  <2>3. CASE PrepareAtStart BY <2>3, PrepareAtStartIsSafe
  <2>4. CASE OpenAtStart BY <2>4, OpenIsSafe
  <2>5. CASE Run BY <2>5, RunIsSafe
  <2>6. CASE Write BY <2>6, WriteIsSafe
  <2>7. CASE ShutDown BY <2>7, ShutDownIsSafe
  <2>8. CASE Import BY <2>8, ImportIsSafe
  <2>9. CASE Damage
    <3>1. HistoryTypes /\ Damaged BY <2>9, TypesSplit DEF Damage, StoreInv
    <3>2. damaged' /\ faults' > 0 BY <3>1, DamagedTypes
    <3>3. QED BY <3>2 DEF HarmlessInv
  <2>10. QED
    BY <2>1, <2>2, <2>3, <2>4, <2>5, <2>6, <2>7, <2>8, <2>9 DEF Next, Step
<1>3. QED BY <1>1, <1>2 DEF StoreInv

LEMMA StoreInvRests ==
  ASSUME StoreInv, UNCHANGED vars
  PROVE  StoreInv'
<1>1. UNCHANGED <<disk, pc, prior, store, expected, unsaved, status, mem, dirty, staged,
                  session, needs, job, todo, saved, delivered, faults, imports, damaged,
                  monitored>>
  BY DEF vars, memory, runtime, history
<1>2. TypeOK' BY <1>1 DEF StoreInv, TypeOK
<1>3. PlaceInv' BY <1>1 DEF StoreInv, PlaceInv
<1>4. HarmlessInv' BY <1>1 DEF StoreInv, HarmlessInv, NothingPending, PendingIsValid
<1>5. ASSUME ~damaged' PROVE Safe'
  <2>1. Safe BY <1>1, <1>5 DEF StoreInv
  <2>2. FilesAreFine' BY <1>1, <2>1 DEF Safe, FilesAreFine, FineOrNone
  <2>3. FilesInPlace' BY <1>1, <2>1 DEF Safe, FilesInPlace
  <2>4. SavedIsSomewhere' BY <1>1, <2>1, DiskRests DEF Safe
  <2>5. MemoryInv' BY <1>1, <2>1 DEF Safe, MemoryInv, Enabled
  <2>6. SessionInv' BY <1>1, <2>1 DEF Safe, SessionInv, Enabled
  <2>7. QuitInv' BY <1>1, <2>1 DEF Safe, QuitInv, Ending, Closing, Closed, Enabled
  <2>8. imports' = 0 => AlertInv' BY <1>1, <2>1 DEF Safe, AlertInv
  <2>9. QED BY <2>2, <2>3, <2>4, <2>5, <2>6, <2>7, <2>8 DEF Safe
<1>6. QED BY <1>2, <1>3, <1>4, <1>5 DEF StoreInv

(* The invariant of the learner's files holds whatever crashes and fails:
   _install_atomic_schema4 and the steps of a start and of an import leave
   every file and the memory in a state the next step can rely on.        *)
THEOREM StoreInvariant == Spec => []StoreInv
<1>1. Init => StoreInv BY InitIsSafe
<1>2. StoreInv /\ [Next]_vars => StoreInv' BY StoreInvKept, StoreInvRests
<1>3. QED BY <1>1, <1>2, PTL DEF Spec

(* Whatever was written and verified is still in the database, in its last
   known good copy or in a copy that was preserved before an import, a
   migration or a recovery replaced it.                                   *)
THEOREM SavedStays == Spec => []NothingSavedIsLost
<1>1. StoreInv => NothingSavedIsLost
  <2>1. SUFFICES ASSUME StoreInv, ~damaged, NEW d \in saved
                 PROVE  \E f \in Present : f.valid /\ Covers(f, d)
    BY DEF NothingSavedIsLost
  <2>2. disk \in Disks BY <2>1 DEF StoreInv, TypeOK
  <2>3. Kept(d) \/ Shown(d) BY <2>1 DEF StoreInv, Safe, SavedIsSomewhere
  <2>4. CASE Kept(d)
    <3>1. PICK f \in disk.kept : f.valid /\ Covers(f, d) BY <2>4 DEF Kept
    <3>2. f # None BY <2>2, <3>1, FilesOf, NoFileAssumption
    <3>3. f \in Present BY <3>1, <3>2 DEF Present
    <3>4. QED BY <3>1, <3>3
  <2>5. CASE Shown(d)
    <3>1. disk.active \in Present BY <2>5 DEF Shown, Present
    <3>2. QED BY <2>5, <3>1 DEF Shown
  <2>6. QED BY <2>3, <2>4, <2>5
<1>2. QED BY <1>1, StoreInvariant, PTL

(* dispatch_authority_consumer_action gives the alert of an event at most
   once: a reservation is on disk before the alert is given, and no crash,
   failed write or migration forgets one.                                 *)
THEOREM AlertsAreGivenOnce == Spec => []DeliveredAtMostOnce
<1>1. StoreInv => DeliveredAtMostOnce
  BY DEF StoreInv, Safe, AlertInv, DeliveredAtMostOnce
<1>2. QED BY <1>1, StoreInvariant, PTL

(* A session that is exposed after a reboot has the closure of the episode
   before it on disk, and a launcher that has ended in order with the
   learner enabled has written all it has learned.                        *)
THEOREM WhatIsLearnedIsDurable == Spec => []LearnedIsDurable
<1>1. StoreInv => LearnedIsDurable
  <2>1. SUFFICES ASSUME StoreInv, ~damaged PROVE LearnedIsDurable
    BY DEF LearnedIsDurable
  <2>2. /\ MemoryInv /\ SessionInv /\ QuitInv /\ TypeOK /\ PlaceInv
    BY <2>1 DEF StoreInv, Safe
  <2>3. \A s \in Servers :
          session[s] = "open" /\ needs[s] > 0 => disk.active.learned[s] >= needs[s]
    BY <2>2 DEF SessionInv
  <2>4. ASSUME pc = "closed", status = "enabled" PROVE disk.active.learned = mem
    <3>1. store # None BY <2>2, <2>4 DEF PlaceInv
    <3>2. Closed /\ Ending /\ todo = {} /\ ~unsaved /\ Enabled
      BY <2>2, <2>4, <3>1 DEF Closed, Ending, QuitInv, Enabled
    <3>3. \A s \in Servers : store.learned[s] = mem[s] BY <2>2, <3>2 DEF QuitInv
    <3>4. disk.active = store BY <2>2, <2>4, <3>1, <3>2 DEF MemoryInv
    <3>5. store.learned \in Learned /\ mem \in Learned
      BY <2>2, <3>1 DEF TypeOK, Files, Documents
    <3>6. store.learned = mem BY <3>3, <3>5 DEF Learned
    <3>7. QED BY <3>4, <3>6
  <2>5. QED BY <2>3, <2>4 DEF LearnedIsDurable
<1>2. QED BY <1>1, StoreInvariant, PTL

(* Crashes alone never keep the learner from starting: wherever one came in
   a migration, an import or a write, the next start goes through.        *)
THEOREM StartsAfterEveryCrash == Spec => []CrashesAreHarmless
<1>1. StoreInv => CrashesAreHarmless BY DEF StoreInv, HarmlessInv, CrashesAreHarmless
<1>2. QED BY <1>1, StoreInvariant, PTL

-----------------------------------------------------------------------------
(***************************************************************************)
(* Least and largest elements.                                             *)
(***************************************************************************)
LEMMA LeastNatural ==
  ASSUME NEW S \in SUBSET Nat, S # {}
  PROVE  \E n \in S : \A m \in S : n <= m
<1> DEFINE R == StrictSubsetOrdering(Nat)
           T == {1..n : n \in S}
<1>1. IsWellFoundedOn(R, FiniteSubsetsOf(Nat))
  BY FS_StrictSubsetOrderingWellFounded
<1>2. T \subseteq FiniteSubsetsOf(Nat) /\ T # {}
  <2>1. ASSUME NEW n \in S PROVE 1..n \in FiniteSubsetsOf(Nat)
    <3>1. n \in Int /\ 1 \in Int
      OBVIOUS
    <3>2. IsFiniteSet(1..n)
      BY <3>1, FS_Interval
    <3>3. 1..n \in SUBSET Nat
      OBVIOUS
    <3> QED
      BY <3>2, <3>3 DEF FiniteSubsetsOf
  <2> QED
    BY <2>1
<1>3. \E x \in T : \A y \in T : ~ (<<y, x>> \in R)
  <2> HIDE DEF T, R
  <2> QED
    BY <1>1, <1>2, WFMin
<1>4. PICK n \in S : \A m \in S : ~ (<<1..m, 1..n>> \in R)
  BY <1>3
<1>5. ASSUME NEW m \in S, m < n PROVE FALSE
  <2>1. 1..m \subseteq 1..n /\ n \in 1..n /\ n \notin 1..m
    BY <1>5
  <2>2. <<1..m, 1..n>> \in R
    BY <2>1 DEF StrictSubsetOrdering
  <2> QED
    BY <2>2, <1>4
<1> QED
  BY <1>5

LEMMA SmallestIs ==
  ASSUME NEW S \in SUBSET Nat, S # {}
  PROVE  Smallest(S) \in S /\ \A y \in S : Smallest(S) <= y
BY LeastNatural DEF Smallest

LEMMA LargestIs ==
  ASSUME NEW n \in Nat, NEW S \in SUBSET (0..n), S # {}
  PROVE  Largest(S) \in S /\ \A y \in S : y <= Largest(S)
<1> DEFINE T == {i \in Nat : n - i \in S}
<1>1. T \in SUBSET Nat /\ T # {}
  <2>1. PICK x \in S : TRUE
    OBVIOUS
  <2>2. n - x \in Nat /\ n - (n - x) = x
    OBVIOUS
  <2> QED
    BY <2>1, <2>2
<1>2. PICK i \in T : \A j \in T : i <= j
  <2> HIDE DEF T
  <2> QED
    BY <1>1, LeastNatural
<1>3. n - i \in S
  BY <1>2
<1>4. ASSUME NEW y \in S PROVE y <= n - i
  <2>1. n - y \in Nat /\ n - (n - y) = y
    OBVIOUS
  <2>2. n - y \in T
    BY <2>1, <1>4
  <2>3. i <= n - y
    BY <2>2, <1>2
  <2>4. i \in Nat /\ y \in Nat
    BY <1>2
  <2> QED
    BY <2>3, <2>4
<1>5. \E x \in S : \A y \in S : y <= x
  BY <1>3, <1>4
<1> QED
  BY <1>5 DEF Largest

(* A bounded measure has a largest value. *)
LEMMA HighestOf ==
  ASSUME NEW S, S # {}, NEW n \in Nat, NEW f \in [S -> 0..n]
  PROVE  \E c \in S : \A d \in S : f[d] <= f[c]
<1> DEFINE T == {f[c] : c \in S}
<1>1. T \in SUBSET (0..n) /\ T # {}
  OBVIOUS
<1>2. Largest(T) \in T /\ \A y \in T : y <= Largest(T)
  <2> HIDE DEF T
  <2> QED
    BY <1>1, LargestIs
<1> QED
  BY <1>2

-----------------------------------------------------------------------------
(* Numbers of intervals. *)
LEMMA PairIsTwo ==
  ASSUME NEW x, NEW y, x # y
  PROVE  IsFiniteSet({x, y}) /\ Cardinality({x, y}) = 2
<1>1. IsFiniteSet({x}) /\ Cardinality({x}) = 1
  BY FS_Singleton
<1>2. {x} \cup {y} = {x, y} /\ y \notin {x}
  OBVIOUS
<1>3. IsFiniteSet({x} \cup {y}) /\ Cardinality({x} \cup {y}) = IF y \in {x} THEN 1 ELSE 1 + 1
  BY <1>1, FS_AddElement
<1> QED
  BY <1>2, <1>3

LEMMA TwoAtLeast ==
  ASSUME NEW S, IsFiniteSet(S), NEW x \in S, NEW y \in S, x # y
  PROVE  Cardinality(S) \in Nat /\ Cardinality(S) >= 2
<1>1. {x, y} \in SUBSET S
  OBVIOUS
<1>2. Cardinality({x, y}) = 2
  BY PairIsTwo
<1>3. Cardinality({x, y}) <= Cardinality(S)
  BY <1>1, FS_Subset
<1>4. Cardinality(S) \in Nat
  BY FS_CardinalityType
<1> QED
  BY <1>2, <1>3, <1>4

(* What the learner has seen so far. *)
Evidence ==
  /\ now \in Nat /\ now <= MaxTime
  /\ events \subseteq 1..now /\ gaps \subseteq 1..now
  /\ weak \subseteq events
  /\ events \cap gaps = {}

LEMMA EvidenceIsFinite ==
  ASSUME Evidence
  PROVE  IsFiniteSet(events)
<1>1. IsFiniteSet(1..now)
  BY FS_Interval DEF Evidence
<1> QED
  BY <1>1, FS_Subset DEF Evidence

LEMMA EvidenceFacts ==
  ASSUME Evidence
  PROVE  now \in Nat /\ \A t \in events : t \in 0..now /\ t \in Nat
<1>1. now \in Nat /\ \A t \in events : t \in 1..now
  BY DEF Evidence
<1>2. ASSUME NEW t \in 1..now PROVE t \in 0..now /\ t \in Nat
  BY <1>1, <1>2
<1> QED
  BY <1>1, <1>2

LEMMA ClassFacts ==
  ASSUME NEW c \in Classes
  PROVE  /\ c.period \in Nat \ {0} /\ c.period \in Periods
         /\ c.phase \in 0..(c.period - 1)
         /\ c = [period |-> c.period, phase |-> c.phase]
<1>1. PICK p \in Periods : c \in {[period |-> p, phase |-> f] : f \in 0..(p - 1)}
  BY DEF Classes
<1>2. PICK f \in 0..(p - 1) : c = [period |-> p, phase |-> f]
  BY <1>1
<1>3. c.period = p /\ c.phase = f
  BY <1>2
<1> QED
  BY <1>2, <1>3, AuthorityAssumption

LEMMA ComponentFacts ==
  ASSUME Evidence, NEW c \in Classes
  PROVE  /\ Component(c) \subseteq events /\ IsFiniteSet(Component(c))
         /\ Component(c) \in SUBSET (0..now)
         /\ \A t \in Component(c) : t + c.period \in events /\ On(t, c)
<1>1. Component(c) \subseteq events
  BY DEF Component, Direct
<1>2. IsFiniteSet(Component(c))
  BY <1>1, EvidenceIsFinite, FS_Subset
<1>3. Component(c) \in SUBSET (0..now)
  BY <1>1, EvidenceFacts
<1>4. \A t \in Component(c) : t + c.period \in events /\ On(t, c)
  BY DEF Component, Direct
<1> QED
  BY <1>1, <1>2, <1>3, <1>4

(* Two intervals, one after the other. *)
Pair(c, t) == t \in Component(c) /\ t + c.period \in Component(c)


(* A class has a streak when two of its intervals follow each other. *)
LEMMA StreakHasPair ==
  ASSUME Evidence, NEW c \in Classes, Streaks(c) # {}
  PROVE  \E t : Pair(c, t)
<1> DEFINE own == Component(c)
           runs(t) == {n \in 1..Cardinality(own) :
                         {t + i * c.period : i \in 0..(n - 1)} \subseteq own}
<1>1. PICK t \in own : Largest(runs(t)) >= 2
  <2> DEFINE starts == {u \in own : u - c.period \notin own}
             all == {[start |-> u, len |-> Largest(runs(u))] : u \in starts}
  <2>1. Streaks(c) = {x \in all : x.len >= 2}
    BY DEF Streaks
  <2>2. \A x \in all : \E u \in own : x.len = Largest(runs(u))
    <3> HIDE DEF runs
    <3> QED
      OBVIOUS
  <2> HIDE DEF all, runs
  <2> QED
    BY <2>1, <2>2
<1>2. Cardinality(own) \in Nat /\ Cardinality(own) >= 1
  <2>1. IsFiniteSet(own)
    BY ComponentFacts
  <2>2. Cardinality(own) \in Nat /\ Cardinality(own) # 0
    BY <2>1, <1>1, FS_CardinalityType, FS_EmptySet
  <2> QED
    BY <2>2
<1>3. c.period \in Nat \ {0} /\ t \in Nat
  BY ClassFacts, ComponentFacts, <1>1
<1>4. 1 \in runs(t)
  <2>1. \A i \in 0..(1 - 1) : t + i * c.period = t
    BY <1>3
  <2> QED
    BY <1>1, <1>2, <2>1
<1>5. runs(t) \in SUBSET (0..Cardinality(own)) /\ runs(t) # {}
  BY <1>2, <1>4
<1>6. Largest(runs(t)) \in runs(t)
  <2> HIDE DEF runs
  <2> QED
    BY <1>2, <1>5, LargestIs
<1>7. PICK n \in 1..Cardinality(own) :
        n >= 2 /\ {t + i * c.period : i \in 0..(n - 1)} \subseteq own
  BY <1>1, <1>6
<1>8. 1 \in 0..(n - 1) /\ t + 1 * c.period = t + c.period
  BY <1>7, <1>2, <1>3
<1>9. t + c.period \in own
  BY <1>7, <1>8
<1> QED
  BY <1>1, <1>9 DEF Pair

LEMMA PairHasStreak ==
  ASSUME Evidence, NEW c \in Classes, NEW t, Pair(c, t)
  PROVE  Streaks(c) # {}
<1> DEFINE own == Component(c)
           starts == {v \in own : v + c.period \in own}
           runs(u) == {n \in 1..Cardinality(own) :
                         {u + i * c.period : i \in 0..(n - 1)} \subseteq own}
<1>1. own \in SUBSET Nat /\ IsFiniteSet(own) /\ c.period \in Nat \ {0}
  BY ClassFacts, ComponentFacts DEF Evidence
<1>2. starts \in SUBSET Nat /\ starts # {}
  BY <1>1 DEF Pair
<1>3. PICK v \in starts : \A w \in starts : v <= w
  <2> HIDE DEF starts
  <2> QED
    BY <1>2, LeastNatural
<1>4. v \in own /\ v + c.period \in own /\ v \in Nat
  BY <1>1, <1>3
<1>5. v - c.period \notin own
  <2>1. ASSUME v - c.period \in own PROVE FALSE
    <3>1. v - c.period \in Nat /\ (v - c.period) + c.period = v
      BY <2>1, <1>1, <1>4
    <3>2. v - c.period \in starts
      BY <2>1, <3>1, <1>4
    <3>3. v <= v - c.period
      BY <3>2, <1>3
    <3> QED
      BY <3>3, <1>1, <1>4
  <2> QED
    BY <2>1
<1>6. v # v + c.period
  BY <1>1, <1>4
<1>7. Cardinality(own) \in Nat /\ Cardinality(own) >= 2
  <2> HIDE DEF own
  <2> QED
    BY <1>1, <1>4, <1>6, TwoAtLeast
<1>8. 2 \in runs(v)
  <2>1. \A i \in 0..(2 - 1) : v + i * c.period = v \/ v + i * c.period = v + c.period
    <3>1. ASSUME NEW i \in 0..(2 - 1) PROVE i = 0 \/ i = 1
      OBVIOUS
    <3>2. v + 0 * c.period = v /\ v + 1 * c.period = v + c.period
      BY <1>1, <1>4
    <3> QED
      BY <3>1, <3>2
  <2>2. {v + i * c.period : i \in 0..(2 - 1)} \subseteq own
    BY <2>1, <1>4
  <2>3. 2 \in 1..Cardinality(own)
    BY <1>7
  <2> QED
    BY <2>2, <2>3
<1>9. runs(v) \in SUBSET (0..Cardinality(own)) /\ runs(v) # {}
  BY <1>7, <1>8
<1>10. Largest(runs(v)) >= 2
  <2> HIDE DEF runs
  <2> QED
    BY <1>7, <1>8, <1>9, LargestIs
<1>11. [start |-> v, len |-> Largest(runs(v))] \in Streaks(c)
  <2> DEFINE s == [start |-> v, len |-> Largest(runs(v))]
  <2>1. v \in {u \in own : u - c.period \notin own}
    BY <1>4, <1>5
  <2>2. s.len >= 2
    BY <1>10
  <2> QED
    BY <2>1, <2>2 DEF Streaks
<1> QED
  BY <1>11


-----------------------------------------------------------------------------
(* A streak resolves every divisor for a gate of two: between two intervals
   nothing was seen where a shorter period would have had its restarts. *)
LEMMA Quotient ==
  ASSUME NEW p \in Nat \ {0}, NEW d \in Nat \ {0}, d < p, p % d = 0
  PROVE  p \div d \in Nat /\ p \div d >= 2
<1>1. p \div d \in Int /\ p = d * (p \div d) + (p % d)
  OBVIOUS
<1> DEFINE q == p \div d
<1>2. q \in Int /\ p = d * q
  BY <1>1
<1> HIDE DEF q
<1>3. q > 1
  <2>1. ASSUME q <= 1 PROVE FALSE
    <3>1. d * q <= d
      BY <2>1, <1>2
    <3> QED
      BY <3>1, <1>2
  <2> QED
    BY <2>1, <1>2
<1>4. q \in Nat /\ q >= 2
  BY <1>2, <1>3
<1> QED
  BY <1>4 DEF q

LEMMA IntervalsAreFinite ==
  ASSUME Evidence, NEW c \in Classes
  PROVE  IsFiniteSet(Intervals(c.period))
<1> DEFINE p == c.period
           all == {d \in Classes : d.period = p}
           class == [i \in 0..(p - 1) |-> [period |-> p, phase |-> i]]
           image == {class[i] : i \in 0..(p - 1)}
<1>1. p \in Nat \ {0}
  BY ClassFacts
<1>2. IsFiniteSet(0..(p - 1))
  BY <1>1, FS_Interval
<1>3. all \subseteq image
  <2>1. ASSUME NEW d \in all PROVE d \in image
    <3>1. d.phase \in 0..(p - 1) /\ d = [period |-> p, phase |-> d.phase]
      BY <2>1, ClassFacts
    <3> QED
      BY <3>1
  <2> QED
    BY <2>1
<1>4. IsFiniteSet(image)
  <2>1. class \in Surjection(0..(p - 1), image)
    BY DEF Surjection
  <2> HIDE DEF class, image
  <2> QED
    BY <2>1, <1>2, FS_Surjection
<1>5. IsFiniteSet(all)
  <2> HIDE DEF all, image
  <2> QED
    BY <1>3, <1>4, FS_Subset
<1>6. IsFiniteSet(all \X events)
  <2> HIDE DEF all
  <2> QED
    BY <1>5, EvidenceIsFinite, FS_Product
<1>7. Intervals(p) \subseteq all \X events
  <2>1. ASSUME NEW x \in Intervals(p) PROVE x \in all \X events
    <3>1. PICK d \in all : x \in {<<d, t>> : t \in Component(d)}
      BY DEF Intervals
    <3>2. PICK t \in Component(d) : x = <<d, t>>
      BY <3>1
    <3>3. t \in events
      BY <3>2, ComponentFacts
    <3> QED
      BY <3>1, <3>2, <3>3
  <2> QED
    BY <2>1
<1> QED
  <2> HIDE DEF all
  <2>1. IsFiniteSet(Intervals(p))
    BY <1>6, <1>7, FS_Subset
  <2> QED
    BY <2>1

LEMMA PairResolves ==
  ASSUME Evidence, NEW c \in Classes, NEW t, Pair(c, t)
  PROVE  ~H2Blocked(c)
<1> DEFINE p == c.period
<1>1. p \in Nat \ {0} /\ t \in Nat
  BY ClassFacts, ComponentFacts DEF Pair
<1>2. <<c, t>> \in Intervals(p) /\ <<c, t + p>> \in Intervals(p) /\ <<c, t>> # <<c, t + p>>
  <2>1. t # t + p
    BY <1>1
  <2>2. {<<c, u>> : u \in Component(c)} \subseteq Intervals(p)
    BY DEF Intervals
  <2> QED
    BY <2>1, <2>2 DEF Pair
<1>3. Cardinality(Intervals(p)) \in Nat /\ Cardinality(Intervals(p)) >= 2
  <2>1. IsFiniteSet(Intervals(p))
    BY IntervalsAreFinite
  <2> HIDE DEF p
  <2> QED
    BY <2>1, <1>2, TwoAtLeast
<1>4. ASSUME NEW d \in Divisors(p)
      PROVE  Midpoints(p, d) >= 2
  <2>1. d \in Nat \ {0} /\ d < p /\ p % d = 0
    BY <1>4, AuthorityAssumption DEF Divisors
  <2>2. p \div d \in Nat /\ p \div d >= 2
    BY <1>1, <2>1, Quotient
  <2> DEFINE n == Cardinality(Intervals(p))
             k == p \div d - 1
  <2>3. n \in Nat /\ n >= 2 /\ k \in Nat /\ k >= 1
    BY <1>3, <2>2
  <2>4. Midpoints(p, d) = n * k
    BY DEF Midpoints
  <2> HIDE DEF n, k
  <2>5. n * k >= n
    BY <2>3
  <2>6. n * k \in Nat
    BY <2>3
  <2> QED
    BY <2>3, <2>4, <2>5, <2>6
<1> QED
  BY <1>3, <1>4 DEF H2Blocked, UnresolvedAt

(* So a class has a gate of two at least exactly when it has a streak. *)
LEMMA GateMeansStreak ==
  ASSUME NEW c, H2(c) \/ H3(c)
  PROVE  Streaks(c) # {}
BY DEF H2, H3

LEMMA StreakMeansGate ==
  ASSUME Evidence, NEW c \in Classes, Streaks(c) # {}
  PROVE  H2(c) /\ \E t : Pair(c, t)
BY StreakHasPair, PairResolves DEF H2


-----------------------------------------------------------------------------
(* The measures by which classes are compared. *)
LEMMA LastFacts ==
  ASSUME Evidence, NEW c \in Classes, Component(c) # {}
  PROVE  /\ Last(c) \in events /\ Last(c) \in 0..now
         /\ \A t \in Component(c) : t + c.period <= Last(c)
<1>1. now \in Nat /\ Component(c) \in SUBSET (0..now) /\ c.period \in Nat
  BY ComponentFacts, ClassFacts DEF Evidence
<1>2. /\ Largest(Component(c)) \in Component(c)
      /\ \A t \in Component(c) : t <= Largest(Component(c))
  BY <1>1, LargestIs
<1>3. Last(c) \in events
  BY <1>2, ComponentFacts DEF Last
<1>4. \A t \in Component(c) : t + c.period <= Last(c)
  BY <1>1, <1>2 DEF Last
<1>5. Last(c) \in 0..now
  BY <1>3, EvidenceFacts
<1> QED
  BY <1>3, <1>4, <1>5

LEMMA LastEvidenceFacts ==
  ASSUME Evidence, NEW c \in Classes
  PROVE  /\ LastEvidence(c) \in 0..now
         /\ H1(c) => LastEvidence(c) = Last(c)
<1> DEFINE ends == {x[2] : x \in Related(c)}
<1>1. CASE H1(c)
  BY <1>1, LastFacts DEF LastEvidence, H1
<1>2. CASE ~H1(c) /\ Related(c) = {}
  BY <1>2 DEF LastEvidence, Evidence
<1>3. CASE ~H1(c) /\ Related(c) # {}
  <2>1. ends \in SUBSET (0..now) /\ ends # {} /\ now \in Nat
    <3>1. \A x \in Related(c) : x[2] \in events
      BY DEF Related
    <3> QED
      BY <3>1, <1>3, EvidenceFacts
  <2>2. LastEvidence(c) = Largest(ends)
    BY <1>3 DEF LastEvidence
  <2> HIDE DEF ends
  <2>3. Largest(ends) \in ends
    BY <2>1, LargestIs
  <2> QED
    BY <1>3, <2>1, <2>2, <2>3
<1> QED
  BY <1>1, <1>2, <1>3

LEMMA AuthorityBounds ==
  ASSUME Evidence, NEW c \in Classes
  PROVE  Authority(c) \in 0..970
<1> DEFINE n == Cardinality(Component(c))
           base == CASE n = 0 -> 0 [] n = 1 -> 500 [] n = 2 -> 750 [] n = 3 -> 875
                     [] OTHER -> 940
           bonus == CASE Streaks(c) = {} -> 0
                      [] \A x \in Streaks(c) : x.len = 2 -> 40
                      [] OTHER -> 60
<1>1. base \in Nat
  OBVIOUS
<1>2. bonus \in Nat
  OBVIOUS
<1>3. Authority(c) = Smallest({970, base + bonus})
  BY DEF Authority
<1> HIDE DEF base, bonus
<1>4. {970, base + bonus} \in SUBSET Nat /\ {970, base + bonus} # {}
  BY <1>1, <1>2
<1>5. /\ Smallest({970, base + bonus}) \in {970, base + bonus}
      /\ Smallest({970, base + bonus}) <= 970
  BY <1>4, SmallestIs
<1> QED
  BY <1>1, <1>2, <1>3, <1>5

LEMMA RankBounds ==
  ASSUME NEW gate
  PROVE  Rank(gate) \in 0..4
BY DEF Rank

LEMMA BestIs ==
  ASSUME Evidence, NEW S \in SUBSET Classes, S # {}
  PROVE  Best(S) \in S
<1> DEFINE key(x) == 10000000 * Rank(GateOf(x)) + 1000 * Authority(x) + LastEvidence(x)
           n == 40970000 + now
           f == [c \in S |-> key(c)]
<1>1. ASSUME NEW c \in S PROVE key(c) \in 0..n
  <2>1. Rank(GateOf(c)) \in 0..4 /\ Authority(c) \in 0..970 /\ LastEvidence(c) \in 0..now
    <3> HIDE DEF key, n
    <3> QED
      BY RankBounds, AuthorityBounds, LastEvidenceFacts
  <2>2. now \in Nat
    <3> HIDE DEF key, n
    <3> QED
      BY DEF Evidence
  <2> DEFINE rank == Rank(GateOf(c))
             authority == Authority(c)
             last == LastEvidence(c)
  <2>3. key(c) = 10000000 * rank + 1000 * authority + last
    BY SMT
  <2>4. rank \in 0..4 /\ authority \in 0..970 /\ last \in 0..now
    BY SMT, <2>1
  <2> HIDE DEF key, rank, authority, last
  <2> QED
    BY SMT, <2>2, <2>3, <2>4
<1>2. n \in Nat
  BY SMT DEF Evidence
<1>3. Best(S) = CHOOSE c \in S : \A d \in S : key(d) <= key(c)
  BY SMT DEF Best
<1> HIDE DEF key, n
<1>4. f \in [S -> 0..n]
  BY <1>1
<1>5. \E c \in S : \A d \in S : f[d] <= f[c]
  <2> HIDE DEF f
  <2> QED
    BY <1>2, <1>4, HighestOf
<1>6. \E c \in S : \A d \in S : key(d) <= key(c)
  BY <1>5
<1> QED
  BY <1>3, <1>6

LEMMA StrongerIs ==
  ASSUME Evidence, NEW S \in SUBSET Classes, S # {}, NEW s
  PROVE  Stronger(S, s) \in S
<1> DEFINE bonus(x) == IF s.phase[x.period] = x.phase /\ x.period \in s.trusted THEN 1 ELSE 0
           key(x) == 100000 * Authority(x) + 1000 * bonus(x) + LastEvidence(x)
           n == 97001000 + now
           f == [c \in S |-> key(c)]
<1>1. ASSUME NEW c \in S PROVE key(c) \in 0..n
  <2>1. bonus(c) \in 0..1
    BY SMT
  <2> HIDE DEF bonus
  <2>2. Authority(c) \in 0..970 /\ LastEvidence(c) \in 0..now
    <3> HIDE DEF key, n
    <3> QED
      BY AuthorityBounds, LastEvidenceFacts
  <2>3. now \in Nat
    <3> HIDE DEF key, n
    <3> QED
      BY DEF Evidence
  <2> DEFINE more == bonus(c)
             authority == Authority(c)
             last == LastEvidence(c)
  <2>4. key(c) = 100000 * authority + 1000 * more + last
    BY SMT
  <2>5. more \in 0..1 /\ authority \in 0..970 /\ last \in 0..now
    BY SMT, <2>1, <2>2
  <2> HIDE DEF key, more, authority, last
  <2> QED
    BY SMT, <2>3, <2>4, <2>5
<1>2. n \in Nat
  BY SMT DEF Evidence
<1>3. Stronger(S, s) = CHOOSE c \in S : \A d \in S : key(d) <= key(c)
  BY SMT DEF Stronger
<1> HIDE DEF bonus, key, n
<1>4. f \in [S -> 0..n]
  BY <1>1
<1>5. \E c \in S : \A d \in S : f[d] <= f[c]
  <2> HIDE DEF f
  <2> QED
    BY <1>2, <1>4, HighestOf
<1>6. \E c \in S : \A d \in S : key(d) <= key(c)
  BY <1>5
<1> QED
  BY <1>3, <1>6

-----------------------------------------------------------------------------
(* Regimes. *)
IsRegime(r) ==
  /\ r.class \in Classes /\ r.at \in 0..now
  /\ r = [class |-> r.class, id |-> r.id, gate |-> r.gate,
          origin |-> r.origin, status |-> r.status, at |-> r.at]

LEMMA RegimeIsSome ==
  ASSUME NEW r, IsRegime(r)
  PROVE  r # NoRegime
<1>1. r.class.period # 0
  BY ClassFacts DEF IsRegime
<1>2. NoRegime.class.period = 0
  BY DEF NoRegime
<1> QED
  BY <1>1, <1>2

LEMMA RegimeOfFacts ==
  ASSUME Evidence, NEW c \in Classes, NEW standing, NEW origin
  PROVE  LET r == RegimeOf(c, standing, origin)
         IN  /\ IsRegime(r) /\ r.class = c
             /\ H3(c) => r.at = Last(c)
<1> DEFINE r == RegimeOf(c, standing, origin)
<1>1. r.class = c
  BY DEF RegimeOf
<1>2. r = [class |-> r.class, id |-> r.id, gate |-> r.gate,
           origin |-> r.origin, status |-> r.status, at |-> r.at]
  BY DEF RegimeOf
<1>3. r.at = IF H3(c) THEN Last(c) ELSE 0
  BY DEF RegimeOf
<1> HIDE DEF r
<1>4. H3(c) => Last(c) \in 0..now
  BY GateMeansStreak, StreakMeansGate, LastFacts DEF Pair
<1>5. 0 \in 0..now
  BY DEF Evidence
<1>6. r.at \in 0..now
  BY <1>3, <1>4, <1>5
<1> QED
  BY <1>1, <1>2, <1>3, <1>6 DEF IsRegime, r

LEMMA LastAlignedFacts ==
  ASSUME Evidence, NEW r, r.at \in 0..now
  PROVE  LastAligned(r) \in 0..now /\ r.at <= LastAligned(r)
<1> DEFINE S == {r.at} \cup {t \in events : On(t, r.class)}
<1>1. now \in Nat /\ S \in SUBSET (0..now) /\ S # {} /\ r.at \in S
  BY EvidenceFacts
<1>2. LastAligned(r) = Largest(S)
  BY DEF LastAligned
<1> HIDE DEF S
<1>3. Largest(S) \in S /\ \A y \in S : y <= Largest(S)
  BY <1>1, LargestIs
<1> QED
  BY <1>1, <1>2, <1>3

LEMMA GatedAreCandidates ==
  ASSUME Evidence, NEW s, NEW c \in Classes, Streaks(c) # {}
  PROVE  c \in Candidates(s) /\ H1(c) /\ H2(c)
BY StreakMeansGate DEF Candidates, H1, Pair


-----------------------------------------------------------------------------
(* The decisions. *)
LEMMA ChosenFacts ==
  ASSUME NEW state, NEW regime, NEW incumbent, NEW level, NEW usable, NEW safe
  PROVE  LET d == Chosen(state, regime, incumbent, level, usable, safe)
         IN  /\ d.state = state /\ d.selected = regime /\ d.incumbent = incumbent
             /\ d.level = level /\ d.usable = usable /\ d.safe = safe
BY DEF Chosen

(* Without an incumbent: what is usable is established and has a streak, or
   nothing has one. *)
LEMMA FirstRegimeFacts ==
  ASSUME Evidence, NEW s
  PROVE  LET d == FirstRegime(s)
         IN  /\ d.incumbent = NoRegime \/ IsRegime(d.incumbent)
             /\ d.incumbent = NoRegime => \A c \in Classes : Streaks(c) = {}
             /\ d.selected = d.incumbent
             /\ d.level \in 0..2
             /\ d.usable => \/ \A c \in Classes : Streaks(c) = {}
                            \/ \E b \in Classes : Streaks(b) # {} /\ d.selected.at = Last(b)
<1> DEFINE all == Candidates(s)
           h3 == {c \in all : H3(c)}
           h2 == {c \in all : H2(c)}
           normal == {c \in all : c.period = s.selected /\ c.phase = s.phase[c.period]}
           yes == TRUE
           no == FALSE
           r3 == RegimeOf(Best(h3), "established", "continuity")
           r2 == RegimeOf(Best(h2), "likely", "continuity")
           standing == IF s.usable THEN "established" ELSE "likely"
           rn == RegimeOf(Best(normal), standing, "normal")
           learning == IF all = {} THEN "unknown" ELSE "normal_learning"
           zero == 0
           d3 == Chosen("established", r3, r3, zero, yes, yes)
           d2 == Chosen("likely", r2, r2, zero, no, no)
           dn == Chosen(standing, rn, rn, zero, s.usable, s.usable)
           d0 == Chosen(learning, NoRegime, NoRegime, zero, no, no)
           d == FirstRegime(s)
<1>1. d = CASE h3 # {} -> d3
            [] h3 = {} /\ h2 # {} -> d2
            [] h3 = {} /\ h2 = {} /\ normal # {} -> dn
            [] OTHER -> d0
  BY DEF FirstRegime
<1>2. all \subseteq Classes /\ \A c \in Classes : Streaks(c) # {} => c \in h2
  BY GatedAreCandidates DEF Candidates
<1>3. zero \in 0..2 /\ ~no
  OBVIOUS
<1>4. h3 \in SUBSET Classes /\ h2 \in SUBSET Classes /\ normal \in SUBSET Classes
  BY <1>2
<1>5. \A c \in h3 : H3(c)
  OBVIOUS
<1> HIDE DEF d, d3, d2, dn, d0, all, h3, h2, normal, yes, no, zero
<1>6. CASE h3 # {}
  <2>1. d = d3
    BY <1>1, <1>6
  <2>2. /\ d.selected = r3 /\ d.incumbent = r3 /\ d.level = zero
    BY <2>1, ChosenFacts DEF d3
  <2> DEFINE b == Best(h3)
  <2>3. b \in h3
    BY <1>4, <1>6, BestIs
  <2>4. b \in Classes /\ H3(b) /\ Streaks(b) # {}
    BY <2>3, <1>4, <1>5, GateMeansStreak
  <2> HIDE DEF b
  <2>5. IsRegime(r3) /\ r3.at = Last(b)
    BY <2>4, RegimeOfFacts DEF b
  <2>6. r3 # NoRegime
    BY <2>5, RegimeIsSome
  <2> HIDE DEF r3
  <2> QED
    BY <2>2, <2>4, <2>5, <2>6, <1>3 DEF d
<1>7. CASE h3 = {} /\ h2 # {}
  <2>1. d = d2
    BY <1>1, <1>7
  <2>2. d.selected = r2 /\ d.incumbent = r2 /\ d.level = zero /\ d.usable = no
    BY <2>1, ChosenFacts DEF d2
  <2>3. Best(h2) \in Classes
    BY <1>4, <1>7, BestIs
  <2>4. IsRegime(r2)
    BY <2>3, RegimeOfFacts
  <2>5. r2 # NoRegime
    BY <2>4, RegimeIsSome
  <2> HIDE DEF r2
  <2> QED
    BY <2>2, <2>4, <2>5, <1>3 DEF d
<1>8. CASE h3 = {} /\ h2 = {} /\ normal # {}
  <2>1. d = dn
    BY <1>1, <1>8
  <2>2. d.selected = rn /\ d.incumbent = rn /\ d.level = zero
    BY <2>1, ChosenFacts DEF dn
  <2>3. Best(normal) \in Classes
    BY <1>4, <1>8, BestIs
  <2> HIDE DEF standing
  <2>4. IsRegime(rn)
    BY <2>3, RegimeOfFacts
  <2>5. rn # NoRegime
    BY <2>4, RegimeIsSome
  <2>6. \A c \in Classes : Streaks(c) = {}
    BY <1>2, <1>8
  <2> HIDE DEF rn
  <2> QED
    BY <2>2, <2>4, <2>5, <2>6, <1>3 DEF d
<1>9. CASE h3 = {} /\ h2 = {} /\ normal = {}
  <2>1. d = d0
    BY <1>1, <1>9
  <2>2. d.selected = NoRegime /\ d.incumbent = NoRegime /\ d.level = zero
    BY <2>1, ChosenFacts DEF d0
  <2>3. \A c \in Classes : Streaks(c) = {}
    BY <1>2, <1>9
  <2> QED
    BY <2>2, <2>3, <1>3 DEF d
<1> QED
  BY <1>6, <1>7, <1>8, <1>9

(* With an incumbent: superseded by a challenger, or kept; and what is usable
   of a kept one has no challenger with a gate. *)
Superseded(d, regime, s) ==
  \E c \in Challengers(regime, s) :
    /\ H3(c)
    /\ d.state = "new_regime_established" /\ d.selected = d.incumbent
    /\ d.incumbent = RegimeOf(c, "established", "continuity")

KeptOn(d, regime, s) ==
  /\ d.incumbent = regime
  /\ d.usable => /\ d.selected = regime
                 /\ \A c \in Challengers(regime, s) : ~H2(c) /\ ~H3(c)

LEMMA TransitionFacts ==
  ASSUME Evidence, NEW regime, NEW before, NEW s
  PROVE  LET d == Transition(regime, before, s)
         IN  /\ Superseded(d, regime, s) \/ KeptOn(d, regime, s)
             /\ d.level \in 0..2
<1> DEFINE active == Challengers(regime, s)
           h3 == {c \in active : H3(c)}
           h2 == {c \in active : H2(c) /\ ~H3(c)}
           strong == Largest({0} \cup {Cardinality(Component(c)) : c \in active})
           context == \E c \in active : NormalContext(c, s)
           doubts == ActiveMisses(regime) # {} \/ OffPhase(regime) # {} \/ strong = 1
           superseding == RegimeOf(Stronger(h3, s), "established", "continuity")
           provisional == RegimeOf(Stronger(h2, s), "provisional", "continuity")
           change == IF before = "transition_confirmed" THEN "new_regime_provisional"
                     ELSE "transition_confirmed"
           yes == TRUE
           no == FALSE
           zero == 0
           one == 1
           two == 2
           many == strong >= 2
           few == strong < 2
           dS == Chosen("new_regime_established", superseding, superseding, zero, yes, yes)
           dP == Chosen(change, provisional, regime, two, no, no)
           dA == Chosen("challenger_accumulating", regime, regime, two, no, no)
           dC == Chosen("challenger_accumulating", regime, regime, one, yes, yes)
           dD == Chosen("change_suspected", regime, regime, one, yes, yes)
           dE == Chosen("established", regime, regime, zero, yes, yes)
           d == Transition(regime, before, s)
<1>1. d = CASE h3 # {} -> dS
            [] h3 = {} /\ h2 # {} -> dP
            [] h3 = {} /\ h2 = {} /\ many -> dA
            [] h3 = {} /\ h2 = {} /\ few /\ context -> dC
            [] h3 = {} /\ h2 = {} /\ few /\ ~context /\ doubts -> dD
            [] OTHER -> dE
  BY DEF Transition
<1>2. zero \in 0..2 /\ one \in 0..2 /\ two \in 0..2
  OBVIOUS
<1>3. active \subseteq Classes /\ h3 \in SUBSET active /\ h2 \in SUBSET active
  BY DEF Challengers, Candidates
<1>4. \A c \in h3 : c \in active /\ H3(c)
  OBVIOUS
<1>5. h3 = {} /\ h2 = {} => \A c \in active : ~H2(c) /\ ~H3(c)
  OBVIOUS
<1>6. ~no
  OBVIOUS
<1> HIDE DEF d, dS, dP, dA, dC, dD, dE, h3, h2, strong, context, doubts, change, many, few,
             provisional, yes, no, zero, one, two
<1>7. CASE h3 # {}
  <2>1. d = dS
    BY <1>1, <1>7
  <2>2. /\ d.state = "new_regime_established" /\ d.selected = superseding
        /\ d.incumbent = superseding /\ d.level = zero
    BY <2>1, ChosenFacts DEF dS
  <2>3. Stronger(h3, s) \in h3
    <3>1. h3 \in SUBSET Classes
      BY <1>3
    <3> QED
      BY <3>1, <1>7, StrongerIs
  <2>4. Superseded(d, regime, s)
    BY <2>2, <2>3, <1>4 DEF Superseded
  <2> QED
    BY <2>2, <2>4, <1>2 DEF d
<1>8. CASE h3 = {} /\ h2 # {}
  <2>1. d = dP
    BY <1>1, <1>8
  <2>2. d.incumbent = regime /\ d.level = two /\ d.usable = no
    BY <2>1, ChosenFacts DEF dP
  <2>3. KeptOn(d, regime, s)
    BY <2>2, <1>6 DEF KeptOn
  <2> QED
    BY <2>2, <2>3, <1>2 DEF d
<1>9. CASE h3 = {} /\ h2 = {}
  <2>1. d = dA \/ d = dC \/ d = dD \/ d = dE
    BY <1>1, <1>9
  <2>2. /\ d.incumbent = regime /\ d.selected = regime
        /\ d.level = zero \/ d.level = one \/ d.level = two
    BY <2>1, ChosenFacts DEF dA, dC, dD, dE
  <2>3. KeptOn(d, regime, s)
    BY <2>2, <1>5, <1>9 DEF KeptOn
  <2> QED
    BY <2>2, <2>3, <1>2 DEF d
<1> QED
  BY <1>7, <1>8, <1>9

(* What is shown with a countdown. *)
LEMMA CountdownFacts ==
  ASSUME NEW d, NEW s, Countdown(d, s)
  PROVE  /\ d.usable
         /\ Presentation(d, s) \notin {"none", "likely_new_cycle", "schedule_change_suspected"}
<1>1. SafeH3(d, s) \/ SafeH2(d, s) \/ SafeNormal(d, s)
  BY DEF Countdown
<1>2. d.usable /\ d.safe
  BY <1>1 DEF SafeH3, SafeH2, SafeNormal
<1>3. d.state \in {"established", "change_suspected", "challenger_accumulating",
                   "new_regime_established"}
  BY <1>1 DEF SafeH3, SafeH2, SafeNormal
<1>4. SafeH2(d, s) \/ ShownGate(d, s) \in {"normal", "h3", "h4"}
  BY <1>1 DEF SafeH3, SafeNormal
<1> QED
  BY <1>2, <1>3, <1>4 DEF Presentation


-----------------------------------------------------------------------------
(* The invariant.  Until something is believed no class has a streak, save one
   that ends with a restart not read yet; so the first schedule that is
   established is established by the newest evidence there is. *)
NoStreakYet ==
  decision.incumbent = NoRegime =>
    \A c \in Classes : \A t : Pair(c, t) => ~fresh /\ (t + c.period) + c.period = now

LedgerFits ==
  /\ awaited \subseteq Classes
  /\ \A m \in misses : m.class \in Classes /\ m.at \in 1..now \ events

AuthorityInv ==
  /\ Evidence /\ fresh \in BOOLEAN
  /\ decision.incumbent = NoRegime \/ IsRegime(decision.incumbent)
  /\ decision.level \in 0..2
  /\ NoStreakYet
  /\ LedgerFits
  /\ CountdownIsHonest

LEMMA AuthorityInvInit == AuthorityInit => AuthorityInv
<1> SUFFICES ASSUME AuthorityInit PROVE AuthorityInv
  OBVIOUS
<1>1. Evidence
  BY AuthorityAssumption DEF AuthorityInit, Evidence
<1>2. fresh \in BOOLEAN
  BY DEF AuthorityInit
<1>3. decision.incumbent = NoRegime
  BY DEF AuthorityInit, NoDecision
<1>4. decision.level = 0
  BY DEF AuthorityInit, NoDecision
<1>5. NoStreakYet
  BY DEF AuthorityInit, NoStreakYet, Pair, Component, Direct
<1>6. LedgerFits
  BY DEF AuthorityInit, LedgerFits
<1>7. CountdownIsHonest
  <2>1. ~shown.countdown
    BY DEF AuthorityInit, NothingShown
  <2> QED
    BY <2>1 DEF CountdownIsHonest
<1> QED
  BY <1>1, <1>2, <1>3, <1>4, <1>5, <1>6, <1>7 DEF AuthorityInv

(* A tick adds evidence of that tick only and changes no belief. *)
TimePasses ==
  /\ now' = now + 1 /\ now < MaxTime
  /\ events \subseteq events' /\ events' \subseteq events \cup {now + 1}
  /\ gaps \subseteq gaps' /\ gaps' \subseteq gaps \cup {now + 1}
  /\ weak \subseteq weak'
  /\ fresh /\ ~fresh'
  /\ UNCHANGED <<awaited, misses, decision, shown>>

LEMMA TicksPass ==
  ASSUME Evidence, Restart \/ Quiet \/ Unwatched
  PROVE  TimePasses /\ Evidence'
<1>1. TimePasses
  BY DEF Restart, Quiet, Unwatched, Tick, TimePasses
<1>2. now' \in Nat /\ now' <= MaxTime
  BY <1>1, AuthorityAssumption DEF Evidence, TimePasses
<1>3. events' \subseteq 1..now' /\ gaps' \subseteq 1..now'
  BY <1>1 DEF Evidence, TimePasses
<1>4. weak' \subseteq events'
  BY DEF Restart, Quiet, Unwatched, Evidence
<1>5. events' \cap gaps' = {}
  <2>1. now + 1 \notin events \cup gaps
    BY DEF Evidence
  <2> QED
    BY <2>1 DEF Restart, Quiet, Unwatched, Evidence
<1> QED
  BY <1>1, <1>2, <1>3, <1>4, <1>5 DEF Evidence

(* An interval that is new ends now. *)
LEMMA NewIntervalsEndNow ==
  ASSUME Evidence, TimePasses, NEW c \in Classes, NEW t \in Component(c)', t + c.period # now'
  PROVE  t \in Component(c)
<1> DEFINE p == c.period
<1>1. p \in Nat \ {0}
  BY ClassFacts
<1>2. /\ t \in events' /\ On(t, c) /\ t + p \in events'
      /\ (events' \cup gaps') \cap Inside(t, t + p) = {}
      /\ {t, t + p} \cap weak' = {}
  BY DEF Component, Direct
<1>3. events' \subseteq events \cup {now + 1} /\ now' = now + 1 /\ now \in Nat
      /\ events \subseteq 1..now
  BY DEF TimePasses, Evidence
<1>4. t + p \in events
  BY <1>2, <1>3
<1>5. t \in events
  BY <1>1, <1>2, <1>3, <1>4
<1>6. (events \cup gaps) \cap Inside(t, t + p) = {} /\ {t, t + p} \cap weak = {}
  BY <1>2 DEF TimePasses
<1> QED
  BY <1>2, <1>4, <1>5, <1>6 DEF Component, Direct

LEMMA TicksKeepAuthorityInv ==
  ASSUME AuthorityInv, Restart \/ Quiet \/ Unwatched
  PROVE  AuthorityInv'
<1>1. Evidence /\ TimePasses /\ Evidence'
  BY TicksPass DEF AuthorityInv
<1>2. fresh /\ ~fresh' /\ fresh' \in BOOLEAN /\ decision' = decision /\ now' = now + 1
  BY <1>1 DEF TimePasses, Restart, Quiet, Unwatched, Tick
<1>3. (decision.incumbent = NoRegime \/ IsRegime(decision.incumbent))'
  BY <1>1, <1>2 DEF AuthorityInv, IsRegime, Evidence
<1>4. NoStreakYet'
  <2> SUFFICES ASSUME decision'.incumbent = NoRegime,
                      NEW c \in Classes, NEW t, Pair(c, t)'
               PROVE  (t + c.period) + c.period = now'
    BY <1>2 DEF NoStreakYet
  <2>1. ~Pair(c, t)
    BY <1>2 DEF AuthorityInv, NoStreakYet
  <2>2. t \in Component(c)' /\ t + c.period \in Component(c)'
    BY DEF Pair
  <2>3. ASSUME (t + c.period) + c.period # now' PROVE FALSE
    <3>1. t + c.period \in Component(c)
      BY <1>1, <2>2, <2>3, NewIntervalsEndNow
    <3>2. t + c.period # now'
      BY <1>1, <1>2, <3>1, ComponentFacts DEF Evidence
    <3>3. t \in Component(c)
      BY <1>1, <2>2, <3>2, NewIntervalsEndNow
    <3> QED
      BY <2>1, <3>1, <3>3 DEF Pair
  <2> QED
    BY <2>3
<1>5. LedgerFits'
  <2>1. awaited' = awaited /\ misses' = misses /\ events' \subseteq events \cup {now + 1}
    BY <1>1 DEF TimePasses
  <2>2. now \in Nat
    BY <1>1 DEF Evidence
  <2> QED
    BY <1>2, <2>1, <2>2 DEF AuthorityInv, LedgerFits
<1>6. CountdownIsHonest'
  BY <1>2 DEF CountdownIsHonest
<1>7. decision'.level \in 0..2
  BY <1>2 DEF AuthorityInv
<1> QED
  BY <1>1, <1>2, <1>3, <1>4, <1>5, <1>6, <1>7 DEF AuthorityInv


-----------------------------------------------------------------------------
(* Reading the evidence changes none of it. *)
StreaksArePairs == \A c \in Classes : Streaks(c) # {} => \E t : Pair(c, t)

LEMMA StreaksPair == Evidence => StreaksArePairs
BY StreakHasPair DEF StreaksArePairs

LEMMA StreaksPairNext == Evidence' => StreaksArePairs'
BY StreaksPair, PTL

LEMMA SameEvidence ==
  ASSUME Evidence, UNCHANGED <<now, events, weak, gaps>>, NEW c \in Classes
  PROVE  /\ \A t : Pair(c, t)' => Pair(c, t)
         /\ LastEvidence(c)' = LastEvidence(c)
<1>1. Direct(c)' = Direct(c)
  BY DEF Direct, On, Inside
<1>2. Component(c)' = Component(c)
  BY <1>1 DEF Component
<1>3. Related(c)' = Related(c)
  BY DEF Related, On, Inside
<1>4. {x[2] : x \in Related(c)'} = {x[2] : x \in Related(c)}
  BY <1>3
<1>5. Last(c)' = Last(c)
  BY <1>2 DEF Last
<1>6. LastEvidence(c)' = LastEvidence(c)
  BY <1>2, <1>3, <1>4, <1>5 DEF LastEvidence, H1
<1>7. \A t : Pair(c, t)' => Pair(c, t)
  BY <1>2 DEF Pair
<1> QED
  BY <1>6, <1>7

LEMMA RenewedFacts ==
  ASSUME NEW r, IsRegime(r), NEW s
  PROVE  LET q == Renewed(r, s)
         IN  /\ IsRegime(q) /\ q.class = r.class /\ q.at = r.at
             /\ SameBelief(r, q)
<1> DEFINE q == Renewed(r, s)
<1>1. r = [class |-> r.class, id |-> r.id, gate |-> r.gate,
           origin |-> r.origin, status |-> r.status, at |-> r.at]
  BY DEF IsRegime
<1>2. PICK gate, standing :
        q = [class |-> r.class, id |-> r.id, gate |-> gate,
             origin |-> r.origin, status |-> standing, at |-> r.at]
  BY <1>1 DEF Renewed
<1> HIDE DEF q
<1>3. q.class = r.class /\ q.at = r.at
  BY <1>2
<1>4. IsRegime(q)
  BY <1>2, <1>3 DEF IsRegime
<1>5. SameBelief(r, q)
  BY <1>2 DEF SameBelief
<1> QED
  BY <1>3, <1>4, <1>5 DEF q

(* No class with a streak is newer than all that agrees with a regime. *)
NoneNewer(r) ==
  \A c \in Classes \ {r.class} :
    Streaks(c) # {} => LastEvidence(c) <= LastAligned(r)

(* What a reading decides. *)
Decides(s) ==
  LET d == evaluate_authority(s, decision)
      old == decision.incumbent
  IN  /\ d.incumbent = NoRegime \/ IsRegime(d.incumbent)
      /\ d.level \in 0..2
      /\ d.incumbent = NoRegime => old = NoRegime /\ \A c \in Classes : Streaks(c) = {}
      /\ d.usable => d.state = "new_regime_established" \/ NoneNewer(d.selected)
      /\ old # NoRegime =>
           \/ SameBelief(old, d.incumbent)
           \/ d.incumbent.class # old.class /\ d.incumbent.at > old.at

LEMMA FirstDecision ==
  ASSUME AuthorityInv, NEW s, decision.incumbent = NoRegime
  PROVE  Decides(s)
<1> DEFINE d == FirstRegime(s)
<1>1. Evidence
  BY DEF AuthorityInv
<1>2. evaluate_authority(s, decision) = d
  BY DEF evaluate_authority
<1>3. /\ d.incumbent = NoRegime \/ IsRegime(d.incumbent)
      /\ d.incumbent = NoRegime => \A c \in Classes : Streaks(c) = {}
      /\ d.selected = d.incumbent
      /\ d.level \in 0..2
      /\ d.usable => \/ \A c \in Classes : Streaks(c) = {}
                     \/ \E b \in Classes : Streaks(b) # {} /\ d.selected.at = Last(b)
  BY <1>1, FirstRegimeFacts
<1> HIDE DEF d
<1>4. ASSUME NEW b \in Classes, Streaks(b) # {}, d.selected.at = Last(b)
      PROVE  NoneNewer(d.selected)
  <2>1. PICK t : Pair(b, t)
    BY <1>1, <1>4, StreakHasPair
  <2>2. (t + b.period) + b.period = now
    BY <2>1 DEF AuthorityInv, NoStreakYet
  <2>3. t + b.period \in Component(b)
    BY <2>1 DEF Pair
  <2>4. now <= Last(b) /\ Last(b) \in 0..now /\ now \in Nat
    BY <1>1, <2>2, <2>3, LastFacts DEF Evidence
  <2>5. LastAligned(d.selected) \in 0..now /\ d.selected.at <= LastAligned(d.selected)
    BY <1>1, <1>4, <2>4, LastAlignedFacts
  <2>6. ASSUME NEW c \in Classes PROVE LastEvidence(c) <= LastAligned(d.selected)
    <3>1. LastEvidence(c) \in 0..now
      BY <1>1, LastEvidenceFacts
    <3> QED
      BY <3>1, <2>4, <2>5, <1>4
  <2> QED
    BY <2>6 DEF NoneNewer
<1>5. d.usable => NoneNewer(d.selected)
  BY <1>3, <1>4 DEF NoneNewer
<1> QED
  BY <1>2, <1>3, <1>5 DEF Decides

LEMMA LaterDecision ==
  ASSUME AuthorityInv, NEW s, decision.incumbent # NoRegime
  PROVE  Decides(s)
<1> DEFINE old == decision.incumbent
           r == Renewed(old, s)
           d == Transition(r, decision.state, s)
<1>1. Evidence /\ IsRegime(old)
  BY DEF AuthorityInv
<1>2. evaluate_authority(s, decision) = d
  BY DEF evaluate_authority
<1>3. /\ IsRegime(r) /\ r.class = old.class /\ r.at = old.at
      /\ SameBelief(old, r)
  BY <1>1, RenewedFacts
<1> HIDE DEF r
<1>4. (Superseded(d, r, s) \/ KeptOn(d, r, s)) /\ d.level \in 0..2
  BY <1>1, TransitionFacts
<1> HIDE DEF d
<1>5. r.at \in 0..now /\ LastAligned(r) \in 0..now /\ r.at <= LastAligned(r)
  BY <1>1, <1>3, LastAlignedFacts DEF IsRegime
<1>6. CASE Superseded(d, r, s)
  <2>1. PICK c \in Challengers(r, s) :
          /\ H3(c)
          /\ d.state = "new_regime_established" /\ d.selected = d.incumbent
          /\ d.incumbent = RegimeOf(c, "established", "continuity")
    BY <1>6 DEF Superseded
  <2>2. /\ c \in Classes /\ c # r.class
        /\ LastEvidence(c) > r.at \/ LastEvidence(c) > LastAligned(r)
    BY <2>1 DEF Challengers, Candidates
  <2>3. IsRegime(d.incumbent) /\ d.incumbent.class = c /\ d.incumbent.at = Last(c)
    BY <1>1, <2>1, <2>2, RegimeOfFacts
  <2>4. H1(c)
    BY <1>1, <2>1, <2>2, GateMeansStreak, GatedAreCandidates
  <2>5. LastEvidence(c) = Last(c) /\ LastEvidence(c) \in 0..now
    BY <1>1, <2>2, <2>4, LastEvidenceFacts
  <2>6. d.incumbent.at > old.at
    BY <1>3, <1>5, <2>2, <2>3, <2>5 DEF Evidence
  <2>7. d.incumbent # NoRegime
    BY <2>3, RegimeIsSome
  <2> QED
    BY <1>2, <1>3, <1>4, <2>1, <2>2, <2>3, <2>6, <2>7 DEF Decides
<1>7. CASE KeptOn(d, r, s)
  <2>1. /\ d.incumbent = r
        /\ d.usable => /\ d.selected = r
                       /\ \A c \in Challengers(r, s) : ~H2(c) /\ ~H3(c)
    BY <1>7 DEF KeptOn
  <2>2. ASSUME d.usable PROVE NoneNewer(d.selected)
    <3>1. ASSUME NEW c \in Classes \ {r.class}, Streaks(c) # {}
          PROVE  LastEvidence(c) <= LastAligned(r)
      <4>1. c \in Candidates(s) \ {r.class} /\ H2(c)
        BY <1>1, <3>1, GatedAreCandidates
      <4>2. c \notin Challengers(r, s)
        BY <4>1, <2>1, <2>2
      <4>3. ~(LastEvidence(c) > LastAligned(r))
        BY <4>1, <4>2 DEF Challengers
      <4>4. LastEvidence(c) \in 0..now
        BY <1>1, LastEvidenceFacts
      <4> QED
        BY <4>3, <4>4, <1>5
    <3> QED
      BY <3>1, <2>1, <2>2 DEF NoneNewer
  <2>3. d.incumbent # NoRegime
    BY <1>3, <2>1, RegimeIsSome
  <2> QED
    BY <1>2, <1>3, <1>4, <2>1, <2>2, <2>3 DEF Decides
<1> QED
  BY <1>4, <1>6, <1>7


LEMMA EvaluateKeepsAuthorityInv ==
  ASSUME AuthorityInv, Evaluate
  PROVE  AuthorityInv'
<1>1. PICK s \in Scores :
        /\ misses' = Ledger
        /\ awaited' = {c \in Classes : c.phase = s.phase[c.period] /\ Relationships(c.period) >= 2}
        /\ decision' = evaluate_authority(s, decision)
        /\ shown' = Show(decision', s)
        /\ fresh'
        /\ fresh' \in BOOLEAN
        /\ UNCHANGED <<now, events, weak, gaps>>
  BY DEF Evaluate
<1>2. Evidence /\ Evidence'
  BY <1>1 DEF AuthorityInv, Evidence
<1>3. Decides(s)
  BY FirstDecision, LaterDecision
<1> DEFINE d == evaluate_authority(s, decision)
<1>4. /\ d.incumbent = NoRegime \/ IsRegime(d.incumbent)
      /\ d.level \in 0..2
      /\ d.incumbent = NoRegime => \A c \in Classes : Streaks(c) = {}
      /\ d.usable => d.state = "new_regime_established" \/ NoneNewer(d.selected)
  BY <1>3 DEF Decides
<1>5. decision' = d /\ now' = now /\ events' = events
  BY <1>1
<1> HIDE DEF d
<1>6. (decision.incumbent = NoRegime \/ IsRegime(decision.incumbent))'
  BY <1>4, <1>5 DEF IsRegime
<1>7. NoStreakYet'
  <2> SUFFICES ASSUME d.incumbent = NoRegime, NEW c \in Classes, NEW t, Pair(c, t)'
               PROVE  FALSE
    BY <1>5 DEF NoStreakYet
  <2>1. Pair(c, t)
    BY <1>1, <1>2, SameEvidence
  <2> QED
    BY <1>2, <1>4, <2>1, PairHasStreak
<1>8. LedgerFits'
  <2>1. \A m \in Ledger : m.class \in Classes /\ m.at \in 1..now \ events
    BY DEF AuthorityInv, LedgerFits, Ledger
  <2> QED
    BY <1>1, <1>5, <2>1 DEF LedgerFits
<1>9. CountdownIsHonest'
  <2> SUFFICES ASSUME shown'.countdown
               PROVE  /\ shown'.wording \notin {"none", "likely_new_cycle", "schedule_change_suspected"}
                      /\ \/ d.state = "new_regime_established"
                         \/ \A c \in Classes \ {d.selected.class} :
                              (H2(c) \/ H3(c))' => LastEvidence(c)' <= (LastAligned(decision.selected))'
    BY <1>5 DEF CountdownIsHonest
  <2>1. Countdown(d, s) /\ shown'.wording = Presentation(d, s)
    BY <1>1, <1>5 DEF Show
  <2>2. d.usable /\ Presentation(d, s) \notin {"none", "likely_new_cycle", "schedule_change_suspected"}
    BY <2>1, CountdownFacts
  <2>3. (LastAligned(decision.selected))' = LastAligned(d.selected)
    <3>1. {d.selected.at} \cup {t \in events' : On(t, d.selected.class)}
            = {d.selected.at} \cup {t \in events : On(t, d.selected.class)}
      BY <1>5
    <3> QED
      BY <1>5, <3>1 DEF LastAligned, On
  <2>4. ASSUME NoneNewer(d.selected), NEW c \in Classes \ {d.selected.class}, (H2(c) \/ H3(c))'
        PROVE  LastEvidence(c)' <= LastAligned(d.selected)
    <3>1. Streaks(c)' # {}
      BY <2>4 DEF H2, H3
    <3>2. PICK t : Pair(c, t)'
      BY <1>2, <3>1, StreaksPairNext DEF StreaksArePairs
    <3>3. Pair(c, t) /\ LastEvidence(c)' = LastEvidence(c)
      BY <1>1, <1>2, <3>2, SameEvidence
    <3>4. Streaks(c) # {}
      BY <1>2, <3>3, PairHasStreak
    <3> QED
      BY <2>4, <3>3, <3>4 DEF NoneNewer
  <2> QED
    BY <1>4, <2>1, <2>2, <2>3, <2>4
<1> QED
  BY <1>1, <1>2, <1>4, <1>5, <1>6, <1>7, <1>8, <1>9 DEF AuthorityInv

(* The invariant is one of the state. *)
LEMMA SameStateSameInv ==
  ASSUME AuthorityInv, UNCHANGED authorityVars
  PROVE  AuthorityInv'
<1>1. /\ now' = now /\ events' = events /\ weak' = weak /\ gaps' = gaps
      /\ awaited' = awaited /\ misses' = misses /\ decision' = decision
      /\ shown' = shown /\ fresh' = fresh
  BY DEF authorityVars
<1>2. Evidence' /\ Evidence
  BY <1>1 DEF AuthorityInv, Evidence
<1>3. NoStreakYet'
  BY <1>1, <1>2, SameEvidence DEF AuthorityInv, NoStreakYet
<1>4. CountdownIsHonest'
  <2> SUFFICES ASSUME fresh, shown.countdown, decision.state # "new_regime_established",
                      NEW c \in Classes \ {decision.selected.class}, (H2(c) \/ H3(c))'
               PROVE  LastEvidence(c)' <= (LastAligned(decision.selected))'
    BY <1>1 DEF AuthorityInv, CountdownIsHonest
  <2>1. Streaks(c)' # {}
    BY DEF H2, H3
  <2>2. PICK t : Pair(c, t)'
    BY <1>2, <2>1, StreaksPairNext DEF StreaksArePairs
  <2>3. Pair(c, t) /\ LastEvidence(c)' = LastEvidence(c)
    BY <1>1, <1>2, <2>2, SameEvidence
  <2>4. H2(c)
    BY <1>2, <2>3, PairHasStreak, StreakMeansGate
  <2>5. (LastAligned(decision.selected))' = LastAligned(decision.selected)
    BY <1>1 DEF LastAligned, On
  <2> QED
    BY <2>3, <2>4, <2>5 DEF AuthorityInv, CountdownIsHonest
<1>5. LedgerFits' /\ (decision.incumbent = NoRegime \/ IsRegime(decision.incumbent))'
  BY <1>1 DEF AuthorityInv, LedgerFits, IsRegime
<1> QED
  BY <1>1, <1>2, <1>3, <1>4, <1>5 DEF AuthorityInv

LEMMA AuthorityInvStep == AuthorityInv /\ [AuthorityNext]_authorityVars => AuthorityInv'
<1> SUFFICES ASSUME AuthorityInv, [AuthorityNext]_authorityVars PROVE AuthorityInv'
  OBVIOUS
<1>1. CASE Restart \/ Quiet \/ Unwatched
  BY <1>1, TicksKeepAuthorityInv
<1>2. CASE Evaluate
  BY <1>2, EvaluateKeepsAuthorityInv
<1>3. CASE UNCHANGED authorityVars
  BY <1>3, SameStateSameInv
<1> QED
  BY <1>1, <1>2, <1>3 DEF AuthorityNext

LEMMA AuthorityAlways == AuthoritySpec => []AuthorityInv
BY AuthorityInvInit, AuthorityInvStep, PTL DEF AuthoritySpec

(* The variables of the authority keep their types. *)
THEOREM AuthorityTyped == AuthoritySpec => []AuthorityTypeOK
<1>1. AuthorityInv => AuthorityTypeOK
  BY AuthorityAssumption DEF AuthorityInv, Evidence, IsRegime, LedgerFits, AuthorityTypeOK
<1> QED
  BY <1>1, AuthorityAlways, PTL

(* No countdown while another class with a gate has newer evidence than all
   that agrees with the shown one, unless that one has just superseded the
   schedule before it. *)
THEOREM CountdownHonest == AuthoritySpec => []CountdownIsHonest
<1>1. AuthorityInv => CountdownIsHonest
  BY DEF AuthorityInv
<1> QED
  BY <1>1, AuthorityAlways, PTL

(* A schedule once believed is given up only for one established by later
   evidence. *)
THEOREM BeliefsGoForward == AuthoritySpec => BeliefsMoveForward
<1>1. AuthorityInv /\ [AuthorityNext]_authorityVars =>
        (decision.incumbent # NoRegime =>
           LET old == decision.incumbent
               new == decision'.incumbent
           IN SameBelief(old, new) \/ (new.class # old.class /\ new.at > old.at))
  <2> SUFFICES ASSUME AuthorityInv, [AuthorityNext]_authorityVars, decision.incumbent # NoRegime
               PROVE  LET old == decision.incumbent
                          new == decision'.incumbent
                      IN SameBelief(old, new) \/ (new.class # old.class /\ new.at > old.at)
    OBVIOUS
  <2>1. CASE decision' = decision
    BY <2>1 DEF SameBelief
  <2>2. CASE Evaluate
    <3>1. PICK s \in Scores : decision' = evaluate_authority(s, decision)
      BY <2>2 DEF Evaluate
    <3>2. Decides(s)
      BY FirstDecision, LaterDecision
    <3> QED
      BY <3>1, <3>2 DEF Decides
  <2> QED
    BY <2>1, <2>2 DEF AuthorityNext, Restart, Quiet, Unwatched, Tick, authorityVars
<1> QED
  BY <1>1, AuthorityAlways, PTL DEF AuthoritySpec, BeliefsMoveForward

=============================================================================
