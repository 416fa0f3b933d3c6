----------------------------- MODULE WorkshopProofs -----------------------------
(***************************************************************************)
(* Proofs about the two ways the launcher changes the Workshop, for any    *)
(* items, libraries, backups and any number of failing calls, restarts of  *)
(* Steam and actions of its user: first the cleanups (WorkshopCleanup),    *)
(* then the preparations and repairs (RequiredMods).                       *)
(***************************************************************************)
EXTENDS Workshop, FiniteSetTheorems, SequenceTheorems, TLAPS

(* The cleanups.  A job is a record of this type. *)
Cleaning == [at: Positions, mode: Modes, ids: SUBSET Mods, todo: SUBSET Mods,
             failures: BOOLEAN, next: 1..(4 * NumLibraries + 1),
             lib: 1..(NumLibraries + 1), read: SUBSET Mods]

(* Pruning keeps exactly the backups it was not told to drop. *)
LEMMA PruneKeepsSequences ==
  ASSUME NEW S, NEW b \in Seq(S), NEW gone
  PROVE  /\ Without(b, gone) \in Seq(S)
         /\ \A i \in DOMAIN b \ gone : \E k \in DOMAIN Without(b, gone) : Without(b, gone)[k] = b[i]
         /\ \A k \in DOMAIN Without(b, gone) : \E i \in DOMAIN b \ gone : Without(b, gone)[k] = b[i]
<1> DEFINE kept == DOMAIN b \ gone
           n == Cardinality(kept)
           below(i) == {j \in kept : j <= i}
           rank == [i \in kept |-> Rank(kept, i)]
<1>1. IsFiniteSet(kept) /\ n \in Nat /\ kept \subseteq Nat
  <2>1. kept \subseteq 1..Len(b) /\ Len(b) \in Nat OBVIOUS
  <2>2. IsFiniteSet(1..Len(b)) BY <2>1, FS_Interval
  <2>3. QED BY <2>1, <2>2, FS_Subset, FS_CardinalityType
<1>2. ASSUME NEW i \in kept
      PROVE  /\ IsFiniteSet(below(i))
             /\ Rank(kept, i) = Cardinality(below(i)) /\ Rank(kept, i) \in 1..n
  <2>1. below(i) \subseteq kept /\ i \in below(i) BY <1>1
  <2>2. IsFiniteSet(below(i)) /\ Cardinality(below(i)) <= n BY <1>1, <2>1, FS_Subset
  <2>3. Cardinality(below(i)) \in Nat /\ Cardinality(below(i)) # 0
    BY <2>1, <2>2, FS_CardinalityType, FS_EmptySet
  <2>4. QED BY <1>1, <2>2, <2>3 DEF Rank
<1>3. ASSUME NEW i \in kept, NEW j \in kept, Rank(kept, i) = Rank(kept, j) PROVE i = j
  <2>1. SUFFICES ASSUME NEW x \in kept, NEW y \in kept, x < y, Rank(kept, x) = Rank(kept, y)
                 PROVE  FALSE
    BY <1>1, <1>3
  <2>2. below(x) \subseteq below(y) /\ y \in below(y) /\ y \notin below(x) BY <1>1, <2>1
  <2>3. Cardinality(below(x)) = Cardinality(below(y)) BY <1>2, <2>1
  <2>4. below(x) = below(y) BY <1>2, <2>2, <2>3, FS_Subset
  <2>5. QED BY <2>2, <2>4
<1>4. rank \in Injection(kept, 1..n)
  BY <1>2, <1>3 DEF Injection, IsInjective
<1>5. IsFiniteSet(1..n) /\ Cardinality(1..n) = n BY <1>1, FS_Interval
<1>6. \A k \in 1..n : \E i \in kept : Rank(kept, i) = k
  <2>1. Cardinality(kept) = Cardinality(1..n) BY <1>5
  <2>2. rank \in Surjection(kept, 1..n) BY <1>4, <1>5, <2>1, FS_Injection
  <2>3. QED BY <2>2 DEF Surjection
<1>7. Without(b, gone) = [k \in 1..n |-> b[CHOOSE i \in kept : Rank(kept, i) = k]]
  BY DEF Without
<1>8. \A k \in 1..n : \E i \in kept : Rank(kept, i) = k /\ Without(b, gone)[k] = b[i]
  <2>1. SUFFICES ASSUME NEW k \in 1..n
                 PROVE  \E i \in kept : Rank(kept, i) = k /\ Without(b, gone)[k] = b[i]
    OBVIOUS
  <2>2. PICK i \in kept : Rank(kept, i) = k BY <1>6
  <2>3. Without(b, gone)[k] = b[CHOOSE j \in kept : Rank(kept, j) = k] BY <1>7
  <2>4. (CHOOSE j \in kept : Rank(kept, j) = k) \in kept
        /\ Rank(kept, CHOOSE j \in kept : Rank(kept, j) = k) = k
    BY <2>2
  <2>5. QED BY <2>3, <2>4
<1>9. DOMAIN Without(b, gone) = 1..n BY <1>7
<1> HIDE DEF kept, n, below, rank
<1>10. ASSUME NEW i \in kept PROVE \E k \in 1..n : Without(b, gone)[k] = b[i]
  <2>1. Rank(kept, i) \in 1..n BY <1>2
  <2>2. PICK j \in kept : Rank(kept, j) = Rank(kept, i)
                          /\ Without(b, gone)[Rank(kept, i)] = b[j]
    BY <1>8, <2>1
  <2>3. j = i BY <1>3, <2>2
  <2>4. QED BY <2>1, <2>2, <2>3
<1>11. \A i \in kept : b[i] \in S BY DEF kept
<1>12. Without(b, gone) \in Seq(S)
  <2>1. \A k \in 1..n : Without(b, gone)[k] \in S BY <1>8, <1>11
  <2>2. Without(b, gone) \in [1..n -> S] BY <1>7, <2>1
  <2>3. QED BY <1>1, <2>2
<1>13. kept = DOMAIN b \ gone BY DEF kept
<1>14. QED BY <1>8, <1>9, <1>10, <1>12, <1>13

ACF == {"acf_read", "acf_backup", "acf_fill", "acf_replace", "acf_prune"}
Asking == {"query", "unsubscribe", "confirm", "verify"}
Scrubbing == {"scrub_read", "scrub_query"}

(* Where a cleanup of each kind can be, and what it has counted there. *)
JobInv ==
  /\ job.mode = "offline" => job.at \in ACF \cup {"delete", "metadata"}
  /\ job.mode = "stale" => job.at \in ACF \cup Scrubbing \cup {"acf_query"}
  /\ job.at \in Scrubbing => job.mode \in {"repair", "stale"}
  /\ job.at = "scrub_next" => job.mode = "repair"
  /\ job.at \in Asking \cup {"delete"} => \E m \in Mods : job.ids = {m}
  /\ job.at \in Asking \cup Scrubbing => job.next = 1
  /\ job.at \in Asking \cup Scrubbing \cup {"delete", "acf_query"} => job.lib = 1
  /\ job.at \in ACF \ {"acf_read"} => job.lib \in Libraries

(* Who is not subscribed has been unsubscribed, and what is being deleted was. *)
Entitled ==
  /\ Busy /\ job.mode # "offline" => Mods \ subscribed \subseteq unsubscribedOnce
  /\ At("delete") => job.ids \subseteq unsubscribedOnce

(* How far the deletion of an item has come, unless something of it came back
   behind the cleanup's back.                                                *)
NoFiles(m) == m \notin links /\ \A f \in files : f[3] # m

Progress(m) ==
  /\ At("delete") => \A i \in 1..(job.next - 1) : Plan(m)[i] \notin files
  /\ job.at \in ACF \cup {"acf_query", "metadata"} => NoFiles(m)
  /\ job.at \in ACF => \A l \in 1..(job.lib - 1) : m \notin acf[l]
  /\ At("acf_prune") => m \notin acf[job.lib]
  /\ At("metadata") => \A l \in Libraries : m \notin acf[l]
  /\ job.at \in {"delete", "acf_query"} /\ job.mode # "offline" => m \notin subscribed

DeletedInv ==
  /\ DeletedMeansGone
  /\ job.at \in {"acf_backup", "acf_fill", "acf_replace"} => job.read \cap deleted \subseteq touched
  /\ job.mode # "stale" => \A m \in job.ids \ touched : Progress(m)

(* What the last rewrite of an ACF replaced is in a complete backup; the newest
   one is the one being written.                                              *)
Newest(l) == Last(backups[l])
Backed(l, content) ==
  \E i \in DOMAIN backups[l] : backups[l][i].complete /\ backups[l][i].content = content
BackupInv ==
  /\ \A l \in Libraries : \A content \in replaced[l] : Backed(l, content)
  /\ job.at \in {"acf_fill", "acf_replace", "acf_prune"} =>
       /\ Len(backups[job.lib]) > 0
       /\ At("acf_fill") <=> ~Newest(job.lib).complete
       /\ ~At("acf_fill") => Newest(job.lib).content = job.read
  /\ At("acf_prune") => replaced[job.lib] = {job.read}

(* A cleanup in trouble has somebody to blame. *)
BlameInv ==
  ~disturbed =>
    /\ job.at \notin {"failed", "confirm"} /\ ~job.failures
    /\ Busy /\ job.mode # "offline" => steam
    /\ At("verify") => job.ids \cap subscribed = {}

CleanupInv == TypeOK /\ JobInv /\ Entitled /\ DeletedInv /\ BackupInv /\ BlameInv

LEMMA PlanCovers ==
  ASSUME NEW m \in Mods, NEW f \in files, files \subseteq Libraries \X KindNames \X Mods, f[3] = m
  PROVE  \E i \in 1..(4 * NumLibraries) : Plan(m)[i] = f
<1>1. PICK l \in Libraries, k \in KindNames : f = <<l, k, m>> OBVIOUS
<1>2. PICK c \in 1..4 : Kinds[c] = k BY DEF Kinds, KindNames
<1>3. l \in Int /\ l >= 1 /\ l <= NumLibraries /\ c \in Int
  BY CleanupAssumption DEF Libraries
<1> DEFINE i == 4 * (l - 1) + c
<1>4. i \in 1..(4 * NumLibraries) BY <1>3, CleanupAssumption
<1>5. (i - 1) \div 4 = l - 1 /\ (i - 1) % 4 = c - 1 BY <1>3
<1>6. ((i - 1) \div 4) + 1 = l /\ ((i - 1) % 4) + 1 = c BY <1>3, <1>5
<1>7. Plan(m)[i] = <<l, k, m>> BY <1>2, <1>4, <1>6 DEF Plan
<1>8. QED BY <1>1, <1>4, <1>7

LEMMA PlanInOrder ==
  ASSUME NEW m \in Mods, NEW i \in 1..(4 * NumLibraries)
  PROVE  Plan(m)[i][3] = m
BY DEF Plan

LEMMA EndedDoes ==
  ASSUME NEW result \in {"ok", "failed"}
  PROVE  /\ Ended(result) \in Cleaning /\ Ended(result).at = result
         /\ Ended(result).mode = "delete" /\ Ended(result).ids = {}
         /\ Ended(result).failures = FALSE
<1>1. 1 \in 1..(4 * NumLibraries + 1) /\ 1 \in 1..(NumLibraries + 1)
  BY CleanupAssumption
<1>2. NoJob \in Cleaning BY <1>1 DEF NoJob, Cleaning, Positions, Modes
<1> DEFINE n == NoJob
<1>3. n.mode = "delete" /\ n.ids = {} /\ n.failures = FALSE BY DEF NoJob
<1>4. n \in Cleaning BY <1>2
<1> HIDE DEF n
<1>5. [n EXCEPT !.at = result] \in Cleaning BY <1>4 DEF Cleaning, Positions
<1>6. Ended(result) = [n EXCEPT !.at = result] BY DEF Ended, n
<1>7. QED BY <1>3, <1>4, <1>5, <1>6 DEF Cleaning

LEMMA FailedDoes ==
  ASSUME TypeOK
  PROVE  /\ Failed \in Cleaning
         /\ \/ Failed = Ended("failed")
            \/ /\ job.mode = "repair" /\ Failed.at = "scrub_next" /\ Failed.mode = "repair"
               /\ Failed.failures = TRUE /\ Failed.ids = job.ids
<1>1. job \in Cleaning BY DEF TypeOK, Cleaning
<1>2. CASE job.mode = "repair" /\ job.at \notin {"scrub_read", "scrub_query"}
  <2>1. Failed = [job EXCEPT !.at = "scrub_next", !.failures = TRUE] BY <1>2 DEF Failed
  <2>2. QED BY <1>1, <1>2, <2>1 DEF Cleaning, Positions
<1>3. CASE ~(job.mode = "repair" /\ job.at \notin {"scrub_read", "scrub_query"})
  BY <1>3, EndedDoes DEF Failed
<1>4. QED BY <1>2, <1>3

(* A position at which nothing is claimed of the job. *)
LEMMA RestingIsSafe ==
  ASSUME CleanupInv, job' \in Cleaning, job'.at \in {"idle", "ok", "failed"}, job'.mode = "delete",
         UNCHANGED <<files, acf, links, deleted, touched, replaced>>,
         \A l \in Libraries : \A content \in replaced[l] : Backed(l, content)',
         ~disturbed' => job'.at # "failed" /\ ~job'.failures
  PROVE  JobInv' /\ Entitled' /\ DeletedInv' /\ BackupInv' /\ BlameInv'
<1>1. JobInv' BY DEF JobInv, ACF, Asking, Scrubbing
<1>2. Entitled' BY DEF Entitled, Busy, At
<1>3. DeletedInv'
  BY DEF CleanupInv, DeletedInv, DeletedMeansGone, Gone, Progress, ACF, At
<1>4. BackupInv' BY DEF BackupInv, At
<1>5. BlameInv' BY DEF BlameInv, Busy, At
<1>6. QED BY <1>1, <1>2, <1>3, <1>4, <1>5

LEMMA ToggleSteamKeeps == ASSUME CleanupInv, ToggleSteam PROVE CleanupInv'
<1> USE DEF ToggleSteam, SteamStep
<1>1. TypeOK' BY CleanupAssumption DEF CleanupInv, TypeOK
<1>2. JobInv' BY DEF CleanupInv, JobInv
<1>3. Entitled' BY DEF CleanupInv, Entitled, Busy, At
<1>4. DeletedInv' BY DEF CleanupInv, DeletedInv, DeletedMeansGone, Gone, Progress, NoFiles, At
<1>5. BackupInv' BY DEF CleanupInv, BackupInv, Backed, Newest, At
<1>6. BlameInv' BY DEF BlameInv
<1>7. QED BY <1>1, <1>2, <1>3, <1>4, <1>5, <1>6 DEF CleanupInv

LEMMA SubscribeKeeps == ASSUME CleanupInv, NEW m \in Mods, Subscribe(m) PROVE CleanupInv'
<1> USE DEF Subscribe, SteamStep
<1>0. 1 \in Libraries BY CleanupAssumption DEF Libraries
<1>1. TypeOK'
  <2>1. files' \subseteq Libraries \X KindNames \X Mods
    BY <1>0 DEF CleanupInv, TypeOK, KindNames
  <2>2. acf' \in [Libraries -> SUBSET Mods] BY DEF CleanupInv, TypeOK
  <2>3. QED BY <2>1, <2>2, CleanupAssumption DEF CleanupInv, TypeOK
<1>2. JobInv' BY DEF CleanupInv, JobInv
<1>3. Entitled' BY DEF CleanupInv, Entitled, Busy, At
<1>4. DeletedInv'
  <2>1. /\ \A x \in Mods \ touched' : x # m /\ x \notin touched
        /\ \A x \in Mods \ touched' : x \notin subscribed => x \notin subscribed'
        /\ \A f \in files' : f[3] # m => f \in files
        /\ \A l \in Libraries, x \in Mods \ touched' : x \notin acf[l] => x \notin acf'[l]
    BY DEF CleanupInv, TypeOK
  <2>2. job.ids \subseteq Mods /\ deleted \subseteq Mods BY DEF CleanupInv, TypeOK
  <2>3. DeletedMeansGone'
    BY <2>1, <2>2 DEF CleanupInv, DeletedInv, DeletedMeansGone, Gone
  <2>4. ASSUME NEW x \in job.ids \ touched', job.mode # "stale" PROVE Progress(x)'
    <3>1. Progress(x) /\ x # m /\ x \in Mods
      BY <2>1, <2>2, <2>4 DEF CleanupInv, DeletedInv
    <3>2. \A i \in 1..(job.next - 1) : Plan(x)[i] \in files' => Plan(x)[i] \in files
      BY <2>1, <3>1, PlanInOrder, CleanupAssumption DEF CleanupInv, TypeOK
    <3>3. NoFiles(x) => NoFiles(x)' BY <2>1, <3>1 DEF NoFiles
    <3>4. \A l \in 1..(job.lib - 1) : l \in Libraries
      BY CleanupAssumption DEF CleanupInv, TypeOK, Libraries
    <3>5. job.at = "acf_prune" => job.lib \in Libraries BY DEF CleanupInv, JobInv, ACF
    <3>6. QED BY <2>1, <2>4, <3>1, <3>2, <3>3, <3>4, <3>5 DEF Progress, At
  <2>5. QED BY <2>3, <2>4 DEF CleanupInv, DeletedInv
<1>5. BackupInv' BY DEF CleanupInv, BackupInv, Backed, Newest, At
<1>6. BlameInv' BY DEF BlameInv
<1>7. QED BY <1>1, <1>2, <1>3, <1>4, <1>5, <1>6 DEF CleanupInv

LEMMA UnsubscribeKeeps ==
  ASSUME CleanupInv, NEW m \in Mods, NEW removes \in BOOLEAN, Unsubscribe(m, removes),
         UNCHANGED <<links, backups, snapshot, clock, job, deleted, replaced, jobs, faults>>,
         disturbed' \in BOOLEAN, disturbed => disturbed', steps' \in 0..MaxSteam
  PROVE  CleanupInv'
<1> USE DEF Unsubscribe
<1>0. /\ files' \subseteq files
      /\ \A l \in Libraries : acf'[l] \subseteq acf[l]
      /\ acf' \in [Libraries -> SUBSET Mods]
  BY DEF CleanupInv, TypeOK
<1>1. TypeOK' BY <1>0 DEF CleanupInv, TypeOK
<1>2. JobInv' BY DEF CleanupInv, JobInv
<1>3. Entitled' BY DEF CleanupInv, Entitled, Busy, At
<1>4. DeletedInv'
  <2>1. job.ids \subseteq Mods /\ deleted \subseteq Mods BY DEF CleanupInv, TypeOK
  <2>2. DeletedMeansGone'
    BY <1>0, <2>1 DEF CleanupInv, DeletedInv, DeletedMeansGone, Gone
  <2>3. ASSUME NEW x \in job.ids \ touched', job.mode # "stale" PROVE Progress(x)'
    <3>1. Progress(x) BY <2>3 DEF CleanupInv, DeletedInv
    <3>2. NoFiles(x) => NoFiles(x)' BY <1>0 DEF NoFiles
    <3>3. \A l \in 1..(job.lib - 1) : l \in Libraries
      BY CleanupAssumption DEF CleanupInv, TypeOK, Libraries
    <3>4. job.at = "acf_prune" => job.lib \in Libraries BY DEF CleanupInv, JobInv, ACF
    <3>5. QED BY <1>0, <3>1, <3>2, <3>3, <3>4 DEF Progress, At
  <2>4. QED BY <2>2, <2>3 DEF CleanupInv, DeletedInv
<1>5. BackupInv' BY DEF CleanupInv, BackupInv, Backed, Newest, At
<1>6. BlameInv' BY DEF CleanupInv, BlameInv, Busy, At
<1>7. QED BY <1>1, <1>2, <1>3, <1>4, <1>5, <1>6 DEF CleanupInv

LEMMA WorldKeeps ==
  ASSUME CleanupInv,
         \/ ToggleSteam \/ \E m \in Mods : Subscribe(m) \/ UserUnsubscribes(m)
                                           \/ UnsubscriptionTakesEffect(m)
  PROVE  CleanupInv'
<1>1. CASE ToggleSteam BY <1>1, ToggleSteamKeeps
<1>2. ASSUME NEW m \in Mods, Subscribe(m) PROVE CleanupInv' BY <1>2, SubscribeKeeps
<1>3. ASSUME NEW m \in Mods, UserUnsubscribes(m) PROVE CleanupInv'
  <2>1. PICK removes \in BOOLEAN : Unsubscribe(m, removes) BY <1>3 DEF UserUnsubscribes
  <2>2. steps' \in 0..MaxSteam
    BY <1>3, CleanupAssumption DEF UserUnsubscribes, SteamStep, CleanupInv, TypeOK
  <2>3. QED BY <1>3, <2>1, <2>2, UnsubscribeKeeps DEF UserUnsubscribes, SteamStep
<1>4. ASSUME NEW m \in Mods, UnsubscriptionTakesEffect(m) PROVE CleanupInv'
  <2>1. PICK removes \in BOOLEAN : Unsubscribe(m, removes) BY <1>4 DEF UnsubscriptionTakesEffect
  <2>2. QED
    BY <1>4, <2>1, UnsubscribeKeeps DEF UnsubscriptionTakesEffect, spent, CleanupInv, TypeOK
<1>5. QED BY <1>1, <1>2, <1>3, <1>4

(* The clock, the snapshot: nothing is claimed of them. *)
LEMMA IdleKeeps ==
  ASSUME CleanupInv, TakeSnapshot \/ SnapshotExpires \/ \E t \in 0..MaxClock : SetClock(t)
  PROVE  CleanupInv'
<1>1. UNCHANGED <<world, disk, job, history, spent>>
  BY DEF TakeSnapshot, SnapshotExpires, SetClock
<1>2. snapshot' \in [off: SUBSET Mods, fresh: BOOLEAN] /\ clock' \in 0..MaxClock
  <2>1. snapshot \in [off: SUBSET Mods, fresh: BOOLEAN] /\ clock \in 0..MaxClock
    BY DEF CleanupInv, TypeOK
  <2>2. CASE TakeSnapshot BY <2>1, <2>2 DEF TakeSnapshot, Proves
  <2>3. CASE SnapshotExpires BY <2>1, <2>3 DEF SnapshotExpires
  <2>4. CASE \E t \in 0..MaxClock : SetClock(t) BY <2>1, <2>4 DEF SetClock
  <2>5. QED BY <2>2, <2>3, <2>4
<1> USE DEF world, disk, history, spent
<1>3. TypeOK' BY <1>1, <1>2 DEF CleanupInv, TypeOK
<1>4. JobInv' /\ Entitled' BY <1>1 DEF CleanupInv, JobInv, Entitled, Busy, At
<1>5. DeletedInv'
  BY <1>1 DEF CleanupInv, DeletedInv, DeletedMeansGone, Gone, Progress, NoFiles, At
<1>6. BackupInv' /\ BlameInv'
  BY <1>1 DEF CleanupInv, BackupInv, Backed, Newest, BlameInv, Busy, At
<1>7. QED BY <1>3, <1>4, <1>5, <1>6 DEF CleanupInv

-----------------------------------------------------------------------------
(* A cleanup starts. *)
LEMMA StartsKeeps ==
  ASSUME CleanupInv, NEW mode \in Modes, NEW at, NEW ids \in SUBSET Mods, NEW off \in SUBSET Mods,
         Starts(mode, at, ids, off),
         \/ mode = "delete" /\ at = "query" /\ off = Mods \ subscribed /\ \E m \in Mods : ids = {m}
         \/ mode = "offline" /\ at = "delete" /\ ids \subseteq off /\ \E m \in Mods : ids = {m}
         \/ mode \in {"repair", "stale"} /\ at = "scrub_read" /\ off = Mods \ subscribed
  PROVE  CleanupInv'
<1>0. /\ job' \in Cleaning /\ job'.mode = mode /\ job'.at = at /\ job'.ids = ids
      /\ job'.next = 1 /\ job'.lib = 1 /\ job'.failures = FALSE /\ job'.todo = {}
  <2> DEFINE a == [NoJob EXCEPT !.mode = mode]
             b == [a EXCEPT !.at = at]
  <2>1. NoJob \in Cleaning /\ NoJob.next = 1 /\ NoJob.lib = 1 /\ NoJob.failures = FALSE
        /\ NoJob.todo = {}
    <3>1. 1 \in 1..(4 * NumLibraries + 1) /\ 1 \in 1..(NumLibraries + 1)
      BY CleanupAssumption
    <3>2. QED BY <3>1 DEF NoJob, Cleaning, Positions, Modes
  <2>2. a \in Cleaning /\ a.mode = mode /\ a.next = 1 /\ a.lib = 1 /\ a.failures = FALSE
        /\ a.todo = {}
    BY <2>1 DEF Cleaning
  <2> HIDE DEF a
  <2>3. at \in Positions BY DEF Positions
  <2>4. b \in Cleaning /\ b.mode = mode /\ b.at = at /\ b.next = 1 /\ b.lib = 1
        /\ b.failures = FALSE /\ b.todo = {}
    BY <2>2, <2>3 DEF Cleaning
  <2>5. job' = [b EXCEPT !.ids = ids] BY DEF Starts, a
  <2> HIDE DEF b
  <2>6. QED BY <2>4, <2>5 DEF Cleaning
<1>1. /\ UNCHANGED <<world, disk, snapshot, clock, touched, deleted, replaced, steps, faults>>
      /\ jobs' \in 0..MaxJobs /\ unsubscribedOnce' = off /\ disturbed' \in BOOLEAN
      /\ ~disturbed' => steam \/ mode = "offline"
  <2>1. jobs' \in 0..MaxJobs
    <3>1. jobs \in 0..MaxJobs /\ MaxJobs \in Nat
      BY CleanupAssumption DEF CleanupInv, TypeOK
    <3>2. jobs < MaxJobs /\ jobs' = jobs + 1 BY DEF Starts
    <3>3. QED BY <3>1, <3>2
  <2>2. disturbed' = (~steam /\ mode # "offline") /\ steam \in BOOLEAN
    BY DEF Starts, CleanupInv, TypeOK
  <2>3. disturbed' \in BOOLEAN /\ (~disturbed' => steam \/ mode = "offline") BY <2>2
  <2>4. QED BY <2>1, <2>3 DEF Starts
<1> USE DEF world, disk
<1>2. TypeOK' BY <1>0, <1>1 DEF CleanupInv, TypeOK, Cleaning
<1>3. JobInv' BY <1>0 DEF JobInv, ACF, Asking, Scrubbing
<1>4. Entitled' BY <1>0, <1>1 DEF Entitled, At
<1>5. DeletedInv'
  <2>1. DeletedMeansGone' BY <1>1 DEF CleanupInv, DeletedInv, DeletedMeansGone, Gone
  <2>2. \A x \in job'.ids : job'.mode # "stale" => Progress(x)'
    BY <1>0, <1>1 DEF Progress, At, ACF
  <2>3. QED BY <1>0, <2>1, <2>2 DEF DeletedInv
<1>6. BackupInv' BY <1>0, <1>1 DEF CleanupInv, BackupInv, Backed, At
<1>7. BlameInv' BY <1>0, <1>1 DEF BlameInv, At
<1>8. QED BY <1>2, <1>3, <1>4, <1>5, <1>6, <1>7 DEF CleanupInv

LEMMA CleanupStarts ==
  ASSUME CleanupInv,
         \/ \E m \in Mods : StartDelete(m) \/ StartOffline(m)
         \/ \E mode \in Modes : StartScrub(mode)
  PROVE  CleanupInv'
<1>1. ASSUME NEW m \in Mods, StartDelete(m) PROVE CleanupInv'
  <2>1. "delete" \in Modes /\ {m} \subseteq Mods /\ Mods \ subscribed \subseteq Mods
    BY DEF Modes
  <2>2. QED BY <1>1, <2>1, StartsKeeps DEF StartDelete
<1>2. ASSUME NEW m \in Mods, StartOffline(m) PROVE CleanupInv'
  <2>1. /\ "offline" \in Modes /\ {m} \subseteq Mods
        /\ snapshot.off \subseteq Mods /\ m \in snapshot.off
    BY <1>2 DEF Modes, CleanupInv, TypeOK, StartOffline
  <2>2. QED BY <1>2, <2>1, StartsKeeps DEF StartOffline
<1>3. ASSUME NEW mode \in Modes, StartScrub(mode) PROVE CleanupInv'
  <2>1. {} \subseteq Mods /\ Mods \ subscribed \subseteq Mods OBVIOUS
  <2>2. QED BY <1>3, <2>1, StartsKeeps DEF StartScrub
<1>4. QED BY <1>1, <1>2, <1>3

-----------------------------------------------------------------------------
(* A step of a cleanup leaves the outside alone. *)
LEMMA GivesKeeps ==
  ASSUME CleanupInv, Keeps, job' \in Cleaning,
         JobInv', Entitled', DeletedInv', BackupInv', BlameInv'
  PROVE  CleanupInv'
<1>1. TypeOK'
  BY DEF Keeps, world, disk, history, spent, CleanupInv, TypeOK, Cleaning
<1>2. QED BY <1>1 DEF CleanupInv

(* Where nothing is claimed of the job's items. *)
Between == {"idle", "ok", "failed", "scrub_read", "scrub_query", "scrub_next",
            "query", "unsubscribe", "confirm", "verify"}

LEMMA BetweenKeeps ==
  ASSUME CleanupInv, job'.at \in Between,
         UNCHANGED <<files, acf, links, deleted, touched, replaced>>,
         \A l \in Libraries : \A content \in replaced[l] : Backed(l, content)'
  PROVE  DeletedInv' /\ BackupInv'
<1>1. DeletedMeansGone' BY DEF CleanupInv, DeletedInv, DeletedMeansGone, Gone
<1>2. \A m : Progress(m)' BY DEF Progress, At, Between, ACF
<1>3. DeletedInv' BY <1>1, <1>2 DEF DeletedInv, Between
<1>4. BackupInv' BY DEF BackupInv, At, Between
<1>5. QED BY <1>3, <1>4

LEMMA StillBacked ==
  ASSUME CleanupInv, UNCHANGED <<backups, replaced>>
  PROVE  \A l \in Libraries : \A content \in replaced[l] : Backed(l, content)'
BY DEF CleanupInv, BackupInv, Backed

(* A query, a command or a call that fails, with somebody to blame. *)
LEMMA FailingKeeps ==
  ASSUME CleanupInv, Busy, job' = Failed, disturbed',
         UNCHANGED <<steam, subscribed, files, acf, links, deleted, touched, replaced,
                     unsubscribedOnce>>,
         \A l \in Libraries : \A content \in replaced[l] : Backed(l, content)'
  PROVE  /\ job' \in Cleaning /\ JobInv' /\ Entitled' /\ DeletedInv' /\ BackupInv' /\ BlameInv'
<1>1. /\ job' \in Cleaning
      /\ \/ job' = Ended("failed") /\ job'.at = "failed" /\ job'.mode = "delete"
         \/ job.mode = "repair" /\ job'.at = "scrub_next" /\ job'.mode = "repair"
  BY FailedDoes, EndedDoes DEF CleanupInv
<1>2. JobInv' BY <1>1 DEF JobInv, ACF, Asking, Scrubbing
<1>4. Entitled' BY <1>1 DEF CleanupInv, Entitled, Busy, At
<1>5. DeletedInv' /\ BackupInv' BY <1>1, BetweenKeeps DEF Between
<1>6. BlameInv' BY DEF BlameInv
<1>7. QED BY <1>1, <1>2, <1>4, <1>5, <1>6

LEMMA FaultKeeps == ASSUME CleanupInv, Fault PROVE CleanupInv'
<1>1. /\ Busy /\ job' = Failed /\ disturbed' = TRUE /\ faults' \in 0..MaxFaults
      /\ UNCHANGED <<steam, subscribed, files, acf, links, snapshot, clock,
                     unsubscribedOnce, touched, deleted, replaced, jobs, steps>>
  BY CleanupAssumption DEF Fault, CleanupInv, TypeOK
<1>2. leaving' \subseteq Mods BY DEF Fault, CleanupInv, TypeOK
<1>3. /\ backups' \in [Libraries -> Seq(Backup)]
      /\ \A l \in Libraries : \A content \in replaced[l] : Backed(l, content)'
  <2>1. CASE ~At("acf_fill")
    BY <1>1, <2>1, StillBacked DEF Fault, CleanupInv, TypeOK
  <2>2. CASE At("acf_fill")
    <3> DEFINE k == job.lib
               b == backups[k]
    <3>1. k \in Libraries /\ b \in Seq(Backup) /\ Len(b) > 0 /\ ~b[Len(b)].complete
      BY <2>2 DEF CleanupInv, TypeOK, JobInv, BackupInv, ACF, At, Newest, Last
    <3>2. backups' = [backups EXCEPT ![k] = Front(b)]
      BY <2>2 DEF Fault
    <3>3. Front(b) \in Seq(Backup) /\ Len(Front(b)) = Len(b) - 1
          /\ \A i \in 1..(Len(b) - 1) : Front(b)[i] = b[i]
      BY <3>1 DEF Front
    <3>4. backups' \in [Libraries -> Seq(Backup)]
      BY <3>2, <3>3 DEF CleanupInv, TypeOK
    <3>5. ASSUME NEW l \in Libraries, NEW content \in replaced[l] PROVE Backed(l, content)'
      <4>1. Backed(l, content) BY <3>5 DEF CleanupInv, BackupInv
      <4>2. CASE l # k BY <3>2, <4>1, <4>2 DEF Backed, CleanupInv, TypeOK
      <4>3. CASE l = k
        <5>1. PICK i \in DOMAIN b : b[i].complete /\ b[i].content = content
          BY <4>1, <4>3 DEF Backed
        <5>2. i \in 1..(Len(b) - 1) BY <3>1, <5>1
        <5>3. backups'[l] = Front(b) BY <3>1, <3>2, <4>3 DEF CleanupInv, TypeOK
        <5>4. i \in DOMAIN Front(b) /\ Front(b)[i] = b[i] BY <3>1, <3>3, <5>2
        <5>5. QED BY <5>1, <5>3, <5>4 DEF Backed
      <4>4. QED BY <4>2, <4>3
    <3>6. QED BY <1>1, <3>4, <3>5
  <2>3. QED BY <2>1, <2>2
<1>4. /\ job' \in Cleaning /\ JobInv' /\ Entitled' /\ DeletedInv' /\ BackupInv' /\ BlameInv'
  BY <1>1, <1>3, FailingKeeps
<1>5. TypeOK' BY <1>1, <1>2, <1>3, <1>4 DEF CleanupInv, TypeOK, Cleaning
<1>6. QED BY <1>4, <1>5 DEF CleanupInv

LEMMA CrashKeeps == ASSUME CleanupInv, Crash PROVE CleanupInv'
<1>1. UNCHANGED <<world, disk, clock, history, jobs, steps>> /\ job' = NoJob
      /\ snapshot' = [off |-> {}, fresh |-> FALSE] /\ faults' \in 0..MaxFaults
  BY CleanupAssumption DEF Crash, CleanupInv, TypeOK
<1> USE DEF world, disk, history
<1>2. /\ job' \in Cleaning /\ job'.at = "idle" /\ job'.mode = "delete" /\ ~job'.failures
  <2>1. 1 \in 1..(4 * NumLibraries + 1) /\ 1 \in 1..(NumLibraries + 1)
    BY CleanupAssumption
  <2>2. QED BY <1>1, <2>1 DEF NoJob, Cleaning, Positions, Modes
<1>3. JobInv' /\ Entitled' /\ DeletedInv' /\ BackupInv' /\ BlameInv'
  <2>1. \A l \in Libraries : \A content \in replaced[l] : Backed(l, content)'
    BY <1>1, StillBacked
  <2>2. QED BY <1>1, <1>2, <2>1, RestingIsSafe
<1>4. TypeOK' BY <1>1, <1>2 DEF CleanupInv, TypeOK, Cleaning
<1>5. QED BY <1>3, <1>4 DEF CleanupInv

LEMMA MoveDoes ==
  ASSUME TypeOK, NEW p \in Positions, NEW j, j = [job EXCEPT !.at = p]
  PROVE  /\ j \in Cleaning /\ j.at = p /\ j.mode = job.mode /\ j.ids = job.ids
         /\ j.todo = job.todo /\ j.failures = job.failures /\ j.next = job.next
         /\ j.lib = job.lib /\ j.read = job.read
<1>1. job \in Cleaning BY DEF TypeOK, Cleaning
<1>2. QED BY <1>1 DEF Cleaning

LEMMA QueryKeeps == ASSUME CleanupInv, Query PROVE CleanupInv'
<1>1. TypeOK /\ At("query") /\ Busy /\ Keeps
  BY DEF CleanupInv, Query, Gives, Busy, At
<1> USE DEF Keeps, world, disk, history, spent
<1>2. \A l \in Libraries : \A content \in replaced[l] : Backed(l, content)'
  BY <1>1, StillBacked
<1>3. CASE ~steam
  <2>1. job' = Failed BY <1>3 DEF Query, Gives, Answers
  <2>2. job.mode # "offline" BY <1>1 DEF CleanupInv, JobInv, ACF, At
  <2>3. disturbed' BY <1>1, <1>3, <2>2 DEF CleanupInv, BlameInv, TypeOK
  <2>4. job' \in Cleaning /\ JobInv' /\ Entitled' /\ DeletedInv' /\ BackupInv' /\ BlameInv'
    BY <1>1, <1>2, <2>1, <2>3, FailingKeeps
  <2>5. QED BY <1>1, <2>4, GivesKeeps
<1>4. CASE steam
  <2> DEFINE p == IF job.ids \cap subscribed # {} THEN "unsubscribe" ELSE "verify"
  <2>1. job' = [job EXCEPT !.at = p] /\ p \in Positions
    BY <1>4 DEF Query, Gives, Answers, Positions
  <2>2. /\ job' \in Cleaning /\ job'.at = p /\ job'.mode = job.mode /\ job'.ids = job.ids
        /\ job'.failures = job.failures /\ job'.next = job.next /\ job'.lib = job.lib
    BY <1>1, <2>1, MoveDoes
  <2>3. JobInv' BY <1>1, <2>2 DEF CleanupInv, JobInv, ACF, Asking, Scrubbing, At
  <2>4. Entitled' BY <1>1, <2>2 DEF CleanupInv, Entitled, Busy, At
  <2>5. DeletedInv' /\ BackupInv' BY <1>1, <1>2, <2>2, BetweenKeeps DEF Between
  <2>6. BlameInv' BY <1>1, <1>4, <2>2 DEF CleanupInv, BlameInv, Busy, At
  <2>7. QED BY <1>1, <2>2, <2>3, <2>4, <2>5, <2>6, GivesKeeps
<1>5. QED BY <1>3, <1>4

LEMMA AskUnsubscribeKeeps == ASSUME CleanupInv, AskUnsubscribe PROVE CleanupInv'
<1>1. TypeOK /\ At("unsubscribe") /\ Busy /\ disturbed'
      /\ UNCHANGED <<steam, subscribed, disk, snapshot, clock, unsubscribedOnce,
                     touched, deleted, replaced, spent>>
  BY DEF CleanupInv, AskUnsubscribe, Busy, At
<1> USE DEF disk, spent
<1>2. \A l \in Libraries : \A content \in replaced[l] : Backed(l, content)'
  BY <1>1, StillBacked
<1>3. job' \in Cleaning /\ JobInv' /\ Entitled' /\ DeletedInv' /\ BackupInv' /\ BlameInv'
  <2>1. CASE ~steam
    <3>1. job' = Failed BY <2>1 DEF AskUnsubscribe, Answers
    <3>2. QED BY <1>1, <1>2, <3>1, FailingKeeps
  <2>2. CASE steam
    <3>1. job' = [job EXCEPT !.at = "confirm"] /\ "confirm" \in Positions
      BY <2>2 DEF AskUnsubscribe, Answers, Positions
    <3>2. /\ job' \in Cleaning /\ job'.at = "confirm" /\ job'.mode = job.mode /\ job'.ids = job.ids
          /\ job'.failures = job.failures /\ job'.next = job.next /\ job'.lib = job.lib
      BY <1>1, <3>1, MoveDoes
    <3>3. JobInv' BY <1>1, <3>2 DEF CleanupInv, JobInv, ACF, Asking, Scrubbing, At
    <3>4. Entitled' BY <1>1, <3>2 DEF CleanupInv, Entitled, Busy, At
    <3>5. DeletedInv' /\ BackupInv' BY <1>1, <1>2, <3>2, BetweenKeeps DEF Between
    <3>6. BlameInv' BY <1>1 DEF BlameInv
    <3>7. QED BY <3>2, <3>3, <3>4, <3>5, <3>6
  <2>3. QED BY <2>1, <2>2
<1>4. leaving' \subseteq Mods /\ disturbed' \in BOOLEAN
  BY DEF AskUnsubscribe, CleanupInv, TypeOK
<1>5. TypeOK' BY <1>1, <1>3, <1>4 DEF TypeOK, Cleaning
<1>6. QED BY <1>3, <1>5 DEF CleanupInv

LEMMA ConfirmKeeps == ASSUME CleanupInv, Confirm PROVE CleanupInv'
<1>1. TypeOK /\ job.at \in {"confirm", "verify"} /\ Busy /\ Keeps
  BY DEF CleanupInv, Confirm, Gives, Busy, At
<1> USE DEF Keeps, world, disk, history, spent
<1>2. \A l \in Libraries : \A content \in replaced[l] : Backed(l, content)'
  BY <1>1, StillBacked
<1>3. job.mode # "offline" BY <1>1 DEF CleanupInv, JobInv, ACF, At
<1>4. CASE ~steam \/ \E m \in job.ids : ~ProvedUnsubscribed(m)
  <2>1. job' = Failed BY <1>4 DEF Confirm, Gives, Answers
  <2>2. disturbed'
    BY <1>1, <1>3, <1>4 DEF CleanupInv, BlameInv, ProvedUnsubscribed, At
  <2>3. job' \in Cleaning /\ JobInv' /\ Entitled' /\ DeletedInv' /\ BackupInv' /\ BlameInv'
    BY <1>1, <1>2, <2>1, <2>2, FailingKeeps
  <2>4. QED BY <1>1, <2>3, GivesKeeps
<1>5. CASE steam /\ ~\E m \in job.ids : ~ProvedUnsubscribed(m)
  <2> DEFINE p == IF At("confirm") THEN "verify" ELSE "delete"
  <2>1. job' = [job EXCEPT !.at = p] /\ p \in Positions
    BY <1>5 DEF Confirm, Gives, Answers, Positions
  <2>2. /\ job' \in Cleaning /\ job'.at = p /\ job'.mode = job.mode /\ job'.ids = job.ids
        /\ job'.failures = job.failures /\ job'.next = job.next /\ job'.lib = job.lib
    BY <1>1, <2>1, MoveDoes
  <2>3. job.ids \cap subscribed = {} BY <1>5 DEF ProvedUnsubscribed
  <2>4. job.next = 1 /\ job.lib = 1 /\ job.ids \subseteq Mods /\ job.mode # "stale"
    BY <1>1 DEF CleanupInv, JobInv, Asking, TypeOK, ACF, Scrubbing
  <2>5. JobInv' BY <1>1, <1>3, <2>2, <2>4 DEF CleanupInv, JobInv, ACF, Asking, Scrubbing, At
  <2>6. Entitled' BY <1>1, <1>3, <2>2, <2>3, <2>4 DEF CleanupInv, Entitled, Busy, At
  <2>7. DeletedInv'
    <3>1. DeletedMeansGone' BY <1>1 DEF CleanupInv, DeletedInv, DeletedMeansGone, Gone
    <3>2. \A m \in job'.ids : Progress(m)'
      BY <1>1, <2>2, <2>3, <2>4 DEF Progress, At, ACF
    <3>3. QED BY <2>2, <3>1, <3>2 DEF DeletedInv
  <2>8. BackupInv' BY <1>2, <2>2, <1>1 DEF BackupInv, At
  <2>9. BlameInv' BY <1>1, <1>5, <2>2, <2>3 DEF CleanupInv, BlameInv, Busy, At
  <2>10. QED BY <1>1, <2>2, <2>5, <2>6, <2>7, <2>8, <2>9, GivesKeeps
<1>6. QED BY <1>4, <1>5

LEMMA DeleteNextKeeps == ASSUME CleanupInv, DeleteNext PROVE CleanupInv'
<1>1. /\ TypeOK /\ At("delete") /\ Busy /\ job.next <= 4 * NumLibraries
      /\ job' = [job EXCEPT !.next = @ + 1]
      /\ UNCHANGED <<world, acf, backups, links, snapshot, clock, history, spent>>
  BY DEF CleanupInv, DeleteNext, Busy, At
<1> USE DEF world, history, spent
<1>2. PICK m \in Mods : job.ids = {m}
  BY <1>1 DEF CleanupInv, JobInv, At
<1>3. files' = files \ {Plan(m)[job.next]}
  BY <1>2 DEF DeleteNext
<1>4. job \in Cleaning /\ job.next \in Int BY <1>1 DEF TypeOK, Cleaning
<1>5. /\ job' \in Cleaning /\ job'.at = job.at /\ job'.mode = job.mode /\ job'.ids = job.ids
      /\ job'.failures = job.failures /\ job'.next = job.next + 1 /\ job'.lib = job.lib
  <2>1. job.next + 1 \in 1..(4 * NumLibraries + 1)
    BY <1>1, <1>4, CleanupAssumption DEF Cleaning
  <2>2. QED BY <1>1, <1>4, <2>1 DEF Cleaning
<1>6. TypeOK' BY <1>1, <1>3, <1>5 DEF TypeOK, Cleaning
<1>7. JobInv' BY <1>1, <1>5 DEF CleanupInv, JobInv, ACF, Asking, Scrubbing, At
<1>8. Entitled' BY <1>1, <1>5 DEF CleanupInv, Entitled, Busy, At
<1>9. DeletedInv'
  <2>1. DeletedMeansGone' BY <1>1, <1>3 DEF CleanupInv, DeletedInv, DeletedMeansGone, Gone
  <2>2. ASSUME job.mode # "stale", NEW x \in job.ids \ touched PROVE Progress(x)'
    <3>1. Progress(x) /\ x = m BY <1>2, <2>2 DEF CleanupInv, DeletedInv
    <3>2. \A i \in 1..(job'.next - 1) : Plan(x)[i] \notin files'
      BY <1>1, <1>3, <1>4, <1>5, <3>1 DEF Progress
    <3>3. QED BY <1>1, <1>5, <3>1, <3>2 DEF Progress, At, ACF
  <2>3. QED BY <1>1, <1>5, <2>1, <2>2 DEF DeletedInv, At
<1>10. BackupInv' BY <1>1, <1>5 DEF CleanupInv, BackupInv, Backed, At
<1>11. BlameInv' BY <1>1, <1>5 DEF CleanupInv, BlameInv, Busy, At
<1>12. QED BY <1>6, <1>7, <1>8, <1>9, <1>10, <1>11 DEF CleanupInv

LEMMA RemoveLinksKeeps == ASSUME CleanupInv, RemoveLinks PROVE CleanupInv'
<1> DEFINE p == IF job.mode = "offline" THEN "acf_read" ELSE "acf_query"
<1>1. /\ TypeOK /\ At("delete") /\ Busy /\ job.next > 4 * NumLibraries
      /\ job' = [job EXCEPT !.at = p] /\ p \in Positions /\ links' = links \ job.ids
      /\ UNCHANGED <<world, files, acf, backups, snapshot, clock, history, spent>>
  BY DEF CleanupInv, RemoveLinks, Goto, Busy, At, Positions
<1> USE DEF world, history, spent
<1>2. /\ job' \in Cleaning /\ job'.at = p /\ job'.mode = job.mode /\ job'.ids = job.ids
      /\ job'.failures = job.failures /\ job'.next = job.next /\ job'.lib = job.lib
  BY <1>1, MoveDoes
<1>3. job.next = 4 * NumLibraries + 1 /\ job.lib = 1 /\ job.ids \subseteq Mods
      /\ job.mode # "stale"
  <2>1. job.next \in 1..(4 * NumLibraries + 1) /\ job.ids \subseteq Mods
    BY <1>1 DEF TypeOK
  <2>2. job.next = 4 * NumLibraries + 1 BY <1>1, <2>1, CleanupAssumption
  <2>3. job.lib = 1 /\ job.mode # "stale"
    BY <1>1 DEF CleanupInv, JobInv, At, ACF, Scrubbing
  <2>4. QED BY <2>1, <2>2, <2>3
<1>4. TypeOK' BY <1>1, <1>2 DEF TypeOK, Cleaning
<1>5. JobInv' BY <1>1, <1>2, <1>3 DEF CleanupInv, JobInv, ACF, Asking, Scrubbing, At
<1>6. Entitled' BY <1>1, <1>2 DEF CleanupInv, Entitled, Busy, At
<1>7. DeletedInv'
  <2>1. DeletedMeansGone' BY <1>1 DEF CleanupInv, DeletedInv, DeletedMeansGone, Gone
  <2>2. ASSUME NEW x \in job.ids \ touched PROVE Progress(x)'
    <3>1. Progress(x) /\ x \in Mods BY <1>3, <2>2 DEF CleanupInv, DeletedInv
    <3>2. \A f \in files : f[3] # x
      <4>1. SUFFICES ASSUME NEW f \in files, f[3] = x PROVE FALSE OBVIOUS
      <4>2. PICK i \in 1..(4 * NumLibraries) : Plan(x)[i] = f
        BY <1>1, <3>1, <4>1, PlanCovers DEF TypeOK
      <4>3. QED BY <1>1, <1>3, <3>1, <4>2, CleanupAssumption DEF Progress
    <3>3. NoFiles(x)' BY <1>1, <2>2, <3>2 DEF NoFiles
    <3>4. job.mode # "offline" => x \notin subscribed BY <1>1, <3>1 DEF Progress, At
    <3>5. QED BY <1>1, <1>2, <1>3, <3>3, <3>4 DEF Progress, At, ACF
  <2>3. QED BY <1>2, <1>1, <2>1, <2>2 DEF DeletedInv
<1>8. BackupInv' BY <1>1, <1>2 DEF CleanupInv, BackupInv, Backed, At
<1>9. BlameInv' BY <1>1, <1>2 DEF CleanupInv, BlameInv, Busy, At
<1>10. QED BY <1>4, <1>5, <1>6, <1>7, <1>8, <1>9 DEF CleanupInv

LEMMA QueryForACFKeeps == ASSUME CleanupInv, QueryForACF PROVE CleanupInv'
<1>1. TypeOK /\ At("acf_query") /\ Busy /\ Keeps
  BY DEF CleanupInv, QueryForACF, Gives, Busy, At
<1> USE DEF Keeps, world, disk, history, spent
<1>2. \A l \in Libraries : \A content \in replaced[l] : Backed(l, content)'
  BY <1>1, StillBacked
<1>3. job.mode # "offline" /\ job.lib = 1 /\ job.ids \subseteq Mods
  BY <1>1 DEF CleanupInv, JobInv, ACF, At, TypeOK
<1>4. job.mode # "stale" => \A m \in job.ids \ touched : m \in Removable
  BY <1>1, <1>3 DEF CleanupInv, DeletedInv, Progress, NoFiles, At, Removable, HasRealFolder
<1>5. CASE ~steam
  <2>1. job' = Failed BY <1>5 DEF QueryForACF, Gives, Answers
  <2>2. disturbed' BY <1>1, <1>3, <1>5 DEF CleanupInv, BlameInv, TypeOK
  <2>3. job' \in Cleaning /\ JobInv' /\ Entitled' /\ DeletedInv' /\ BackupInv' /\ BlameInv'
    BY <1>1, <1>2, <2>1, <2>2, FailingKeeps
  <2>4. QED BY <1>1, <2>3, GivesKeeps
<1>6. CASE steam /\ Removable = {}
  <2>1. job' = AfterACF BY <1>6 DEF QueryForACF, Gives, Answers
  <2>2. CASE job.mode = "stale"
    <3>1. job' = Ended("ok") BY <2>1, <2>2 DEF AfterACF
    <3>2. JobInv' /\ Entitled' /\ DeletedInv' /\ BackupInv' /\ BlameInv'
      BY <1>1, <1>2, <3>1, EndedDoes, RestingIsSafe
    <3>3. QED BY <1>1, <3>1, <3>2, EndedDoes, GivesKeeps
  <2>3. CASE job.mode # "stale"
    <3>1. job' = [job EXCEPT !.at = "metadata"] /\ "metadata" \in Positions
      BY <2>1, <2>3 DEF AfterACF, Positions
    <3>2. /\ job' \in Cleaning /\ job'.at = "metadata" /\ job'.mode = job.mode /\ job'.ids = job.ids
          /\ job'.failures = job.failures /\ job'.next = job.next /\ job'.lib = job.lib
      BY <1>1, <3>1, MoveDoes
    <3>3. JobInv' BY <1>1, <2>3, <3>2 DEF CleanupInv, JobInv, ACF, Asking, Scrubbing, At
    <3>4. Entitled' BY <1>1, <3>2 DEF CleanupInv, Entitled, Busy, At
    <3>5. DeletedInv'
      <4>1. DeletedMeansGone' BY <1>1 DEF CleanupInv, DeletedInv, DeletedMeansGone, Gone
      <4>2. job.ids \ touched = {} BY <1>4, <1>6, <2>3
      <4>3. QED BY <1>1, <3>2, <4>1, <4>2 DEF DeletedInv
    <3>6. BackupInv' BY <1>2, <3>2, <1>1 DEF BackupInv, At
    <3>7. BlameInv' BY <1>1, <3>2 DEF CleanupInv, BlameInv, Busy, At
    <3>8. QED BY <1>1, <3>2, <3>3, <3>4, <3>5, <3>6, <3>7, GivesKeeps
  <2>4. QED BY <2>2, <2>3
<1>7. CASE steam /\ Removable # {}
  <2> DEFINE a == [job EXCEPT !.at = "acf_read"]
  <2>1. job' = [a EXCEPT !.ids = Removable]
    BY <1>7 DEF QueryForACF, Gives, Answers
  <2>2. /\ a \in Cleaning /\ a.at = "acf_read" /\ a.mode = job.mode
        /\ a.failures = job.failures /\ a.next = job.next /\ a.lib = job.lib
    BY <1>1, MoveDoes DEF Positions
  <2>3. Removable \subseteq job.ids BY DEF Removable
  <2> HIDE DEF a
  <2>4. /\ job' \in Cleaning /\ job'.at = "acf_read" /\ job'.mode = job.mode
        /\ job'.ids = Removable
        /\ job'.failures = job.failures /\ job'.next = job.next /\ job'.lib = job.lib
    BY <1>3, <2>1, <2>2, <2>3 DEF Cleaning
  <2>5. JobInv' BY <1>1, <1>3, <2>4 DEF CleanupInv, JobInv, ACF, Asking, Scrubbing, At
  <2>6. Entitled' BY <1>1, <2>4 DEF CleanupInv, Entitled, Busy, At
  <2>7. DeletedInv'
    <3>1. DeletedMeansGone' BY <1>1 DEF CleanupInv, DeletedInv, DeletedMeansGone, Gone
    <3>2. ASSUME job.mode # "stale", NEW m \in Removable \ touched PROVE Progress(m)'
      <4>1. Progress(m) BY <2>3, <3>2 DEF CleanupInv, DeletedInv
      <4>2. NoFiles(m) /\ NoFiles(m)' BY <1>1, <4>1 DEF Progress, NoFiles, At
      <4>3. QED BY <1>3, <2>4, <4>2 DEF Progress, At, ACF
    <3>3. QED BY <1>1, <2>4, <3>1, <3>2 DEF DeletedInv
  <2>8. BackupInv' BY <1>1, <1>2, <2>4 DEF BackupInv, At
  <2>9. BlameInv' BY <1>1, <2>4 DEF CleanupInv, BlameInv, Busy, At
  <2>10. QED BY <1>1, <2>4, <2>5, <2>6, <2>7, <2>8, <2>9, GivesKeeps
<1>8. QED BY <1>5, <1>6, <1>7

LEMMA ReadACFKeeps == ASSUME CleanupInv, ReadACF PROVE CleanupInv'
<1>1. TypeOK /\ At("acf_read") /\ Busy /\ Keeps /\ job \in Cleaning
  BY DEF CleanupInv, ReadACF, Gives, Busy, At, TypeOK, Cleaning
<1> USE DEF Keeps, world, disk, history, spent
<1>2. \A l \in Libraries : \A content \in replaced[l] : Backed(l, content)'
  BY <1>1, StillBacked
<1>3. CASE job.lib > NumLibraries /\ job.mode = "stale"
  <2>1. job' = Ended("ok") BY <1>3 DEF ReadACF, Gives, AfterACF
  <2>2. JobInv' /\ Entitled' /\ DeletedInv' /\ BackupInv' /\ BlameInv'
    BY <1>1, <1>2, <2>1, EndedDoes, RestingIsSafe
  <2>3. QED BY <1>1, <2>1, <2>2, EndedDoes, GivesKeeps
<1>4. CASE job.lib > NumLibraries /\ job.mode # "stale"
  <2>1. job' = [job EXCEPT !.at = "metadata"] /\ "metadata" \in Positions
    BY <1>4 DEF ReadACF, Gives, AfterACF, Positions
  <2>2. /\ job' \in Cleaning /\ job'.at = "metadata" /\ job'.mode = job.mode /\ job'.ids = job.ids
        /\ job'.failures = job.failures /\ job'.next = job.next /\ job'.lib = job.lib
    BY <1>1, <2>1, MoveDoes
  <2>3. \A l \in Libraries : l \in 1..(job.lib - 1)
    BY <1>1, <1>4, CleanupAssumption DEF Libraries, Cleaning
  <2>4. JobInv' BY <1>1, <1>4, <2>2 DEF CleanupInv, JobInv, ACF, Asking, Scrubbing, At
  <2>5. Entitled' BY <1>1, <2>2 DEF CleanupInv, Entitled, Busy, At
  <2>6. DeletedInv'
    <3>1. DeletedMeansGone' BY <1>1 DEF CleanupInv, DeletedInv, DeletedMeansGone, Gone
    <3>2. ASSUME NEW m \in job.ids \ touched PROVE Progress(m)'
      <4>1. Progress(m) BY <1>4, <3>2 DEF CleanupInv, DeletedInv
      <4>2. NoFiles(m) /\ NoFiles(m)' BY <1>1, <4>1 DEF Progress, NoFiles, At, ACF
      <4>3. \A l \in Libraries : m \notin acf'[l] BY <1>1, <2>3, <4>1 DEF Progress, At, ACF
      <4>4. QED BY <2>2, <4>2, <4>3 DEF Progress, At, ACF
    <3>3. QED BY <1>1, <2>2, <3>1, <3>2 DEF DeletedInv
  <2>7. BackupInv' BY <1>1, <1>2, <2>2 DEF BackupInv, At
  <2>8. BlameInv' BY <1>1, <2>2 DEF CleanupInv, BlameInv, Busy, At
  <2>9. QED BY <1>1, <2>2, <2>4, <2>5, <2>6, <2>7, <2>8, GivesKeeps
<1>5. ASSUME job.lib <= NumLibraries PROVE CleanupInv'
  <2>1. job.lib \in Libraries /\ job.lib \in Int /\ job.lib + 1 \in 1..(NumLibraries + 1)
    BY <1>1, <1>5, CleanupAssumption DEF Libraries, Cleaning
  <2>2. acf[job.lib] \subseteq Mods BY <1>1, <2>1 DEF TypeOK
  <2>3. CASE acf[job.lib] \cap job.ids = {}
    <3>1. job' = [job EXCEPT !.lib = @ + 1]
      BY <1>5, <2>1, <2>3, CleanupAssumption DEF ReadACF, Gives
    <3>2. /\ job' \in Cleaning /\ job'.at = job.at /\ job'.mode = job.mode /\ job'.ids = job.ids
          /\ job'.failures = job.failures /\ job'.next = job.next /\ job'.lib = job.lib + 1
      BY <1>1, <2>1, <3>1 DEF Cleaning
    <3>3. JobInv' BY <1>1, <3>2 DEF CleanupInv, JobInv, ACF, Asking, Scrubbing, At
    <3>4. Entitled' BY <1>1, <3>2 DEF CleanupInv, Entitled, Busy, At
    <3>5. DeletedInv'
      <4>1. DeletedMeansGone' BY <1>1 DEF CleanupInv, DeletedInv, DeletedMeansGone, Gone
      <4>2. ASSUME job.mode # "stale", NEW m \in job.ids \ touched PROVE Progress(m)'
        <5>1. Progress(m) BY <4>2 DEF CleanupInv, DeletedInv
        <5>2. NoFiles(m) /\ NoFiles(m)' BY <1>1, <5>1 DEF Progress, NoFiles, At, ACF
        <5>3. \A l \in 1..job.lib : m \notin acf'[l]
          BY <1>1, <2>1, <2>3, <4>2, <5>1 DEF Progress, At, ACF
        <5>4. job'.lib - 1 = job.lib BY <2>1, <3>2
        <5>5. QED BY <1>1, <3>2, <5>2, <5>3, <5>4 DEF Progress, At, ACF
      <4>3. QED BY <1>1, <3>2, <4>1, <4>2 DEF DeletedInv, At
    <3>6. BackupInv' BY <1>1, <1>2, <3>2 DEF BackupInv, At
    <3>7. BlameInv' BY <1>1, <3>2 DEF CleanupInv, BlameInv, Busy, At
    <3>8. QED BY <1>1, <3>2, <3>3, <3>4, <3>5, <3>6, <3>7, GivesKeeps
  <2>4. CASE acf[job.lib] \cap job.ids # {}
    <3> DEFINE a == [job EXCEPT !.at = "acf_backup"]
    <3>1. job' = [a EXCEPT !.read = acf[job.lib]]
      BY <1>5, <2>1, <2>4, CleanupAssumption DEF ReadACF, Gives
    <3>2. /\ a \in Cleaning /\ a.at = "acf_backup" /\ a.mode = job.mode /\ a.ids = job.ids
          /\ a.failures = job.failures /\ a.next = job.next /\ a.lib = job.lib
      BY <1>1, MoveDoes DEF Positions
    <3> HIDE DEF a
    <3>3. /\ job' \in Cleaning /\ job'.at = "acf_backup" /\ job'.mode = job.mode
          /\ job'.ids = job.ids /\ job'.read = acf[job.lib]
          /\ job'.failures = job.failures /\ job'.next = job.next /\ job'.lib = job.lib
      BY <2>2, <3>1, <3>2 DEF Cleaning
    <3>4. JobInv' BY <1>1, <2>1, <3>3 DEF CleanupInv, JobInv, ACF, Asking, Scrubbing, At
    <3>5. Entitled' BY <1>1, <3>3 DEF CleanupInv, Entitled, Busy, At
    <3>6. DeletedInv'
      <4>1. DeletedMeansGone' BY <1>1 DEF CleanupInv, DeletedInv, DeletedMeansGone, Gone
      <4>2. ASSUME job.mode # "stale", NEW m \in job.ids \ touched PROVE Progress(m)'
        <5>1. Progress(m) BY <4>2 DEF CleanupInv, DeletedInv
        <5>2. NoFiles(m) /\ NoFiles(m)' BY <1>1, <5>1 DEF Progress, NoFiles, At, ACF
        <5>3. QED BY <1>1, <3>3, <5>1, <5>2 DEF Progress, At, ACF
      <4>3. acf[job.lib] \cap deleted \subseteq touched
        BY <2>1 DEF CleanupInv, DeletedInv, DeletedMeansGone, Gone
      <4>4. QED BY <1>1, <3>3, <4>1, <4>2, <4>3 DEF DeletedInv
    <3>7. BackupInv' BY <1>1, <1>2, <3>3 DEF BackupInv, At
    <3>8. BlameInv' BY <1>1, <3>3 DEF CleanupInv, BlameInv, Busy, At
    <3>9. QED BY <1>1, <3>3, <3>4, <3>5, <3>6, <3>7, <3>8, GivesKeeps
  <2>5. QED BY <2>3, <2>4
<1>6. job.lib <= NumLibraries \/ job.lib > NumLibraries
  BY <1>1, CleanupAssumption DEF Cleaning
<1>7. QED BY <1>3, <1>4, <1>5, <1>6

(* Writing the backup of an ACF changes nothing else. *)
LEMMA WritingKeeps ==
  ASSUME CleanupInv, job.at \in {"acf_backup", "acf_fill"}, NEW p \in {"acf_fill", "acf_replace"},
         job' = [job EXCEPT !.at = p], backups' \in [Libraries -> Seq(Backup)], BackupInv',
         UNCHANGED <<world, files, acf, links, snapshot, clock, history, spent>>
  PROVE  CleanupInv'
<1> USE DEF world, history, spent
<1>1. TypeOK /\ Busy /\ p \in Positions BY DEF CleanupInv, Busy, Positions
<1>2. /\ job' \in Cleaning /\ job'.at = p /\ job'.mode = job.mode /\ job'.ids = job.ids
      /\ job'.failures = job.failures /\ job'.next = job.next /\ job'.lib = job.lib
      /\ job'.read = job.read
  BY <1>1, MoveDoes
<1>3. TypeOK' BY <1>1, <1>2 DEF TypeOK, Cleaning
<1>4. JobInv' BY <1>2 DEF CleanupInv, JobInv, ACF, Asking, Scrubbing
<1>5. Entitled' BY <1>1, <1>2 DEF CleanupInv, Entitled, Busy, At
<1>6. DeletedInv'
  <2>1. DeletedMeansGone' BY DEF CleanupInv, DeletedInv, DeletedMeansGone, Gone
  <2>2. ASSUME job.mode # "stale", NEW m \in job.ids \ touched PROVE Progress(m)'
    <3>1. Progress(m) BY <2>2 DEF CleanupInv, DeletedInv
    <3>2. NoFiles(m) /\ NoFiles(m)' BY <3>1 DEF Progress, NoFiles, ACF
    <3>3. QED BY <1>2, <3>1, <3>2 DEF Progress, At, ACF
  <2>3. QED BY <1>2, <2>1, <2>2 DEF CleanupInv, DeletedInv
<1>7. BlameInv' BY <1>1, <1>2 DEF CleanupInv, BlameInv, Busy, At
<1>8. QED BY <1>3, <1>4, <1>5, <1>6, <1>7 DEF CleanupInv

LEMMA OpenBackupKeeps == ASSUME CleanupInv, OpenBackup PROVE CleanupInv'
<1> DEFINE k == job.lib
           new == [stamp |-> clock, content |-> {}, complete |-> FALSE]
<1>1. /\ TypeOK /\ At("acf_backup") /\ k \in Libraries /\ backups[k] \in Seq(Backup)
      /\ backups \in [Libraries -> Seq(Backup)]
  BY DEF CleanupInv, OpenBackup, JobInv, ACF, At, TypeOK
<1>2. /\ job' = [job EXCEPT !.at = "acf_fill"]
      /\ backups' = [backups EXCEPT ![k] = Append(backups[k], new)]
      /\ UNCHANGED <<world, files, acf, links, snapshot, clock, history, spent>>
  BY DEF OpenBackup, Goto
<1>3. new \in Backup BY <1>1 DEF TypeOK, Backup
<1>4. /\ Append(backups[k], new) \in Seq(Backup)
      /\ Len(Append(backups[k], new)) = Len(backups[k]) + 1
      /\ \A i \in 1..Len(backups[k]) : Append(backups[k], new)[i] = backups[k][i]
      /\ Append(backups[k], new)[Len(backups[k]) + 1] = new
  BY <1>1, <1>3
<1>5. /\ backups' \in [Libraries -> Seq(Backup)]
      /\ backups'[k] = Append(backups[k], new)
      /\ \A l \in Libraries : l # k => backups'[l] = backups[l]
  BY <1>1, <1>2, <1>4
<1>6. \A l \in Libraries : \A content \in replaced[l] : Backed(l, content)'
  <2>1. SUFFICES ASSUME NEW l \in Libraries, NEW content \in replaced[l]
                 PROVE  Backed(l, content)'
    OBVIOUS
  <2>2. PICK i \in DOMAIN backups[l] :
          backups[l][i].complete /\ backups[l][i].content = content
    BY DEF CleanupInv, BackupInv, Backed
  <2>3. CASE l # k BY <1>5, <2>2, <2>3 DEF Backed
  <2>4. CASE l = k
    <3>1. i \in DOMAIN backups'[k] /\ backups'[k][i] = backups[k][i]
      BY <1>1, <1>4, <1>5, <2>2, <2>4
    <3>2. QED BY <2>2, <2>4, <3>1 DEF Backed
  <2>5. QED BY <2>3, <2>4
<1>7. BackupInv'
  <2>1. /\ job'.at = "acf_fill" /\ job'.lib = k
    BY <1>1, <1>2, MoveDoes DEF Positions
  <2>2. Len(backups'[k]) > 0 /\ backups'[k][Len(backups'[k])] = new BY <1>1, <1>4, <1>5
  <2>3. replaced' = replaced BY <1>2 DEF history
  <2>4. QED BY <1>6, <2>1, <2>2, <2>3 DEF BackupInv, At, Newest, Last
<1>8. QED BY <1>1, <1>2, <1>5, <1>7, WritingKeeps DEF At

LEMMA FillBackupKeeps == ASSUME CleanupInv, FillBackup PROVE CleanupInv'
<1> DEFINE k == job.lib
           b == backups[k]
           n == Len(b)
           full == [b[n] EXCEPT !.content = job.read, !.complete = TRUE]
<1>1. /\ TypeOK /\ At("acf_fill") /\ k \in Libraries /\ b \in Seq(Backup)
      /\ backups \in [Libraries -> Seq(Backup)] /\ n > 0 /\ ~b[n].complete /\ n \in Nat
      /\ job.read \subseteq Mods
  BY DEF CleanupInv, FillBackup, JobInv, ACF, At, TypeOK, BackupInv, Newest, Last
<1>2. /\ job' = [job EXCEPT !.at = "acf_replace"]
      /\ backups' = [backups EXCEPT ![k][n] = full]
      /\ UNCHANGED <<world, files, acf, links, snapshot, clock, history, spent>>
  BY DEF FillBackup, Goto
<1>3. n \in DOMAIN b /\ b[n] \in Backup BY <1>1
<1>4. full \in Backup /\ full.complete /\ full.content = job.read
  BY <1>1, <1>3 DEF Backup
<1> HIDE DEF full
<1>5. /\ backups' \in [Libraries -> Seq(Backup)]
      /\ backups'[k] = [b EXCEPT ![n] = full]
      /\ \A l \in Libraries : l # k => backups'[l] = backups[l]
  <2> DEFINE c == [b EXCEPT ![n] = full]
  <2>1. c \in Seq(Backup) BY <1>1, <1>3, <1>4
  <2>2. backups' = [backups EXCEPT ![k] = c] BY <1>2
  <2> HIDE DEF c
  <2>3. /\ backups' \in [Libraries -> Seq(Backup)] /\ backups'[k] = c
        /\ \A l \in Libraries : l # k => backups'[l] = backups[l]
    BY <1>1, <2>1, <2>2
  <2>4. QED BY <2>3 DEF c
<1>6. Len(backups'[k]) = n /\ DOMAIN backups'[k] = DOMAIN b /\ backups'[k][n] = full
      /\ \A i \in DOMAIN b : i # n => backups'[k][i] = b[i]
  BY <1>1, <1>3, <1>5
<1>7. \A l \in Libraries : \A content \in replaced[l] : Backed(l, content)'
  <2>1. SUFFICES ASSUME NEW l \in Libraries, NEW content \in replaced[l]
                 PROVE  Backed(l, content)'
    OBVIOUS
  <2>2. PICK i \in DOMAIN backups[l] :
          backups[l][i].complete /\ backups[l][i].content = content
    BY DEF CleanupInv, BackupInv, Backed
  <2>3. CASE l # k BY <1>5, <2>2, <2>3 DEF Backed
  <2>4. CASE l = k
    <3>1. i # n BY <1>1, <2>2, <2>4
    <3>2. i \in DOMAIN backups'[k] /\ backups'[k][i] = b[i] BY <1>6, <2>2, <2>4, <3>1
    <3>3. QED BY <2>2, <2>4, <3>2 DEF Backed
  <2>5. QED BY <2>3, <2>4
<1>8. BackupInv'
  <2>1. /\ job'.at = "acf_replace" /\ job'.lib = k /\ job'.read = job.read
    BY <1>1, <1>2, MoveDoes DEF Positions
  <2>2. Len(backups'[k]) > 0 /\ backups'[k][Len(backups'[k])] = full BY <1>1, <1>6
  <2>3. replaced' = replaced BY <1>2 DEF history
  <2>4. QED BY <1>4, <1>7, <2>1, <2>2, <2>3 DEF BackupInv, At, Newest, Last
<1>9. QED BY <1>1, <1>2, <1>5, <1>8, WritingKeeps DEF At

LEMMA ReplaceACFKeeps == ASSUME CleanupInv, ReplaceACF PROVE CleanupInv'
<1> DEFINE k == job.lib
<1>1. /\ TypeOK /\ At("acf_replace") /\ Busy /\ k \in Libraries
      /\ job' = [job EXCEPT !.at = "acf_prune"] /\ "acf_prune" \in Positions
      /\ acf' = [acf EXCEPT ![k] = job.read \ job.ids]
      /\ replaced' = [replaced EXCEPT ![k] = {job.read}]
      /\ UNCHANGED <<world, files, backups, links, snapshot, clock,
                     unsubscribedOnce, touched, deleted, disturbed, spent>>
  BY DEF CleanupInv, ReplaceACF, Goto, Busy, JobInv, ACF, At, Edited, Positions
<1> USE DEF world, spent
<1>2. /\ job' \in Cleaning /\ job'.at = "acf_prune" /\ job'.mode = job.mode
      /\ job'.ids = job.ids /\ job'.failures = job.failures /\ job'.next = job.next
      /\ job'.lib = job.lib /\ job'.read = job.read
  BY <1>1, MoveDoes
<1>3. job.read \subseteq Mods /\ acf \in [Libraries -> SUBSET Mods]
      /\ replaced \in [Libraries -> SUBSET SUBSET Mods]
  BY <1>1 DEF TypeOK
<1>4. /\ acf' \in [Libraries -> SUBSET Mods] /\ acf'[k] = job.read \ job.ids
      /\ \A l \in Libraries : l # k => acf'[l] = acf[l]
      /\ replaced' \in [Libraries -> SUBSET SUBSET Mods] /\ replaced'[k] = {job.read}
      /\ \A l \in Libraries : l # k => replaced'[l] = replaced[l]
  BY <1>1, <1>3
<1>5. TypeOK' BY <1>1, <1>2, <1>4 DEF TypeOK, Cleaning
<1>6. JobInv' BY <1>1, <1>2 DEF CleanupInv, JobInv, ACF, Asking, Scrubbing, At
<1>7. Entitled' BY <1>1, <1>2 DEF CleanupInv, Entitled, Busy, At
<1>8. DeletedInv'
  <2>1. job.read \cap deleted \subseteq touched BY <1>1 DEF CleanupInv, DeletedInv, At
  <2>2. DeletedMeansGone'
    BY <1>1, <1>4, <2>1 DEF CleanupInv, DeletedInv, DeletedMeansGone, Gone
  <2>3. ASSUME job.mode # "stale", NEW m \in job.ids \ touched PROVE Progress(m)'
    <3>1. Progress(m) BY <2>3 DEF CleanupInv, DeletedInv
    <3>2. NoFiles(m) /\ NoFiles(m)' BY <1>1, <3>1 DEF Progress, NoFiles, At, ACF
    <3>3. m \notin acf'[k] BY <1>4, <2>3
    <3>4. \A l \in 1..(k - 1) : l \in Libraries /\ l # k
      BY <1>1, CleanupAssumption DEF Libraries
    <3>5. \A l \in 1..(k - 1) : m \notin acf'[l] BY <1>1, <1>4, <3>1, <3>4 DEF Progress, At, ACF
    <3>6. QED BY <1>2, <3>2, <3>3, <3>5 DEF Progress, At, ACF
  <2>4. QED BY <1>1, <1>2, <2>2, <2>3 DEF DeletedInv
<1>9. BackupInv'
  <2>1. Len(backups[k]) > 0 /\ Newest(k).complete /\ Newest(k).content = job.read
        /\ backups[k] \in Seq(Backup)
    BY <1>1 DEF CleanupInv, BackupInv, At, TypeOK
  <2>2. Len(backups[k]) \in DOMAIN backups[k] BY <2>1
  <2>3. ASSUME NEW l \in Libraries, NEW content \in replaced'[l] PROVE Backed(l, content)'
    <3>1. CASE l = k
      <4>1. content = job.read BY <1>4, <2>3, <3>1
      <4>2. QED BY <1>1, <2>1, <2>2, <3>1, <4>1 DEF Backed, Newest, Last
    <3>2. CASE l # k
      <4>1. content \in replaced[l] BY <1>4, <2>3, <3>2
      <4>2. QED BY <1>1, <4>1 DEF CleanupInv, BackupInv, Backed
    <3>3. QED BY <3>1, <3>2
  <2>4. QED BY <1>1, <1>2, <1>4, <2>1, <2>3 DEF BackupInv, At, Newest, Last
<1>10. BlameInv' BY <1>1, <1>2 DEF CleanupInv, BlameInv, Busy, At
<1>11. QED BY <1>5, <1>6, <1>7, <1>8, <1>9, <1>10 DEF CleanupInv

LEMMA PruneKeeps == ASSUME CleanupInv, Prune PROVE CleanupInv'
<1> DEFINE k == job.lib
           b == backups[k]
           excess == {i \in DOMAIN b : ~Retained(b, i)}
<1>1. /\ TypeOK /\ At("acf_prune") /\ Busy /\ k \in Libraries /\ b \in Seq(Backup)
      /\ backups \in [Libraries -> Seq(Backup)] /\ job \in Cleaning
  BY DEF CleanupInv, Prune, JobInv, Busy, ACF, At, TypeOK, Cleaning
<1>2. PICK gone \in SUBSET excess :
        /\ gone = excess \/ faults < MaxFaults
        /\ faults' = IF gone = excess THEN faults ELSE faults + 1
        /\ backups' = [backups EXCEPT ![k] = Without(b, gone)]
  BY DEF Prune
<1>3. faults' \in 0..MaxFaults BY <1>1, <1>2, CleanupAssumption DEF TypeOK
<1>4. UNCHANGED <<world, files, acf, links, snapshot, clock, history, jobs, steps>>
  BY DEF Prune
<1> USE DEF world, history
<1>5. /\ job' \in Cleaning /\ job'.at = "acf_read" /\ job'.mode = job.mode
      /\ job'.ids = job.ids /\ job'.failures = job.failures /\ job'.lib = k + 1
  <2> DEFINE a == [job EXCEPT !.at = "acf_read"]
             c == [a EXCEPT !.lib = k + 1]
  <2>1. a \in Cleaning /\ a.at = "acf_read" /\ a.mode = job.mode /\ a.ids = job.ids
        /\ a.failures = job.failures /\ a.lib = k
    BY <1>1, MoveDoes DEF Positions
  <2>2. k + 1 \in 1..(NumLibraries + 1) BY <1>1, CleanupAssumption DEF Libraries
  <2> HIDE DEF a
  <2>3. c \in Cleaning /\ c.at = "acf_read" /\ c.mode = job.mode /\ c.ids = job.ids
        /\ c.failures = job.failures /\ c.lib = k + 1
    BY <2>1, <2>2 DEF Cleaning
  <2>4. job' = [c EXCEPT !.read = {}] BY DEF Prune, a
  <2> HIDE DEF c
  <2>5. QED BY <2>3, <2>4 DEF Cleaning
<1>6. /\ Without(b, gone) \in Seq(Backup)
      /\ \A i \in DOMAIN b \ gone : \E j \in DOMAIN Without(b, gone) : Without(b, gone)[j] = b[i]
  BY <1>1, PruneKeepsSequences
<1>7. /\ backups' \in [Libraries -> Seq(Backup)] /\ backups'[k] = Without(b, gone)
      /\ \A l \in Libraries : l # k => backups'[l] = backups[l]
  BY <1>1, <1>2, <1>6
<1>8. TypeOK' BY <1>1, <1>3, <1>4, <1>5, <1>7 DEF TypeOK, Cleaning
<1>9. JobInv' BY <1>1, <1>5 DEF CleanupInv, JobInv, ACF, Asking, Scrubbing, At
<1>10. Entitled' BY <1>1, <1>4, <1>5 DEF CleanupInv, Entitled, Busy, At
<1>11. DeletedInv'
  <2>1. DeletedMeansGone' BY <1>4 DEF CleanupInv, DeletedInv, DeletedMeansGone, Gone
  <2>2. ASSUME job.mode # "stale", NEW m \in job.ids \ touched PROVE Progress(m)'
    <3>1. Progress(m) BY <2>2 DEF CleanupInv, DeletedInv
    <3>2. NoFiles(m) /\ NoFiles(m)' BY <1>1, <1>4, <3>1 DEF Progress, NoFiles, At, ACF
    <3>3. \A l \in 1..k : l \in 1..(k - 1) \/ l = k
      BY <1>1, CleanupAssumption DEF Libraries
    <3>4. \A l \in 1..k : m \notin acf'[l]
      BY <1>1, <1>4, <3>1, <3>3 DEF Progress, At, ACF
    <3>5. job'.lib - 1 = k BY <1>1, <1>5, CleanupAssumption DEF Libraries
    <3>6. QED BY <1>5, <3>2, <3>4, <3>5 DEF Progress, At, ACF
  <2>3. QED BY <1>4, <1>5, <2>1, <2>2 DEF DeletedInv
<1>12. BackupInv'
  <2>1. /\ Len(b) > 0 /\ Len(b) \in DOMAIN b /\ b[Len(b)].complete
        /\ b[Len(b)].content = job.read /\ replaced[k] = {job.read}
    BY <1>1 DEF CleanupInv, BackupInv, At, Newest, Last
  <2>2. Len(b) \notin gone BY <1>2 DEF Retained
  <2>3. PICK j \in DOMAIN backups'[k] : backups'[k][j] = b[Len(b)]
    BY <1>6, <1>7, <2>1, <2>2
  <2>4. ASSUME NEW l \in Libraries, NEW content \in replaced[l] PROVE Backed(l, content)'
    <3>1. CASE l = k BY <2>1, <2>3, <2>4, <3>1 DEF Backed
    <3>2. CASE l # k BY <1>7, <2>4, <3>2 DEF CleanupInv, BackupInv, Backed
    <3>3. QED BY <3>1, <3>2
  <2>5. QED BY <1>4, <1>5, <2>4 DEF BackupInv, At
<1>13. BlameInv' BY <1>1, <1>4, <1>5 DEF CleanupInv, BlameInv, Busy, At
<1>14. QED BY <1>8, <1>9, <1>10, <1>11, <1>12, <1>13 DEF CleanupInv

LEMMA MarkDeletedKeeps == ASSUME CleanupInv, MarkDeleted PROVE CleanupInv'
<1>1. /\ TypeOK /\ At("metadata") /\ Busy /\ deleted' = deleted \cup job.ids
      /\ UNCHANGED <<world, disk, snapshot, clock, unsubscribedOnce, touched, replaced,
                     disturbed, spent>>
  BY DEF CleanupInv, MarkDeleted, Busy, At
<1> USE DEF world, disk, spent
<1>2. /\ job' \in Cleaning
      /\ \/ job'.at = "ok" /\ job'.mode = "delete" /\ ~job'.failures
         \/ /\ job.mode = "repair" /\ job'.mode = "repair" /\ job'.at = "scrub_next"
            /\ job'.failures = job.failures
  <2>1. CASE job.mode = "repair"
    <3>1. job' = [job EXCEPT !.at = "scrub_next"] /\ "scrub_next" \in Positions
      BY <2>1 DEF MarkDeleted, Goto, Positions
    <3>2. QED BY <1>1, <2>1, <3>1, MoveDoes
  <2>2. CASE job.mode # "repair"
    <3>1. job' = Ended("ok") BY <2>2 DEF MarkDeleted, Goto
    <3>2. QED BY <3>1, EndedDoes
  <2>3. QED BY <2>1, <2>2
<1>3. \A l \in Libraries : \A content \in replaced[l] : Backed(l, content)'
  BY <1>1, StillBacked
<1>4. TypeOK' BY <1>1, <1>2 DEF TypeOK, Cleaning
<1>5. JobInv' BY <1>2 DEF JobInv, ACF, Asking, Scrubbing
<1>6. Entitled' BY <1>1, <1>2 DEF CleanupInv, Entitled, Busy, At
<1>7. DeletedInv'
  <2>1. job.mode # "stale" BY <1>1 DEF CleanupInv, JobInv, ACF, Scrubbing, At
  <2>2. \A m \in job.ids \ touched : Gone(m)
    BY <1>1, <2>1 DEF CleanupInv, DeletedInv, Progress, NoFiles, Gone, At
  <2>3. DeletedMeansGone'
    BY <1>1, <2>2 DEF CleanupInv, DeletedInv, DeletedMeansGone, Gone
  <2>4. \A m : Progress(m)' BY <1>2 DEF Progress, At, ACF
  <2>5. QED BY <1>2, <2>3, <2>4 DEF DeletedInv
<1>8. BackupInv' BY <1>1, <1>2, <1>3 DEF BackupInv, At
<1>9. BlameInv' BY <1>1, <1>2 DEF CleanupInv, BlameInv, Busy, At
<1>10. QED BY <1>4, <1>5, <1>6, <1>7, <1>8, <1>9 DEF CleanupInv

LEMMA ScrubReadKeeps == ASSUME CleanupInv, ScrubRead PROVE CleanupInv'
<1> DEFINE recorded == UNION {acf[l] : l \in Libraries}
<1>1. TypeOK /\ At("scrub_read") /\ Busy /\ Keeps /\ recorded \subseteq Mods
  BY DEF CleanupInv, ScrubRead, Gives, Busy, At, TypeOK
<1>2. job' = (IF recorded = {} THEN Ended("ok")
              ELSE [job EXCEPT !.at = "scrub_query", !.todo = recorded])
  BY DEF ScrubRead, Gives
<1> HIDE DEF recorded
<1> USE DEF Keeps, world, disk, history, spent
<1>3. \A l \in Libraries : \A content \in replaced[l] : Backed(l, content)'
  BY <1>1, StillBacked
<1>4. CASE recorded = {}
  <2>1. job' = Ended("ok") BY <1>2, <1>4
  <2>2. JobInv' /\ Entitled' /\ DeletedInv' /\ BackupInv' /\ BlameInv'
    BY <1>1, <1>3, <2>1, EndedDoes, RestingIsSafe
  <2>3. QED BY <1>1, <2>1, <2>2, EndedDoes, GivesKeeps
<1>5. CASE recorded # {}
  <2> DEFINE a == [job EXCEPT !.at = "scrub_query"]
  <2>1. job' = [a EXCEPT !.todo = recorded] BY <1>2, <1>5
  <2>2. /\ a \in Cleaning /\ a.at = "scrub_query" /\ a.mode = job.mode /\ a.ids = job.ids
        /\ a.failures = job.failures /\ a.next = job.next /\ a.lib = job.lib
    BY <1>1, MoveDoes DEF Positions
  <2> HIDE DEF a
  <2>3. /\ job' \in Cleaning /\ job'.at = "scrub_query" /\ job'.mode = job.mode
        /\ job'.ids = job.ids /\ job'.failures = job.failures /\ job'.next = job.next
        /\ job'.lib = job.lib
    BY <1>1, <2>1, <2>2 DEF Cleaning
  <2>4. JobInv' BY <1>1, <2>3 DEF CleanupInv, JobInv, ACF, Asking, Scrubbing, At
  <2>5. Entitled' BY <1>1, <2>3 DEF CleanupInv, Entitled, Busy, At
  <2>6. DeletedInv' /\ BackupInv' BY <1>1, <1>3, <2>3, BetweenKeeps DEF Between
  <2>7. BlameInv' BY <1>1, <2>3 DEF CleanupInv, BlameInv, Busy, At
  <2>8. QED BY <1>1, <2>3, <2>4, <2>5, <2>6, <2>7, GivesKeeps
<1>6. QED BY <1>4, <1>5

LEMMA ScrubQueryKeeps == ASSUME CleanupInv, ScrubQuery PROVE CleanupInv'
<1> DEFINE stale == {m \in job.todo : m \notin subscribed /\ ~HasRealFolder(m)}
<1>1. /\ TypeOK /\ At("scrub_query") /\ Busy /\ Keeps /\ job.todo \subseteq Mods
      /\ job \in Cleaning /\ job.mode \in {"repair", "stale"} /\ job.next = 1 /\ job.lib = 1
  BY DEF CleanupInv, ScrubQuery, Gives, Busy, At, TypeOK, JobInv, Scrubbing, Cleaning
<1> USE DEF Keeps, world, disk, history, spent
<1>2. \A l \in Libraries : \A content \in replaced[l] : Backed(l, content)'
  BY <1>1, StillBacked
<1>3. CASE ~steam
  <2>1. job' = Failed BY <1>3 DEF ScrubQuery, Gives, Answers
  <2>2. disturbed' BY <1>1, <1>3 DEF CleanupInv, BlameInv, TypeOK
  <2>3. job' \in Cleaning /\ JobInv' /\ Entitled' /\ DeletedInv' /\ BackupInv' /\ BlameInv'
    BY <1>1, <1>2, <2>1, <2>2, FailingKeeps
  <2>4. QED BY <1>1, <2>3, GivesKeeps
<1>4. CASE steam /\ job.mode = "repair"
  <2> DEFINE a == [job EXCEPT !.at = "scrub_next"]
  <2>1. job' = [a EXCEPT !.todo = @ \ subscribed] BY <1>4 DEF ScrubQuery, Gives, Answers
  <2>2. /\ a \in Cleaning /\ a.at = "scrub_next" /\ a.mode = job.mode /\ a.ids = job.ids
        /\ a.failures = job.failures
    BY <1>1, MoveDoes DEF Positions
  <2> HIDE DEF a
  <2>3. /\ job' \in Cleaning /\ job'.at = "scrub_next" /\ job'.mode = job.mode
        /\ job'.failures = job.failures
    BY <1>1, <2>1, <2>2 DEF Cleaning
  <2>4. JobInv' BY <1>1, <1>4, <2>3 DEF JobInv, ACF, Asking, Scrubbing
  <2>5. Entitled' BY <1>1, <2>3 DEF CleanupInv, Entitled, Busy, At
  <2>6. DeletedInv' /\ BackupInv' BY <1>1, <1>2, <2>3, BetweenKeeps DEF Between
  <2>7. BlameInv' BY <1>1, <1>4, <2>3 DEF CleanupInv, BlameInv, Busy, At
  <2>8. QED BY <1>1, <2>3, <2>4, <2>5, <2>6, <2>7, GivesKeeps
<1>5. CASE steam /\ job.mode = "stale" /\ stale = {}
  <2>1. job' = Ended("ok") BY <1>5 DEF ScrubQuery, Gives, Answers
  <2>2. JobInv' /\ Entitled' /\ DeletedInv' /\ BackupInv' /\ BlameInv'
    BY <1>1, <1>2, <2>1, EndedDoes, RestingIsSafe
  <2>3. QED BY <1>1, <2>1, <2>2, EndedDoes, GivesKeeps
<1>6. CASE steam /\ job.mode = "stale" /\ stale # {}
  <2> DEFINE a == [job EXCEPT !.at = "acf_query"]
             c == [a EXCEPT !.ids = stale]
  <2>1. job' = [c EXCEPT !.todo = {}] BY <1>6 DEF ScrubQuery, Gives, Answers
  <2>2. /\ a \in Cleaning /\ a.at = "acf_query" /\ a.mode = "stale"
        /\ a.failures = job.failures /\ a.next = 1 /\ a.lib = 1
    BY <1>1, <1>6, MoveDoes DEF Positions
  <2>3. stale \subseteq Mods BY <1>1
  <2> HIDE DEF a, stale
  <2>4. /\ c \in Cleaning /\ c.at = "acf_query" /\ c.mode = "stale"
        /\ c.failures = job.failures /\ c.next = 1 /\ c.lib = 1
    BY <2>2, <2>3 DEF Cleaning
  <2> HIDE DEF c
  <2>5. /\ job' \in Cleaning /\ job'.at = "acf_query" /\ job'.mode = "stale"
        /\ job'.failures = job.failures /\ job'.next = 1 /\ job'.lib = 1
    BY <2>1, <2>4 DEF Cleaning
  <2>6. JobInv' BY <2>5 DEF JobInv, ACF, Asking, Scrubbing
  <2>7. Entitled' BY <1>1, <2>5 DEF CleanupInv, Entitled, Busy, At
  <2>8. DeletedInv'
    BY <1>1, <2>5 DEF CleanupInv, DeletedInv, DeletedMeansGone, Gone
  <2>9. BackupInv' BY <1>1, <1>2, <2>5 DEF BackupInv, At
  <2>10. BlameInv' BY <1>1, <1>6, <2>5 DEF CleanupInv, BlameInv, Busy, At
  <2>11. QED BY <1>1, <2>5, <2>6, <2>7, <2>8, <2>9, <2>10, GivesKeeps
<1>7. QED BY <1>1, <1>3, <1>4, <1>5, <1>6

LEMMA ScrubNextKeeps == ASSUME CleanupInv, ScrubNext PROVE CleanupInv'
<1>1. /\ TypeOK /\ At("scrub_next") /\ Busy /\ Keeps /\ job.todo \subseteq Mods
      /\ job \in Cleaning /\ job.mode = "repair"
  BY DEF CleanupInv, ScrubNext, Busy, At, TypeOK, JobInv, Cleaning
<1> USE DEF Keeps, world, disk, history, spent
<1>2. \A l \in Libraries : \A content \in replaced[l] : Backed(l, content)'
  BY <1>1, StillBacked
<1>3. CASE job.todo = {}
  <2> DEFINE r == IF job.failures THEN "failed" ELSE "ok"
  <2>1. job' = Ended(r) /\ r \in {"ok", "failed"} BY <1>3 DEF ScrubNext
  <2>2. r = "failed" => disturbed
    BY <1>1 DEF CleanupInv, BlameInv
  <2>3. /\ job' \in Cleaning /\ job'.at = r /\ job'.mode = "delete" /\ ~job'.failures
    BY <2>1, EndedDoes
  <2>4. JobInv' /\ Entitled' /\ DeletedInv' /\ BackupInv' /\ BlameInv'
    BY <1>1, <1>2, <2>2, <2>3, RestingIsSafe
  <2>5. QED BY <1>1, <2>3, <2>4, GivesKeeps
<1>4. CASE job.todo # {}
  <2>1. PICK m \in job.todo :
          job' = [job EXCEPT !.at = "query", !.ids = {m}, !.todo = @ \ {m},
                             !.next = 1, !.lib = 1, !.read = {}]
    BY <1>4 DEF ScrubNext
  <2> DEFINE a == [job EXCEPT !.at = "query"]
             c == [a EXCEPT !.ids = {m}]
             d == [c EXCEPT !.todo = @ \ {m}]
             e == [d EXCEPT !.next = 1]
             f == [e EXCEPT !.lib = 1]
  <2>2. 1 \in 1..(4 * NumLibraries + 1) /\ 1 \in 1..(NumLibraries + 1) /\ m \in Mods
    BY <1>1, CleanupAssumption
  <2>3. a \in Cleaning /\ a.at = "query" /\ a.mode = "repair" /\ a.failures = job.failures
    BY <1>1, MoveDoes DEF Positions
  <2>4. job' = [f EXCEPT !.read = {}] BY <2>1
  <2> HIDE DEF a
  <2>5. c \in Cleaning /\ c.at = "query" /\ c.mode = "repair" /\ c.failures = job.failures
        /\ c.ids = {m}
    BY <2>2, <2>3 DEF Cleaning
  <2> HIDE DEF c
  <2>6. d \in Cleaning /\ d.at = "query" /\ d.mode = "repair" /\ d.failures = job.failures
        /\ d.ids = {m}
    BY <2>5 DEF Cleaning
  <2> HIDE DEF d
  <2>7. e \in Cleaning /\ e.at = "query" /\ e.mode = "repair" /\ e.failures = job.failures
        /\ e.ids = {m} /\ e.next = 1
    BY <2>2, <2>6 DEF Cleaning
  <2> HIDE DEF e
  <2>8. f \in Cleaning /\ f.at = "query" /\ f.mode = "repair" /\ f.failures = job.failures
        /\ f.ids = {m} /\ f.next = 1 /\ f.lib = 1
    BY <2>2, <2>7 DEF Cleaning
  <2> HIDE DEF f
  <2>9. /\ job' \in Cleaning /\ job'.at = "query" /\ job'.mode = "repair"
        /\ job'.failures = job.failures /\ job'.ids = {m} /\ job'.next = 1 /\ job'.lib = 1
    BY <2>4, <2>8 DEF Cleaning
  <2>10. JobInv' BY <2>2, <2>9 DEF JobInv, ACF, Asking, Scrubbing
  <2>11. Entitled' BY <1>1, <2>9 DEF CleanupInv, Entitled, Busy, At
  <2>12. DeletedInv' /\ BackupInv' BY <1>1, <1>2, <2>9, BetweenKeeps DEF Between
  <2>13. BlameInv' BY <1>1, <2>9 DEF CleanupInv, BlameInv, Busy, At
  <2>14. QED BY <1>1, <2>9, <2>10, <2>11, <2>12, <2>13, GivesKeeps
<1>5. QED BY <1>3, <1>4

LEMMA CleanupInit == Init => CleanupInv
<1> SUFFICES ASSUME Init PROVE CleanupInv OBVIOUS
<1>2. job \in Cleaning /\ job.at = "idle" /\ job.mode = "delete" /\ ~job.failures
  <2>1. 1 \in 1..(4 * NumLibraries + 1) /\ 1 \in 1..(NumLibraries + 1)
    BY CleanupAssumption
  <2>2. job = NoJob BY DEF Init
  <2>3. QED BY <2>1, <2>2 DEF NoJob, Cleaning, Positions, Modes
<1>3. TypeOK
  <2>1. MaxClock \in 0..MaxClock /\ 0 \in 0..MaxJobs /\ 0 \in 0..MaxSteam /\ 0 \in 0..MaxFaults
        /\ Retention \in Nat
    BY CleanupAssumption
  <2>2. EarlierBackup \in Backup BY <2>1 DEF EarlierBackup, Backup
  <2>3. [i \in 1..Retention |-> EarlierBackup] \in Seq(Backup) BY <2>1, <2>2
  <2>4. backups \in [Libraries -> Seq(Backup)] BY <2>3 DEF Init
  <2>5. QED BY <1>2, <2>1, <2>4 DEF Init, TypeOK, Cleaning
<1>4. JobInv /\ Entitled
  BY <1>2 DEF JobInv, Entitled, Busy, At, ACF, Asking, Scrubbing
<1>5. DeletedInv BY <1>2 DEF Init, DeletedInv, DeletedMeansGone, Progress, At, ACF
<1>6. BackupInv /\ BlameInv BY <1>2 DEF Init, BackupInv, BlameInv, Busy, At
<1>7. QED BY <1>3, <1>4, <1>5, <1>6 DEF CleanupInv

LEMMA CleanupNext == CleanupInv /\ [Next]_vars => CleanupInv'
<1> SUFFICES ASSUME CleanupInv, [Next]_vars PROVE CleanupInv' OBVIOUS
<1>2. CASE Next
  <2>1. CASE CleanupStep
    BY <2>1, QueryKeeps, AskUnsubscribeKeeps, ConfirmKeeps, DeleteNextKeeps, RemoveLinksKeeps,
       QueryForACFKeeps, ReadACFKeeps, OpenBackupKeeps, FillBackupKeeps, ReplaceACFKeeps,
       PruneKeeps, MarkDeletedKeeps, ScrubReadKeeps, ScrubQueryKeeps, ScrubNextKeeps
    DEF CleanupStep
  <2>2. QED
    BY <1>2, <2>1, WorldKeeps, IdleKeeps, CleanupStarts, FaultKeeps, CrashKeeps DEF Next
<1>3. CASE UNCHANGED vars
  <2> USE <1>3 DEF vars, world, disk, history, spent
  <2>1. TypeOK' BY DEF CleanupInv, TypeOK
  <2>2. JobInv' /\ Entitled' BY DEF CleanupInv, JobInv, Entitled, Busy, At
  <2>3. DeletedInv'
    BY DEF CleanupInv, DeletedInv, DeletedMeansGone, Gone, Progress, NoFiles, At
  <2>4. BackupInv' /\ BlameInv'
    BY DEF CleanupInv, BackupInv, Backed, Newest, BlameInv, Busy, At
  <2>5. QED BY <2>1, <2>2, <2>3, <2>4 DEF CleanupInv
<1>4. QED BY <1>2, <1>3

(* A path goes because Steam carried out an unsubscription, or at a step of a
   deletion, whose items were all found unsubscribed since it began.         *)
LEMMA FilesGoWithReason ==
  ASSUME CleanupInv, [Next]_vars
  PROVE  \A f \in files \ files' : f[3] \in unsubscribedOnce'
<1>1. CASE files \subseteq files' BY <1>1
<1>2. CASE DeleteNext
  <2>1. PICK m \in job.ids : files' = files \ {Plan(m)[job.next]} BY <1>2 DEF DeleteNext
  <2>2. job.next \in 1..(4 * NumLibraries) /\ m \in Mods
    BY <1>2, <2>1, CleanupAssumption DEF CleanupInv, TypeOK, DeleteNext
  <2>3. Plan(m)[job.next][3] = m BY <2>2, PlanInOrder
  <2>4. m \in unsubscribedOnce /\ unsubscribedOnce' = unsubscribedOnce
    BY <1>2, <2>1 DEF CleanupInv, Entitled, DeleteNext, history
  <2>5. QED BY <2>1, <2>3, <2>4
<1>3. ASSUME NEW m \in Mods, NEW removes \in BOOLEAN, Unsubscribe(m, removes)
      PROVE  \A f \in files \ files' : f[3] \in unsubscribedOnce'
  <2>1. \A f \in files \ files' : f[3] = m BY <1>3 DEF Unsubscribe
  <2>2. m \in unsubscribedOnce' BY <1>3 DEF Unsubscribe
  <2>3. QED BY <2>1, <2>2
<1>4. \/ files \subseteq files' \/ DeleteNext
      \/ \E m \in Mods, removes \in BOOLEAN : Unsubscribe(m, removes)
  <2> USE DEF world, disk, history, spent
  <2>1. CASE CleanupStep
    <3>1. CASE Query \/ AskUnsubscribe \/ Confirm \/ QueryForACF \/ ReadACF
      BY <3>1 DEF Query, AskUnsubscribe, Confirm, QueryForACF, ReadACF, Gives, Keeps
    <3>2. CASE RemoveLinks \/ OpenBackup \/ FillBackup \/ ReplaceACF \/ Prune \/ MarkDeleted
      BY <3>2 DEF RemoveLinks, OpenBackup, FillBackup, ReplaceACF, Prune, MarkDeleted
    <3>3. CASE ScrubRead \/ ScrubQuery \/ ScrubNext
      BY <3>3 DEF ScrubRead, ScrubQuery, ScrubNext, Gives, Keeps
    <3>4. QED BY <2>1, <3>1, <3>2, <3>3 DEF CleanupStep
  <2>2. CASE ToggleSteam \/ TakeSnapshot \/ SnapshotExpires \/ Fault \/ Crash
    BY <2>2 DEF ToggleSteam, TakeSnapshot, SnapshotExpires, Fault, Crash
  <2>3. ASSUME NEW m \in Mods, Subscribe(m) PROVE files \subseteq files'
    BY <2>3 DEF Subscribe
  <2>4. ASSUME NEW m \in Mods, StartDelete(m) \/ StartOffline(m) PROVE files \subseteq files'
    BY <2>4 DEF StartDelete, StartOffline, Starts
  <2>5. ASSUME NEW m \in Mods, UserUnsubscribes(m) \/ UnsubscriptionTakesEffect(m)
        PROVE  \E removes \in BOOLEAN : Unsubscribe(m, removes)
    BY <2>5 DEF UserUnsubscribes, UnsubscriptionTakesEffect
  <2>6. ASSUME NEW t \in 0..MaxClock, SetClock(t) PROVE files \subseteq files'
    BY <2>6 DEF SetClock
  <2>7. ASSUME NEW mode \in Modes, StartScrub(mode) PROVE files \subseteq files'
    BY <2>7 DEF StartScrub, Starts
  <2>8. CASE UNCHANGED vars BY <2>8 DEF vars
  <2>9. QED BY <2>1, <2>2, <2>3, <2>4, <2>5, <2>6, <2>7, <2>8 DEF Next
<1>5. QED BY <1>1, <1>2, <1>3, <1>4

(* A behaviour of the Workshop is one of the cleanups, whichever side it is
   about: the other side stands still.                                      *)
THEOREM WorkshopIsCleanup == WorkshopSpec => Spec
<1>1. WorkshopInit => Init BY DEF WorkshopInit
<1>2. [WorkshopNext]_<<vars, preparation, side>> => [Next]_vars
  BY DEF WorkshopNext
<1>3. QED BY <1>1, <1>2, PTL DEF WorkshopSpec, Spec

(* The inductive invariant of the cleanups (delete_ugc_mod, its variant for a
   stopped Steam, the scrubs and remove_workshop_acf_entries).              *)
THEOREM CleanupInvariant == WorkshopSpec => []CleanupInv
BY WorkshopIsCleanup, CleanupInit, CleanupNext, PTL DEF Spec

(* No cleanup deletes a path of an item that was subscribed all the while. *)
THEOREM OnlyTheUnsubscribedGo == WorkshopSpec => OnlyUnsubscribedLoseFiles
BY CleanupInvariant, WorkshopIsCleanup, FilesGoWithReason, PTL DEF Spec, OnlyUnsubscribedLoseFiles

(* An item reported deleted is gone from every library, ACF and the game's
   folder, unless Steam brought something of it back.                      *)
THEOREM DeletionsAreComplete == WorkshopSpec => []DeletedMeansGone
<1>1. CleanupInv => DeletedMeansGone BY DEF CleanupInv, DeletedInv
<1>2. QED BY <1>1, CleanupInvariant, PTL

(* The backup of what an ACF held before its last rewrite survives pruning
   with any retention and any clock, and a cleanup fails only after Steam or
   a call interfered.                                                       *)
THEOREM RewritesCanBeUndone == WorkshopSpec => []CleanupsAreRecoverable
<1>1. CleanupInv => CleanupsAreRecoverable
  BY DEF CleanupInv, BackupInv, Backed, BlameInv, CleanupsAreRecoverable, At
<1>2. QED BY <1>1, CleanupInvariant, PTL

-----------------------------------------------------------------------------
(* The preparations. *)
Copies == [subscribed: BOOLEAN, content: Prep!Contents]
Preparing ==
  [kind: Prep!Kinds, at: Prep!Places, starts: BOOLEAN, auto: BOOLEAN, round: 0..2,
   required: SUBSET Mods, ids: SUBSET Mods, off: SUBSET Mods, todo: SUBSET Mods,
   tried: SUBSET Mods, reported: SUBSET Mods, installed: SUBSET Mods,
   result: {"none", "ok", "failed", "handoff"}, ok: BOOLEAN, outcome: Prep!Outcomes]

(* What Steam and its user do to an item that is not excused: no request to
   unsubscribe it appears, and nothing new is left behind.                   *)
Stands(k) ==
  /\ Prep!Pending(k)' =>
       Prep!Pending(k) /\ (item[k].content = "absent" => item'[k].content = "absent")
  /\ Prep!Owed(k)' => Prep!Owed(k)
  /\ asked[k] # "unsubscribe" /\ Prep!Subscribed(k) => Prep!Subscribed(k)'
  /\ ~Prep!Subscribed(k)' /\ item'[k].content # "absent" =>
       \/ asked[k] = "unsubscribe"
       \/ ~Prep!Subscribed(k) /\ item[k].content # "absent"

LEMMA OutsideKeeps ==
  ASSUME Prep!PrepInv, UNCHANGED <<cancelled, prep, session, handoff, ours>>,
         item' \in [Mods -> Copies], asked' \in [Mods -> {"nothing", "subscribe", "unsubscribe"}],
         since' \in SUBSET Mods, excused' \in SUBSET Mods, native' \in BOOLEAN,
         moves' \in 0..MaxSteam, losses' \in 0..MaxFaults,
         since \subseteq since', excused \subseteq excused',
         \A k \in Mods : asked'[k] = "unsubscribe" => asked[k] = "unsubscribe",
         \A k \in Mods \ since' : Prep!Good(k) => Prep!Good(k)',
         \A k \in Mods \ excused' : Stands(k)
  PROVE  Prep!PrepInv'
<1>1. Prep!TypeOK /\ Prep!PlacesInv /\ Prep!OursInv /\ Prep!ReadyInv
  BY DEF Prep!PrepInv
<1>2. Prep!TypeOK' BY <1>1 DEF Prep!TypeOK, Copies
<1>3. Prep!PlacesInv' /\ Prep!OursInv'
  BY <1>1 DEF Prep!PlacesInv, Prep!OursInv, Prep!At
<1>4. Prep!ReadyInv'
  BY <1>1 DEF Prep!ReadyInv, Prep!Validated, Prep!At, Prep!TypeOK
<1>5. ASSUME prep'.kind # "repair" PROVE Prep!QuietInv'
  BY <1>5 DEF Prep!PrepInv, Prep!QuietInv, Stands
<1>6. ASSUME prep'.kind # "repair" PROVE Prep!OwedInv'
  <2>1. Prep!OwedInv /\ Prep!QuietInv BY <1>6 DEF Prep!PrepInv
  <2>2. prep.at \in {"asking", "asked"} =>
          \A m \in prep.ids \ (prep.off \cup excused') : Prep!Subscribed(m)'
    BY <1>1, <2>1 DEF Prep!OwedInv, Prep!QuietInv, Prep!Early, Stands, Prep!TypeOK
  <2>3. \A m \in ours \ excused' : Prep!Owed(m)' => Prep!Known(m)'
    BY <1>1, <2>1 DEF Prep!OwedInv, Prep!Known, Prep!Reported, Prep!At, Stands, Prep!TypeOK
  <2>4. QED BY <2>1, <2>2, <2>3 DEF Prep!OwedInv, Prep!At
<1>7. QED BY <1>2, <1>3, <1>4, <1>5, <1>6 DEF Prep!PrepInv

LEMMA SteamTogglesKeeps == ASSUME Prep!PrepInv, Prep!SteamToggles PROVE Prep!PrepInv'
<1>1. /\ Prep!TypeOK
      /\ item \in [Mods -> Copies] /\ asked \in [Mods -> {"nothing", "subscribe", "unsubscribe"}]
  BY DEF Prep!PrepInv, Prep!TypeOK, Copies
<1> USE DEF Prep!SteamToggles, Prep!SteamActs, Prep!OfItsOwn
<1>2. \A k \in Mods : Stands(k) /\ (Prep!Good(k) => Prep!Good(k)')
  BY DEF Stands, Prep!Good, Prep!Owed, Prep!Pending, Prep!Subscribed, Prep!HelperInstalled,
         Prep!Installed, Prep!ItemReady
<1>3. moves' \in 0..MaxSteam BY <1>1, CleanupAssumption DEF Prep!TypeOK
<1>4. QED BY <1>1, <1>2, <1>3, OutsideKeeps DEF Prep!TypeOK

LEMMA CarriesOutKeeps ==
  ASSUME Prep!PrepInv, NEW m \in Mods, Prep!CarriesOut(m) PROVE Prep!PrepInv'
<1>1. /\ Prep!TypeOK
      /\ item \in [Mods -> Copies] /\ asked \in [Mods -> {"nothing", "subscribe", "unsubscribe"}]
  BY DEF Prep!PrepInv, Prep!TypeOK, Copies
<1> DEFINE c == item[m].content
           copy == IF asked[m] = "subscribe"
                     THEN [subscribed |-> TRUE,
                           content |-> IF c = "absent" THEN "fetching" ELSE c]
                     ELSE [subscribed |-> FALSE,
                           content |-> IF c = "fetching" THEN "absent" ELSE c]
<1>2. item' = [item EXCEPT ![m] = copy] /\ asked' = [asked EXCEPT ![m] = "nothing"]
      /\ asked[m] \in {"subscribe", "unsubscribe"}
  BY <1>1 DEF Prep!CarriesOut
<1>3. copy \in Copies BY <1>1 DEF Copies, Prep!Contents
<1>4. /\ copy.subscribed = (asked[m] = "subscribe")
      /\ \/ copy.content = c
         \/ c = "absent" /\ asked[m] = "subscribe"
         \/ copy.content = "absent" /\ asked[m] = "unsubscribe"
      /\ c \in {"old", "current", "hollow"} => copy.content = c
      /\ c = "fetching" /\ asked[m] = "subscribe" => copy.content = c
  BY <1>1, <1>2 DEF Copies, Prep!Contents
<1> HIDE DEF copy
<1>5. item' \in [Mods -> Copies] /\ asked' \in [Mods -> {"nothing", "subscribe", "unsubscribe"}]
  BY <1>1, <1>2, <1>3
<1>6. item'[m] = copy /\ asked'[m] = "nothing"
      /\ \A k \in Mods \ {m} : item'[k] = item[k] /\ asked'[k] = asked[k]
  BY <1>1, <1>2
<1>7. UNCHANGED <<cancelled, prep, session, handoff, ours, losses, native, since, excused, moves>>
  BY DEF Prep!CarriesOut, Prep!SteamActs
<1>8. \A k \in Mods : Prep!Good(k) => Prep!Good(k)'
  BY <1>1, <1>4, <1>6, <1>7 DEF Prep!Good, Prep!Installed, Prep!ItemReady
<1>9. Stands(m)
  BY <1>1, <1>2, <1>4, <1>6
  DEF Stands, Prep!Owed, Prep!Pending, Prep!Subscribed, Prep!HelperInstalled, Copies, Prep!Contents
<1>10. \A k \in Mods \ {m} : Stands(k)
  BY <1>6 DEF Stands, Prep!Owed, Prep!Pending, Prep!Subscribed, Prep!HelperInstalled
<1>11. \A k \in Mods : asked'[k] = "unsubscribe" => asked[k] = "unsubscribe" BY <1>6
<1>12. QED
  BY <1>1, <1>5, <1>7, <1>8, <1>9, <1>10, <1>11, OutsideKeeps DEF Prep!TypeOK

LEMMA CopyChanges ==
  ASSUME Prep!PrepInv, NEW m \in Mods, NEW copy \in Copies, item' = [item EXCEPT ![m] = copy],
         UNCHANGED <<asked, cancelled, prep, session, handoff, ours, losses, native>>,
         moves' \in 0..MaxSteam, since' \in {since, since \cup {m}},
         excused' \in {excused, excused \cup {m}},
         m \in since' \/ copy.content = "current",
         \/ m \in excused'
         \/ /\ copy.subscribed = item[m].subscribed
            /\ \/ copy.content \in {"old", "current", "hollow"}
                  /\ (copy.subscribed \/ Prep!HelperInstalled(m))
               \/ copy.content = "absent" /\ ~copy.subscribed
  PROVE  Prep!PrepInv'
<1>1. /\ Prep!TypeOK
      /\ item \in [Mods -> Copies] /\ asked \in [Mods -> {"nothing", "subscribe", "unsubscribe"}]
  BY DEF Prep!PrepInv, Prep!TypeOK, Copies
<1>2. item' \in [Mods -> Copies] BY <1>1
<1>3. item'[m] = copy /\ \A k \in Mods \ {m} : item'[k] = item[k] BY <1>1
<1>4. \A k \in Mods \ since' : Prep!Good(k) => Prep!Good(k)'
  BY <1>1, <1>3 DEF Prep!Good, Prep!Installed, Prep!ItemReady
<1>5. m \notin excused' => Stands(m)
  BY <1>1, <1>3
  DEF Stands, Prep!Owed, Prep!Pending, Prep!Subscribed, Prep!HelperInstalled, Copies, Prep!Contents
<1>6. \A k \in Mods \ {m} : Stands(k)
  BY <1>3 DEF Stands, Prep!Owed, Prep!Pending, Prep!Subscribed, Prep!HelperInstalled
<1>7. since' \in SUBSET Mods /\ excused' \in SUBSET Mods
      /\ since \subseteq since' /\ excused \subseteq excused'
  BY <1>1 DEF Prep!TypeOK
<1>8. QED
  BY <1>1, <1>2, <1>4, <1>5, <1>6, <1>7, OutsideKeeps DEF Prep!TypeOK

LEMMA SteamKeeps == ASSUME Prep!PrepInv, Prep!Environment PROVE Prep!PrepInv'
<1>1. /\ Prep!TypeOK /\ item \in [Mods -> Copies]
      /\ MaxSteam \in Nat
  BY CleanupAssumption DEF Prep!PrepInv, Prep!TypeOK, Copies
<1>2. ASSUME NEW m \in Mods, Prep!Delivers(m) \/ Prep!Outdates(m) \/ Prep!FolderGoes(m)
      PROVE  Prep!PrepInv'
  <2>1. PICK c \in {"old", "current", "hollow"} : item' = [item EXCEPT ![m].content = c]
          /\ (m \in since' \/ c = "current")
    BY <1>2 DEF Prep!Delivers, Prep!Outdates, Prep!FolderGoes
  <2> DEFINE copy == [item[m] EXCEPT !.content = c]
  <2>2. item' = [item EXCEPT ![m] = copy] BY <2>1
  <2>3. copy \in Copies /\ copy.subscribed = item[m].subscribed /\ copy.content = c
    BY <1>1 DEF Copies, Prep!Contents
  <2>4. copy.subscribed \/ Prep!HelperInstalled(m)
    BY <1>2, <2>3 DEF Prep!Delivers, Prep!Outdates, Prep!FolderGoes, Prep!Subscribed,
       Prep!HelperInstalled, Prep!ItemReady, Prep!Installed
  <2> HIDE DEF copy
  <2>5. /\ UNCHANGED <<asked, cancelled, prep, session, handoff, ours, losses, native, excused>>
        /\ moves' \in 0..MaxSteam /\ since' \in {since, since \cup {m}}
    BY <1>1, <1>2
    DEF Prep!Delivers, Prep!Outdates, Prep!FolderGoes, Prep!SteamActs, Prep!OfItsOwn, Prep!TypeOK
  <2>6. QED BY <2>1, <2>2, <2>3, <2>4, <2>5, CopyChanges
<1>3. ASSUME NEW m \in Mods, Prep!Removes(m) PROVE Prep!PrepInv'
  <2> DEFINE copy == [item[m] EXCEPT !.content = "absent"]
  <2>1. item' = [item EXCEPT ![m] = copy] BY <1>3 DEF Prep!Removes
  <2>2. copy \in Copies /\ copy.subscribed = item[m].subscribed /\ copy.content = "absent"
    BY <1>1 DEF Copies, Prep!Contents
  <2> HIDE DEF copy
  <2>3. /\ UNCHANGED <<asked, cancelled, prep, session, handoff, ours, losses, native, excused>>
        /\ moves' \in 0..MaxSteam /\ since' = since \cup {m} /\ ~item[m].subscribed
    BY <1>1, <1>3 DEF Prep!Removes, Prep!SteamActs, Prep!TypeOK, Prep!Subscribed
  <2>4. QED BY <2>1, <2>2, <2>3, CopyChanges
<1>4. ASSUME NEW m \in Mods, Prep!UserToggles(m) PROVE Prep!PrepInv'
  <2> DEFINE c == item[m].content
             copy == IF Prep!Subscribed(m)
                       THEN [subscribed |-> FALSE,
                             content |-> IF c = "fetching" THEN "absent" ELSE c]
                       ELSE [subscribed |-> TRUE,
                             content |-> IF c = "absent" THEN "fetching" ELSE c]
  <2>1. item' = [item EXCEPT ![m] = copy] BY <1>4 DEF Prep!UserToggles
  <2>2. copy \in Copies BY <1>1 DEF Copies, Prep!Contents
  <2> HIDE DEF copy
  <2>3. /\ UNCHANGED <<asked, cancelled, prep, session, handoff, ours, losses, native>>
        /\ moves' \in 0..MaxSteam /\ since' = since \cup {m} /\ excused' = excused \cup {m}
    BY <1>1, <1>4 DEF Prep!UserToggles, Prep!SteamActs, Prep!OfItsOwn, Prep!TypeOK
  <2>4. QED BY <2>1, <2>2, <2>3, CopyChanges
<1>5. QED
  BY <1>2, <1>3, <1>4, SteamTogglesKeeps, CarriesOutKeeps DEF Prep!Environment

(* A step of the operation that asks Steam for nothing. *)
LEMMA StillKeeps ==
  ASSUME Prep!PrepInv, prep' \in Preparing, UNCHANGED <<item, asked, ours, moves>>,
         cancelled' \in BOOLEAN, native' \in BOOLEAN,
         session' \in {"none", "open", "failed", "closed"}, handoff' \in SUBSET Mods,
         since' \in SUBSET Mods, excused' \in SUBSET Mods, excused \subseteq excused',
         losses' \in 0..MaxFaults,
         prep.kind = "repair" => prep'.kind = "repair",
         prep'.kind # "repair" /\ prep'.at \in Prep!Early => prep.at \in Prep!Early,
         Prep!PlacesInv', Prep!OursInv', Prep!ReadyInv', prep'.kind # "repair" => Prep!OwedInv'
  PROVE  Prep!PrepInv'
<1>1. Prep!TypeOK' BY DEF Prep!PrepInv, Prep!TypeOK, Preparing
<1>2. ASSUME prep'.kind # "repair" PROVE Prep!QuietInv'
  <2>1. Prep!QuietInv BY <1>2 DEF Prep!PrepInv
  <2>2. \A m \in Mods : /\ Prep!Pending(m)' = Prep!Pending(m)
                         /\ Prep!Subscribed(m)' = Prep!Subscribed(m)
    BY DEF Prep!Pending, Prep!Subscribed
  <2>3. prep'.at \in Prep!Early => prep.at \in Prep!Early BY <1>2
  <2>4. QED BY <2>1, <2>2, <2>3 DEF Prep!QuietInv
<1>3. QED BY <1>1, <1>2 DEF Prep!PrepInv

LEMMA StartKeeps ==
  ASSUME Prep!PrepInv, NEW kind \in Prep!Kinds, NEW required \in SUBSET Mods,
         NEW starts \in BOOLEAN, NEW auto \in BOOLEAN, Prep!Start(kind, required, starts, auto)
  PROVE  Prep!PrepInv'
<1> DEFINE at == CASE kind = "prepare" -> "preflight"
                   [] kind = "unmanaged" -> "folders"
                   [] kind = "repair" -> "unsubscribe"
<1>1. /\ kind = "prepare" => at = "preflight"
      /\ kind = "unmanaged" => at = "folders"
      /\ kind = "repair" => at = "unsubscribe"
      /\ kind \in {"prepare", "unmanaged", "repair"}
  BY DEF Prep!Kinds
<1>2. prep' = [Prep!NoPrep EXCEPT !.kind = kind, !.required = required, !.starts = starts,
                                  !.auto = auto, !.at = at]
  BY DEF Prep!Start, Prep!Goes
<1> HIDE DEF at
<1>3. /\ prep' \in Preparing /\ prep'.kind = kind /\ prep'.at = at /\ prep'.tried = {}
      /\ prep'.reported = {} /\ prep'.outcome = "none"
  <2>1. /\ Prep!NoPrep \in Preparing /\ Prep!NoPrep.tried = {} /\ Prep!NoPrep.reported = {}
        /\ Prep!NoPrep.outcome = "none"
    BY DEF Prep!NoPrep, Preparing, Prep!Kinds, Prep!Places, Prep!Outcomes
  <2>2. at \in Prep!Places BY <1>1 DEF Prep!Places
  <2>3. QED BY <1>2, <2>1, <2>2 DEF Preparing
<1>4. /\ UNCHANGED <<item, asked, session, handoff, ours, since, excused, moves, losses, native,
                     cancelled>>
      /\ prep.at = "idle"
  BY DEF Prep!Start, Prep!Quiet, Prep!Same, Prep!history, Prep!At
<1>5. Prep!TypeOK /\ Prep!PlacesInv /\ Prep!OursInv
  BY DEF Prep!PrepInv
<1>6. Prep!PlacesInv' /\ Prep!OursInv' /\ Prep!ReadyInv'
  BY <1>1, <1>3, <1>4, <1>5 DEF Prep!PlacesInv, Prep!OursInv, Prep!ReadyInv, Prep!Validated, Prep!At
<1>7. Prep!OwedInv'
  <2>1. prep.kind # "repair" /\ Prep!OwedInv BY <1>4, <1>5 DEF Prep!PrepInv, Prep!PlacesInv
  <2>2. \A m \in ours \ excused : ~Prep!Owed(m)
    BY <1>4, <2>1 DEF Prep!OwedInv, Prep!Known, Prep!At
  <2>3. QED
    BY <1>1, <1>3, <1>4, <2>2
    DEF Prep!OwedInv, Prep!At, Prep!Owed, Prep!Pending, Prep!Subscribed, Prep!HelperInstalled
<1>8. prep.at \in Prep!Early /\ prep.kind # "repair"
  BY <1>4, <1>5 DEF Prep!Early, Prep!PlacesInv
<1>9. QED BY <1>3, <1>4, <1>5, <1>6, <1>7, <1>8, StillKeeps DEF Prep!TypeOK

(* What the helpers that return a new state of the operation do to it. *)
LEMMA EndingDoes ==
  ASSUME prep \in Preparing, NEW ok \in BOOLEAN, NEW r, r = Prep!Ending(ok)
  PROVE  /\ r \in Preparing /\ r.at = "close" /\ r.ok = ok /\ r.kind = prep.kind
         /\ r.tried = prep.tried /\ r.reported = prep.reported /\ r.required = prep.required
         /\ r.outcome = prep.outcome
BY DEF Preparing, Prep!Ending, Prep!Places

LEMMA ReturnedDoes ==
  ASSUME prep \in Preparing, NEW ok \in BOOLEAN, NEW r, r = Prep!Returned(ok)
  PROVE  /\ r \in Preparing /\ r.kind = prep.kind
         /\ r.tried = prep.tried /\ r.reported = prep.reported /\ r.required = prep.required
         /\ r.outcome = prep.outcome
         /\ prep.kind = "repair" => r.at = "verify"
         /\ prep.kind # "repair" /\ ok => r.at = "validate"
         /\ prep.kind # "repair" /\ ~ok => r.at = "close" /\ ~r.ok
<1>1. CASE prep.kind = "repair"
  <2>1. r = [prep EXCEPT !.at = "verify", !.ok = ok] BY <1>1 DEF Prep!Returned
  <2>2. QED BY <1>1, <2>1 DEF Preparing, Prep!Places
<1>2. CASE prep.kind # "repair" /\ ok
  <2>1. r = [prep EXCEPT !.at = "validate"] BY <1>2 DEF Prep!Returned
  <2>2. QED BY <1>2, <2>1 DEF Preparing, Prep!Places
<1>3. CASE prep.kind # "repair" /\ ~ok
  <2>1. r = Prep!Ending(FALSE) BY <1>3 DEF Prep!Returned
  <2>2. QED BY <1>3, <2>1, EndingDoes
<1>4. QED BY <1>1, <1>2, <1>3

LEMMA InstallingDoes ==
  ASSUME prep \in Preparing, NEW ids \in SUBSET Mods, NEW round \in 1..2, NEW r,
         r = Prep!Installing(ids, round)
  PROVE  /\ r \in Preparing /\ r.at = "preflight" /\ r.kind = prep.kind /\ r.round = round
         /\ r.tried = prep.tried /\ r.reported = prep.reported /\ r.required = prep.required
         /\ r.outcome = prep.outcome
<1>1. round \in 0..2 /\ r = [prep EXCEPT !.at = "preflight", !.ids = ids, !.round = round]
  BY DEF Prep!Installing
<1>2. "preflight" \in Prep!Places BY DEF Prep!Places
<1>3. QED BY ZenonT(60), <1>1, <1>2 DEF Preparing

LEMMA CommandEnds ==
  ASSUME Prep!TypeOK, prep \in Preparing, NEW result \in {"ok", "failed", "handoff"}, NEW r,
         r = Prep!Ended(result)
  PROVE  /\ r \in Preparing /\ r.at = "result" /\ r.kind = prep.kind /\ r.result = result
         /\ r.tried = prep.tried /\ r.reported = prep.reported /\ r.required = prep.required
         /\ r.off = prep.off /\ r.ids = prep.ids /\ r.outcome = prep.outcome
         /\ prep.kind # "repair" => r.installed = {m \in prep.ids : Prep!Installed(m)}
<1> DEFINE s == IF result = "ok" /\ prep.kind = "repair" THEN prep.ids
                ELSE {m \in prep.ids : Prep!Installed(m)}
<1>1. r = [prep EXCEPT !.at = "result", !.result = result, !.installed = s]
  BY DEF Prep!Ended
<1>2. s \in SUBSET Mods /\ (prep.kind # "repair" => s = {m \in prep.ids : Prep!Installed(m)})
  BY DEF Preparing
<1> HIDE DEF s
<1>3. QED BY ZenonT(60), <1>1, <1>2 DEF Preparing, Prep!Places

(* Places where something may be owed. *)
Burdened == {"asking", "asked", "waiting", "result", "recheck", "undo", "close", "cleanup"}

(* A step between places where nothing is owed, or of a repair. *)
LEMMA UnburdenedKeeps ==
  ASSUME Prep!PrepInv, prep' \in Preparing, UNCHANGED <<item, asked, ours, moves, handoff>>,
         cancelled' \in BOOLEAN, native' \in BOOLEAN,
         session' \in {"none", "open", "failed", "closed"},
         since' \in SUBSET Mods, excused' \in SUBSET Mods, excused \subseteq excused',
         losses' \in 0..MaxFaults,
         prep'.kind = prep.kind, prep.kind = "repair" \/ prep.at \notin Burdened,
         prep'.kind # "repair" /\ prep'.at \in Prep!Early => prep.at \in Prep!Early,
         prep'.at \notin {"asking", "asked", "waiting", "undo"},
         prep'.tried = prep.tried, prep'.reported = prep.reported,
         Prep!PlacesInv', Prep!ReadyInv'
  PROVE  Prep!PrepInv'
<1>1. Prep!OursInv' BY DEF Prep!PrepInv, Prep!OursInv, Prep!At
<1>2. ASSUME prep'.kind # "repair" PROVE Prep!OwedInv'
  <2>1. Prep!OwedInv BY <1>2 DEF Prep!PrepInv
  <2>2. \A m \in ours \ excused : ~Prep!Owed(m)
    BY <1>2, <2>1 DEF Prep!OwedInv, Prep!Known, Prep!At, Burdened
  <2>3. QED
    BY <2>2
    DEF Prep!OwedInv, Prep!At, Prep!Owed, Prep!Pending, Prep!Subscribed, Prep!HelperInstalled
<1>3. handoff' \in SUBSET Mods BY DEF Prep!PrepInv, Prep!TypeOK
<1>4. QED BY <1>1, <1>2, <1>3, StillKeeps

LEMMA PrepTypes ==
  ASSUME Prep!PrepInv
  PROVE  /\ Prep!TypeOK /\ prep \in Preparing /\ Prep!PlacesInv /\ Prep!OursInv /\ Prep!ReadyInv
         /\ prep.kind \in {"prepare", "unmanaged", "repair"}
         /\ prep.outcome # "none" => prep.at = "done"
BY DEF Prep!PrepInv, Prep!TypeOK, Preparing, Prep!PlacesInv, Prep!At, Prep!Kinds

(* A step that is no answer yet, and reports nothing. *)
LEMMA UnvalidatedKeeps ==
  ASSUME prep'.outcome = "none",
         \/ prep'.at \notin {"folders", "close", "cleanup", "cleaning", "finish"}
         \/ ~prep'.ok /\ prep'.at # "folders"
  PROVE  Prep!ReadyInv'
BY DEF Prep!ReadyInv, Prep!Validated, Prep!At

LEMMA PreflightPassesKeeps == ASSUME Prep!PrepInv, Prep!PreflightPasses PROVE Prep!PrepInv'
<1>1. /\ Prep!TypeOK /\ prep \in Preparing /\ Prep!PlacesInv
      /\ prep.kind \in {"prepare", "unmanaged", "repair"}
      /\ prep.at = "preflight" /\ prep.outcome = "none"
  BY PrepTypes DEF Prep!PreflightPasses, Prep!At
<1> DEFINE at == IF prep.round = 0 THEN "refresh" ELSE "state"
<1>2. prep' = [prep EXCEPT !.at = at] BY DEF Prep!PreflightPasses, Prep!Goes
<1>3. at \in {"refresh", "state"} /\ (prep.kind = "repair" => at = "state")
  BY <1>1 DEF Prep!PlacesInv, Prep!At
<1> HIDE DEF at
<1>4. /\ prep' \in Preparing /\ prep'.at = at /\ prep'.kind = prep.kind
      /\ prep'.tried = prep.tried /\ prep'.reported = prep.reported /\ prep'.outcome = "none"
  BY <1>1, <1>2, <1>3 DEF Preparing, Prep!Places
<1>5. /\ UNCHANGED <<item, asked, cancelled, handoff, ours, since, excused, moves, losses>>
      /\ native' \in BOOLEAN /\ session' \in {"none", "open", "failed", "closed"}
      /\ prep.kind = "repair" => session' = session
  BY <1>1 DEF Prep!PreflightPasses, Prep!history, Prep!spent, Prep!TypeOK
<1>6. Prep!PlacesInv' /\ Prep!ReadyInv'
  BY <1>1, <1>3, <1>4, <1>5, UnvalidatedKeeps DEF Prep!PlacesInv, Prep!At
<1>7. prep.at \notin Burdened /\ prep.at \in Prep!Early BY <1>1 DEF Burdened, Prep!Early
<1>8. QED BY <1>1, <1>3, <1>4, <1>5, <1>6, <1>7, UnburdenedKeeps DEF Prep!TypeOK

LEMMA LossCounts == ASSUME Prep!PrepInv, Prep!Loss PROVE losses' \in 0..MaxFaults
<1>1. MaxFaults \in Nat /\ losses \in 0..MaxFaults
  BY PrepTypes, CleanupAssumption DEF Prep!TypeOK
<1>2. losses < MaxFaults /\ losses' = losses + 1 BY DEF Prep!Loss
<1>3. QED BY <1>1, <1>2

(* The steps that end a preparation before it has asked for anything. *)
LEMMA EndsEarly ==
  ASSUME Prep!PrepInv, prep.kind # "repair", prep.at \notin Burdened \cup {"idle", "done"},
         prep' = Prep!Ending(FALSE), losses' \in 0..MaxFaults,
         UNCHANGED <<item, asked, native, cancelled, session, handoff, ours, since, excused, moves>>
  PROVE  Prep!PrepInv'
<1>1. /\ Prep!TypeOK /\ prep \in Preparing /\ Prep!PlacesInv /\ prep.outcome = "none"
  BY PrepTypes
<1>2. /\ prep' \in Preparing /\ prep'.at = "close" /\ ~prep'.ok /\ prep'.kind = prep.kind
      /\ prep'.tried = prep.tried /\ prep'.reported = prep.reported /\ prep'.outcome = "none"
  BY <1>1, EndingDoes
<1>3. Prep!PlacesInv' /\ Prep!ReadyInv' BY <1>1, <1>2, UnvalidatedKeeps DEF Prep!PlacesInv, Prep!At
<1>4. prep'.at \notin Prep!Early BY <1>2 DEF Prep!Early
<1>5. QED BY <1>1, <1>2, <1>3, <1>4, UnburdenedKeeps DEF Prep!TypeOK

(* run_ugc_install of a repair returns. *)
LEMMA RepairReturns ==
  ASSUME Prep!PrepInv, prep.kind = "repair", prep.at # "done", NEW ok \in BOOLEAN,
         prep' = Prep!Returned(ok), losses' \in 0..MaxFaults, excused' \in {excused, Mods},
         UNCHANGED <<item, asked, native, cancelled, session, handoff, ours, since, moves>>
  PROVE  Prep!PrepInv'
<1>1. /\ Prep!TypeOK /\ prep \in Preparing /\ Prep!PlacesInv /\ prep.outcome = "none"
  BY PrepTypes
<1>2. /\ prep' \in Preparing /\ prep'.at = "verify" /\ prep'.kind = prep.kind
      /\ prep'.tried = prep.tried /\ prep'.reported = prep.reported /\ prep'.outcome = "none"
  BY <1>1, ReturnedDoes
<1>3. Prep!PlacesInv' /\ Prep!ReadyInv' BY <1>1, <1>2, UnvalidatedKeeps DEF Prep!PlacesInv, Prep!At
<1>4. prep'.at \notin Prep!Early BY <1>2 DEF Prep!Early
<1>5. QED BY <1>1, <1>2, <1>3, <1>4, UnburdenedKeeps DEF Prep!TypeOK

LEMMA PreflightFailsKeeps == ASSUME Prep!PrepInv, Prep!PreflightFails PROVE Prep!PrepInv'
<1>1. /\ Prep!TypeOK /\ prep.at = "preflight" /\ losses \in 0..MaxFaults
      /\ UNCHANGED <<item, asked, native, cancelled, session, handoff, ours, since, excused,
                     moves, losses>>
  BY PrepTypes DEF Prep!PreflightFails, Prep!At, Prep!Quiet, Prep!Same, Prep!history, Prep!TypeOK
<1>2. CASE prep.kind = "repair"
  <2>1. prep.round # 0 BY <1>1, <1>2, PrepTypes DEF Prep!PlacesInv, Prep!At
  <2>2. prep' = Prep!Returned(FALSE) BY <2>1 DEF Prep!PreflightFails, Prep!Goes
  <2>3. QED BY <1>1, <1>2, <2>2, RepairReturns
<1>3. CASE prep.kind # "repair"
  <2>1. prep' = Prep!Ending(FALSE) BY <1>3 DEF Prep!PreflightFails, Prep!Goes, Prep!Returned
  <2>2. QED BY <1>1, <1>3, <2>1, EndsEarly DEF Burdened
<1>4. QED BY <1>2, <1>3

LEMMA RefreshCancelledKeeps ==
  ASSUME Prep!PrepInv, Prep!RefreshCancelled \/ Prep!LowDisk PROVE Prep!PrepInv'
<1>1. /\ prep.at \in {"refreshing", "work"} /\ prep' = Prep!Ending(FALSE)
      /\ UNCHANGED <<item, asked, native, cancelled, session, handoff, ours, since, excused, moves>>
  BY DEF Prep!RefreshCancelled, Prep!LowDisk, Prep!At, Prep!Goes, Prep!Quiet, Prep!Same,
         Prep!history
<1>2. losses' \in 0..MaxFaults
  <2>1. losses' = losses \/ Prep!Loss BY DEF Prep!RefreshCancelled, Prep!LowDisk, Prep!Quiet
  <2>2. QED BY <2>1, LossCounts, PrepTypes DEF Prep!TypeOK
<1>3. prep.kind # "repair" BY <1>1, PrepTypes DEF Prep!PlacesInv
<1>4. QED BY <1>1, <1>2, <1>3, EndsEarly DEF Burdened

LEMMA RefreshEndsKeeps == ASSUME Prep!PrepInv, Prep!RefreshEnds PROVE Prep!PrepInv'
<1>1. /\ Prep!TypeOK /\ prep \in Preparing /\ Prep!PlacesInv /\ prep.at = "refreshing"
      /\ prep.kind = "prepare" /\ prep.outcome = "none" /\ losses \in 0..MaxFaults
      /\ UNCHANGED <<item, asked, native, cancelled, session, handoff, ours, since, excused,
                     moves, losses>>
  BY PrepTypes
  DEF Prep!RefreshEnds, Prep!At, Prep!Quiet, Prep!Same, Prep!history, Prep!TypeOK, Prep!PlacesInv
<1> DEFINE work == {m \in prep.required : ~Prep!ItemReady(m)}
<1>2. CASE prep' = Prep!Ending(FALSE)
  BY <1>1, <1>2, EndsEarly DEF Burdened
<1>3. CASE \/ prep' = [prep EXCEPT !.at = "validate"]
           \/ prep' = [prep EXCEPT !.at = "work", !.ids = work]
  <2>1. work \in SUBSET Mods BY <1>1 DEF Preparing
  <2> HIDE DEF work
  <2>2. /\ prep' \in Preparing /\ prep'.at \in {"validate", "work"} /\ prep'.kind = prep.kind
        /\ prep'.tried = prep.tried /\ prep'.reported = prep.reported /\ prep'.outcome = "none"
    BY <1>1, <1>3, <2>1 DEF Preparing, Prep!Places
  <2>3. Prep!PlacesInv' /\ Prep!ReadyInv'
    BY <1>1, <2>2, UnvalidatedKeeps DEF Prep!PlacesInv, Prep!At
  <2>4. prep.at \notin Burdened /\ prep.at \in Prep!Early BY <1>1 DEF Burdened, Prep!Early
  <2>5. QED BY <1>1, <2>2, <2>3, <2>4, UnburdenedKeeps DEF Prep!TypeOK
<1>4. QED BY <1>2, <1>3 DEF Prep!RefreshEnds, Prep!Goes

LEMMA WorkBeginsKeeps == ASSUME Prep!PrepInv, Prep!WorkBegins PROVE Prep!PrepInv'
<1>1. /\ Prep!TypeOK /\ prep \in Preparing /\ Prep!PlacesInv /\ prep.at = "work"
      /\ prep.kind = "prepare" /\ prep.outcome = "none" /\ prep.ids \in SUBSET Mods
      /\ UNCHANGED <<item, asked, native, cancelled, session, handoff, ours, since, excused,
                     moves, losses>>
      /\ prep' = Prep!Installing(prep.ids, 1)
  BY PrepTypes
  DEF Prep!WorkBegins, Prep!At, Prep!Quiet, Prep!Same, Prep!history, Prep!PlacesInv, Prep!Goes,
      Preparing
<1>2. /\ prep' \in Preparing /\ prep'.at = "preflight" /\ prep'.kind = prep.kind
      /\ prep'.tried = prep.tried /\ prep'.reported = prep.reported /\ prep'.outcome = "none"
  BY <1>1, InstallingDoes
<1>3. Prep!PlacesInv' /\ Prep!ReadyInv'
  BY <1>1, <1>2, UnvalidatedKeeps DEF Prep!PlacesInv, Prep!At
<1>4. prep.at \notin Burdened /\ prep.at \in Prep!Early BY <1>1 DEF Burdened, Prep!Early
<1>5. QED BY <1>1, <1>2, <1>3, <1>4, UnburdenedKeeps DEF Prep!TypeOK

LEMMA InstallStateKeeps == ASSUME Prep!PrepInv, Prep!InstallState PROVE Prep!PrepInv'
<1>1. /\ Prep!TypeOK /\ prep \in Preparing /\ Prep!PlacesInv /\ prep.at = "state"
      /\ prep.kind \in {"prepare", "repair"} /\ prep.outcome = "none" /\ losses \in 0..MaxFaults
      /\ UNCHANGED <<item, asked, native, cancelled, session, handoff, ours, since, excused,
                     moves, losses>>
  BY PrepTypes
  DEF Prep!InstallState, Prep!At, Prep!Quiet, Prep!Same, Prep!history, Prep!TypeOK, Prep!PlacesInv
<1>2. prep.at \notin Burdened /\ prep.at \in Prep!Early BY <1>1 DEF Burdened, Prep!Early
<1> DEFINE waiting == {m \in prep.ids : ~Prep!ItemReady(m)}
           off == {m \in waiting : ~Prep!Subscribed(m)}
<1>3. CASE waiting = {}
  <2>1. prep' = Prep!Returned(TRUE) BY <1>3 DEF Prep!InstallState, Prep!Goes
  <2>2. CASE prep.kind = "repair" BY <1>1, <2>1, <2>2, RepairReturns
  <2>3. CASE prep.kind = "prepare"
    <3>1. /\ prep' \in Preparing /\ prep'.at = "validate" /\ prep'.kind = prep.kind
          /\ prep'.tried = prep.tried /\ prep'.reported = prep.reported /\ prep'.outcome = "none"
      BY <1>1, <2>1, <2>3, ReturnedDoes
    <3>2. Prep!PlacesInv' /\ Prep!ReadyInv'
      BY <1>1, <2>3, <3>1, UnvalidatedKeeps DEF Prep!PlacesInv, Prep!At
    <3>3. QED BY <1>1, <1>2, <3>1, <3>2, UnburdenedKeeps DEF Prep!TypeOK
  <2>4. QED BY <1>1, <2>2, <2>3
<1>4. CASE waiting # {}
  <2>1. waiting \in SUBSET Mods /\ off \in SUBSET Mods /\ off \subseteq waiting
        /\ \A m \in waiting \ off : Prep!Subscribed(m)
    BY <1>1 DEF Preparing
  <2>2. prep' = [prep EXCEPT !.at = "asking", !.ids = waiting, !.todo = waiting, !.off = off,
                             !.tried = {}, !.reported = {}, !.installed = {}]
    BY <1>4 DEF Prep!InstallState, Prep!Goes
  <2> HIDE DEF waiting, off
  <2>3. /\ prep' \in Preparing /\ prep'.at = "asking" /\ prep'.kind = prep.kind
        /\ prep'.tried = {} /\ prep'.reported = {} /\ prep'.outcome = "none"
        /\ prep'.ids = waiting /\ prep'.todo = waiting /\ prep'.off = off
    BY <1>1, <2>1, <2>2 DEF Preparing, Prep!Places
  <2>4. Prep!PlacesInv' /\ Prep!ReadyInv' /\ Prep!OursInv'
    BY <1>1, <2>3, UnvalidatedKeeps, PrepTypes DEF Prep!PlacesInv, Prep!OursInv, Prep!At
  <2>5. ASSUME prep.kind # "repair" PROVE Prep!OwedInv'
    <3>1. \A m \in ours \ excused : ~Prep!Owed(m)
      BY <1>1, <2>5 DEF Prep!PrepInv, Prep!OwedInv, Prep!Known, Prep!At
    <3>2. \A m \in ours \ excused' : ~Prep!Owed(m)'
      BY <1>1, <3>1 DEF Prep!Owed, Prep!Pending, Prep!Subscribed, Prep!HelperInstalled
    <3>3. \A m \in waiting \ off : Prep!Subscribed(m)' BY <1>1, <2>1 DEF Prep!Subscribed
    <3>4. QED BY <1>1, <2>1, <2>3, <3>2, <3>3 DEF Prep!OwedInv, Prep!At
  <2>6. QED BY <1>1, <1>2, <2>3, <2>4, <2>5, StillKeeps DEF Prep!TypeOK
<1>5. QED BY <1>3, <1>4

LEMMA AskDownloadKeeps == ASSUME Prep!PrepInv, Prep!AskDownload PROVE Prep!PrepInv'
<1>1. /\ Prep!TypeOK /\ prep \in Preparing /\ Prep!PlacesInv /\ prep.at = "asked"
      /\ prep.kind \in {"prepare", "repair"} /\ prep.outcome = "none" /\ losses \in 0..MaxFaults
      /\ UNCHANGED <<item, asked, native, cancelled, session, handoff, ours, since, excused,
                     moves, losses>>
  BY PrepTypes
  DEF Prep!AskDownload, Prep!At, Prep!Quiet, Prep!Same, Prep!history, Prep!TypeOK, Prep!PlacesInv
<1> DEFINE at == IF prep.todo = {} THEN "waiting" ELSE "asking"
<1>2. prep' = [prep EXCEPT !.at = at, !.reported = prep.tried] /\ at \in {"waiting", "asking"}
  BY DEF Prep!AskDownload, Prep!Goes
<1> HIDE DEF at
<1>3. /\ prep' \in Preparing /\ prep'.at = at /\ prep'.kind = prep.kind
      /\ prep'.tried = prep.tried /\ prep'.reported = prep.tried /\ prep'.outcome = "none"
      /\ prep'.ids = prep.ids /\ prep'.todo = prep.todo /\ prep'.off = prep.off
  BY <1>1, <1>2 DEF Preparing, Prep!Places
<1>4. Prep!PlacesInv' /\ Prep!ReadyInv' /\ Prep!OursInv'
  BY <1>1, <1>2, <1>3, UnvalidatedKeeps, PrepTypes DEF Prep!PlacesInv, Prep!OursInv, Prep!At
<1>5. ASSUME prep.kind # "repair" PROVE Prep!OwedInv'
  <2>1. Prep!OwedInv BY <1>5 DEF Prep!PrepInv
  <2>2. \A m \in Mods : Prep!Owed(m)' = Prep!Owed(m) /\ Prep!Subscribed(m)' = Prep!Subscribed(m)
    BY <1>1 DEF Prep!Owed, Prep!Pending, Prep!Subscribed, Prep!HelperInstalled
  <2>3. \A m \in ours \ excused : Prep!Known(m) => Prep!Known(m)'
    BY <1>1, <1>2, <1>3 DEF Prep!Known, Prep!At
  <2>4. prep.ids \subseteq Mods /\ ours \subseteq Mods BY <1>1 DEF Preparing, Prep!TypeOK
  <2>5. QED BY <1>1, <1>2, <1>3, <2>1, <2>2, <2>3, <2>4 DEF Prep!OwedInv, Prep!At
<1>6. prep.at \in Prep!Early BY <1>1 DEF Prep!Early
<1>7. QED BY <1>1, <1>2, <1>3, <1>4, <1>5, <1>6, StillKeeps DEF Prep!TypeOK

(* A command ends: with every item ready, with a failure once all were asked
   for, or with a handoff of what it tried.                                 *)
LEMMA CommandKeeps ==
  ASSUME Prep!PrepInv, NEW result \in {"ok", "failed", "handoff"}, prep' = Prep!Ended(result),
         prep.at \in {"asking", "asked", "waiting"},
         handoff' \in {handoff, handoff \cup Prep!CleanupCandidates(prep.off, prep.tried)},
         UNCHANGED <<item, asked, native, cancelled, session, ours, since, moves>>,
         excused' \in {excused, Mods}, losses' \in 0..MaxFaults,
         prep.kind # "repair" =>
           /\ excused' = excused
           /\ \/ result = "ok" /\ \A m \in prep.ids : Prep!HelperReady(m)
              \/ result = "failed" /\ prep.at = "waiting"
              \/ /\ result = "handoff" /\ (cancelled \/ prep.at = "waiting")
                 /\ handoff' = handoff \cup Prep!CleanupCandidates(prep.off, prep.tried)
  PROVE  Prep!PrepInv'
<1>1. /\ Prep!TypeOK /\ prep \in Preparing /\ Prep!PlacesInv /\ Prep!OursInv
      /\ prep.kind \in {"prepare", "repair"} /\ prep.outcome = "none"
  BY PrepTypes DEF Prep!PlacesInv
<1>2. /\ prep' \in Preparing /\ prep'.at = "result" /\ prep'.kind = prep.kind
      /\ prep'.result = result /\ prep'.tried = prep.tried /\ prep'.reported = prep.reported
      /\ prep'.off = prep.off /\ prep'.ids = prep.ids /\ prep'.outcome = "none"
      /\ prep.kind # "repair" => prep'.installed = {m \in prep.ids : Prep!Installed(m)}
  BY <1>1, CommandEnds
<1>3. handoff' \in SUBSET Mods /\ handoff' \subseteq handoff \cup prep.tried
  BY <1>1 DEF Prep!TypeOK, Preparing, Prep!CleanupCandidates
<1>4. Prep!PlacesInv' /\ Prep!ReadyInv' BY <1>1, <1>2, UnvalidatedKeeps DEF Prep!PlacesInv, Prep!At
<1>5. Prep!OursInv' BY <1>1, <1>2, <1>3 DEF Prep!OursInv, Prep!At
<1>6. ASSUME prep.kind # "repair" PROVE Prep!OwedInv'
  <2>1. Prep!OwedInv /\ Prep!QuietInv /\ excused' = excused BY <1>6 DEF Prep!PrepInv
  <2>2. ASSUME NEW m \in ours \ excused, Prep!Owed(m)' PROVE Prep!Known(m)'
    <3>1. m \in Mods /\ Prep!Owed(m) /\ Prep!Known(m)
      BY <1>1, <2>1, <2>2
      DEF Prep!TypeOK, Prep!OwedInv, Prep!Owed, Prep!Pending, Prep!Subscribed, Prep!HelperInstalled
    <3>2. m \in prep.off /\ m \in prep.tried /\ m \in prep.ids
      BY <1>1, <2>1, <3>1 DEF Prep!Known, Prep!OwedInv, Prep!At
    <3>3. ~Prep!HelperInstalled(m)
      BY <2>1, <2>2, <3>1 DEF Prep!Owed, Prep!QuietInv, Prep!HelperInstalled
    <3>4. ~Prep!Installed(m) /\ ~Prep!HelperReady(m)
      BY <3>3 DEF Prep!Installed, Prep!HelperReady, Prep!HelperInstalled
    <3>5. m \notin prep'.installed BY <1>2, <1>6, <3>4
    <3>6. CASE result = "failed" /\ prep.at = "waiting"
      <4>1. m \in prep'.reported /\ m \in prep'.off
        BY <1>2, <2>1, <3>2, <3>6 DEF Prep!OwedInv, Prep!At
      <4>2. QED BY <1>2, <3>5, <3>6, <4>1 DEF Prep!Known, Prep!Reported, Prep!At
    <3>7. CASE /\ result = "handoff" /\ (cancelled \/ prep.at = "waiting")
               /\ handoff' = handoff \cup Prep!CleanupCandidates(prep.off, prep.tried)
      <4>1. m \in handoff' BY <3>2, <3>7 DEF Prep!CleanupCandidates
      <4>2. cancelled' \/ (m \in prep'.reported /\ m \in prep'.off)
        BY <1>2, <2>1, <3>2, <3>7 DEF Prep!OwedInv, Prep!At
      <4>3. QED BY <1>2, <3>5, <3>7, <4>1, <4>2 DEF Prep!Known, Prep!Reported, Prep!At
    <3>8. QED BY <1>6, <3>2, <3>4, <3>6, <3>7
  <2>3. QED BY <1>2, <2>1, <2>2 DEF Prep!OwedInv, Prep!At
<1>7. prep.at \in Prep!Early BY DEF Prep!Early
<1>8. excused' \in SUBSET Mods /\ excused \subseteq excused' BY <1>1 DEF Prep!TypeOK
<1>9. QED BY <1>1, <1>2, <1>3, <1>4, <1>5, <1>6, <1>7, <1>8, StillKeeps DEF Prep!TypeOK

LEMMA CommandEndsKeeps ==
  ASSUME Prep!PrepInv, Prep!WaitReady \/ Prep!WaitTimesOut \/ Prep!HandsOver PROVE Prep!PrepInv'
<1>1. losses' \in 0..MaxFaults /\ excused' = excused
      /\ UNCHANGED <<item, asked, native, cancelled, session, ours, since, moves>>
  BY PrepTypes
  DEF Prep!WaitReady, Prep!WaitTimesOut, Prep!HandsOver, Prep!Quiet, Prep!Same, Prep!history,
      Prep!TypeOK
<1>2. CASE Prep!WaitReady
  BY <1>1, <1>2, CommandKeeps DEF Prep!WaitReady, Prep!Goes, Prep!At, Prep!Quiet
<1>3. CASE Prep!WaitTimesOut
  BY <1>1, <1>3, CommandKeeps DEF Prep!WaitTimesOut, Prep!Goes, Prep!At
<1>4. CASE Prep!HandsOver
  BY <1>1, <1>4, CommandKeeps DEF Prep!HandsOver, Prep!Goes
<1>5. QED BY <1>2, <1>3, <1>4

LEMMA ResultCheckedKeeps == ASSUME Prep!PrepInv, Prep!ResultChecked PROVE Prep!PrepInv'
<1>1. /\ Prep!TypeOK /\ prep \in Preparing /\ Prep!PlacesInv /\ Prep!OursInv /\ prep.at = "result"
      /\ prep.kind \in {"prepare", "repair"} /\ prep.outcome = "none" /\ losses \in 0..MaxFaults
      /\ UNCHANGED <<item, asked, native, cancelled, session, ours, since, excused, moves, losses>>
  BY PrepTypes
  DEF Prep!ResultChecked, Prep!At, Prep!Same, Prep!history, Prep!TypeOK, Prep!PlacesInv
<1>2. /\ handoff' \in SUBSET Mods /\ handoff \subseteq handoff'
      /\ handoff' \subseteq handoff \cup prep.reported
      /\ cancelled /\ prep.result = "failed" =>
           \A m \in prep.off \cap prep.reported : m \in prep.installed \/ m \in handoff'
  BY <1>1 DEF Prep!ResultChecked, Prep!CleanupCandidates, Prep!TypeOK, Preparing
<1>3. PICK ok \in BOOLEAN, answered \in BOOLEAN :
        /\ answered => prep' = Prep!Returned(ok) /\ (ok => ~cancelled /\ prep.result = "ok")
                       /\ (~ok => cancelled)
        /\ ~answered => ~cancelled /\ prep' = [prep EXCEPT !.at = "recheck"]
                        /\ ~(prep.result = "ok" /\ prep.ids \subseteq prep.installed)
  <2>1. CASE cancelled BY <2>1 DEF Prep!ResultChecked, Prep!Goes
  <2>2. CASE ~cancelled /\ prep.result = "ok" /\ prep.ids \subseteq prep.installed
    BY <2>2 DEF Prep!ResultChecked, Prep!Goes
  <2>3. CASE ~cancelled /\ ~(prep.result = "ok" /\ prep.ids \subseteq prep.installed)
    BY <2>3 DEF Prep!ResultChecked, Prep!Goes
  <2>4. QED BY <1>1, <2>1, <2>2, <2>3
<1>4. /\ prep' \in Preparing /\ prep'.kind = prep.kind /\ prep'.tried = prep.tried
      /\ prep'.reported = prep.reported /\ prep'.outcome = "none"
      /\ ~answered => prep'.at = "recheck" /\ prep'.off = prep.off
      /\ answered /\ prep.kind = "repair" => prep'.at = "verify"
      /\ answered /\ prep.kind # "repair" /\ ok => prep'.at = "validate"
      /\ answered /\ prep.kind # "repair" /\ ~ok => prep'.at = "close" /\ ~prep'.ok
  <2>1. CASE answered BY <1>1, <1>3, <2>1, ReturnedDoes
  <2>2. CASE ~answered BY <1>1, <1>3, <2>2 DEF Preparing, Prep!Places
  <2>3. QED BY <2>1, <2>2
<1>5. /\ prep'.at \in {"recheck", "verify", "validate", "close"}
      /\ prep'.at = "close" => ~prep'.ok
      /\ prep'.at = "verify" => prep.kind = "repair"
      /\ prep'.at \in {"validate", "close"} => prep.kind # "repair"
  BY <1>1, <1>3, <1>4
<1>6. Prep!PlacesInv' /\ Prep!ReadyInv'
  BY <1>1, <1>4, <1>5, UnvalidatedKeeps DEF Prep!PlacesInv, Prep!At
<1>7. Prep!OursInv' BY <1>1, <1>2, <1>4, <1>5 DEF Prep!OursInv, Prep!At
<1>8. ASSUME prep.kind # "repair" PROVE Prep!OwedInv'
  <2>1. Prep!OwedInv BY <1>8 DEF Prep!PrepInv
  <2>2. ASSUME NEW m \in ours \ excused, Prep!Owed(m)' PROVE Prep!Known(m)'
    <3>1. Prep!Known(m)
      BY <1>1, <2>1, <2>2
      DEF Prep!OwedInv, Prep!Owed, Prep!Pending, Prep!Subscribed, Prep!HelperInstalled
    <3>2. /\ m \notin prep.installed
          /\ \/ prep.result = "failed" /\ m \in prep.off \cap prep.reported
             \/ /\ prep.result = "handoff" /\ m \in handoff
                /\ cancelled \/ m \in prep.off \cap prep.reported
      BY <1>1, <3>1 DEF Prep!Known, Prep!Reported, Prep!At
    <3>3. CASE cancelled
      <4>1. prep'.at = "close" /\ cancelled' BY <1>1, <1>3, <1>4, <1>8, <3>3
      <4>2. m \in handoff' BY <1>2, <3>2, <3>3
      <4>3. QED BY <4>1, <4>2 DEF Prep!Known, Prep!At
    <3>4. CASE ~cancelled
      <4>1. prep'.at = "recheck" /\ m \in prep'.off /\ m \in prep'.reported
        <5>1. ~(prep.result = "ok" /\ prep.ids \subseteq prep.installed) /\ ~answered
          BY <1>3, <3>2, <3>4
        <5>2. prep'.at = "recheck" /\ prep'.off = prep.off /\ prep'.reported = prep.reported
          BY <1>4, <5>1
        <5>3. QED BY <3>2, <3>4, <5>2
      <4>2. Prep!Reported(m)' BY <4>1 DEF Prep!Reported
      <4>3. QED BY <4>1, <4>2 DEF Prep!Known, Prep!At
    <3>5. QED BY <3>3, <3>4
  <2>3. QED BY <1>1, <1>5, <2>2 DEF Prep!OwedInv, Prep!At
<1>9. prep.at \in Prep!Early BY <1>1 DEF Prep!Early
<1>10. QED BY <1>1, <1>2, <1>4, <1>6, <1>7, <1>8, <1>9, StillKeeps DEF Prep!TypeOK

LEMMA RecheckKeeps == ASSUME Prep!PrepInv, Prep!Recheck PROVE Prep!PrepInv'
<1>1. /\ Prep!TypeOK /\ prep \in Preparing /\ Prep!PlacesInv /\ Prep!OursInv /\ prep.at = "recheck"
      /\ prep.kind \in {"prepare", "repair"} /\ prep.outcome = "none" /\ losses \in 0..MaxFaults
      /\ UNCHANGED <<item, asked, native, cancelled, session, handoff, ours, since, excused,
                     moves, losses>>
  BY PrepTypes
  DEF Prep!Recheck, Prep!At, Prep!Quiet, Prep!Same, Prep!history, Prep!TypeOK, Prep!PlacesInv
<1> DEFINE undo == {m \in Prep!CleanupCandidates(prep.off, prep.reported) : ~Prep!Installed(m)}
<1>2. undo \in SUBSET Mods /\ undo \subseteq ours
      /\ \A m \in prep.off \cap prep.reported : m \in undo \/ Prep!Installed(m)
  BY <1>1 DEF Prep!CleanupCandidates, Preparing, Prep!OursInv
<1>3. \/ undo = {} /\ prep' = Prep!Returned(FALSE)
      \/ undo # {} /\ prep' = [prep EXCEPT !.at = "undo", !.todo = undo]
  BY DEF Prep!Recheck, Prep!Goes
<1>4. ASSUME NEW m \in ours \ excused, prep.kind # "repair", Prep!Owed(m)' PROVE m \in undo
  <2>1. Prep!OwedInv /\ Prep!QuietInv /\ m \in Mods
    BY <1>1, <1>4 DEF Prep!PrepInv, Prep!TypeOK
  <2>2. Prep!Owed(m) /\ m \in prep.off \cap prep.reported
    BY <1>1, <1>4, <2>1
    DEF Prep!OwedInv, Prep!Known, Prep!Reported, Prep!At, Prep!Owed, Prep!Pending, Prep!Subscribed,
        Prep!HelperInstalled
  <2>3. ~Prep!Installed(m)
    BY <1>4, <2>1, <2>2 DEF Prep!Owed, Prep!QuietInv, Prep!Installed, Prep!HelperInstalled
  <2>4. QED BY <1>2, <2>2, <2>3
<1> HIDE DEF undo
<1>5. /\ prep' \in Preparing /\ prep'.kind = prep.kind /\ prep'.tried = prep.tried
      /\ prep'.reported = prep.reported /\ prep'.outcome = "none"
      /\ undo # {} => prep'.at = "undo" /\ prep'.todo = undo
      /\ undo = {} /\ prep.kind = "repair" => prep'.at = "verify"
      /\ undo = {} /\ prep.kind # "repair" => prep'.at = "close" /\ ~prep'.ok
  <2>1. CASE undo = {} BY <1>1, <1>3, <2>1, ReturnedDoes
  <2>2. CASE undo # {} BY ZenonT(60), <1>1, <1>2, <1>3, <2>2 DEF Preparing, Prep!Places
  <2>3. QED BY <2>1, <2>2
<1>6. Prep!PlacesInv' /\ Prep!ReadyInv'
  BY <1>1, <1>5, UnvalidatedKeeps DEF Prep!PlacesInv, Prep!At
<1>7. Prep!OursInv' BY <1>1, <1>2, <1>5 DEF Prep!OursInv, Prep!At
<1>8. ASSUME prep.kind # "repair" PROVE Prep!OwedInv'
  <2>1. \A m \in ours' \ excused' : Prep!Owed(m)' => Prep!Known(m)'
    BY <1>1, <1>4, <1>5, <1>8 DEF Prep!Known, Prep!At
  <2>2. QED BY <1>5, <1>8, <2>1 DEF Prep!OwedInv, Prep!At
<1>9. prep.at \in Prep!Early BY <1>1 DEF Prep!Early
<1>10. QED BY <1>1, <1>5, <1>6, <1>7, <1>8, <1>9, StillKeeps DEF Prep!TypeOK

LEMMA UndoEndsKeeps == ASSUME Prep!PrepInv, Prep!UndoEnds PROVE Prep!PrepInv'
<1>1. /\ Prep!TypeOK /\ prep \in Preparing /\ Prep!PlacesInv /\ prep.at = "undoing"
      /\ prep.kind \in {"prepare", "repair"} /\ prep.outcome = "none" /\ losses \in 0..MaxFaults
      /\ UNCHANGED <<item, asked, native, cancelled, session, handoff, ours, since, excused,
                     moves, losses>>
  BY PrepTypes
  DEF Prep!UndoEnds, Prep!At, Prep!Quiet, Prep!Same, Prep!history, Prep!TypeOK, Prep!PlacesInv
<1> DEFINE r == Prep!Returned(FALSE)
<1>2. prep' = [r EXCEPT !.todo = {}] BY DEF Prep!UndoEnds, Prep!Goes
<1>3. /\ r \in Preparing /\ r.kind = prep.kind /\ r.tried = prep.tried
      /\ r.reported = prep.reported /\ r.outcome = "none"
      /\ prep.kind = "repair" => r.at = "verify"
      /\ prep.kind # "repair" => r.at = "close" /\ ~r.ok
  BY <1>1, ReturnedDoes
<1> HIDE DEF r
<1>4. /\ prep' \in Preparing /\ prep'.kind = prep.kind /\ prep'.tried = prep.tried
      /\ prep'.reported = prep.reported /\ prep'.outcome = "none"
      /\ prep.kind = "repair" => prep'.at = "verify"
      /\ prep.kind # "repair" => prep'.at = "close" /\ ~prep'.ok
  BY <1>2, <1>3 DEF Preparing
<1>5. Prep!PlacesInv' /\ Prep!ReadyInv'
  BY <1>1, <1>4, UnvalidatedKeeps DEF Prep!PlacesInv, Prep!At
<1>6. prep.at \notin Burdened /\ prep'.at \in {"verify", "close"} BY <1>1, <1>4 DEF Burdened
<1>7. QED BY <1>1, <1>4, <1>5, <1>6, UnburdenedKeeps DEF Prep!TypeOK, Prep!Early

LEMMA ValidateKeeps == ASSUME Prep!PrepInv, Prep!Validate PROVE Prep!PrepInv'
<1>1. /\ Prep!TypeOK /\ prep \in Preparing /\ Prep!PlacesInv /\ prep.at = "validate"
      /\ prep.kind = "prepare" /\ prep.outcome = "none" /\ losses \in 0..MaxFaults
      /\ UNCHANGED <<item, asked, native, cancelled, session, handoff, ours, excused,
                     moves, losses>>
      /\ since' = {}
  BY PrepTypes DEF Prep!Validate, Prep!At, Prep!Same, Prep!TypeOK, Prep!PlacesInv
<1>2. prep.at \notin Burdened /\ prep.at \in Prep!Early BY <1>1 DEF Burdened, Prep!Early
<1> DEFINE unresolved == {m \in prep.required : Prep!Unresolved(m)}
<1>3. CASE unresolved = {}
  <2>1. prep' = [prep EXCEPT !.at = "folders"] BY <1>3 DEF Prep!Validate, Prep!Goes
  <2>2. /\ prep' \in Preparing /\ prep'.at = "folders" /\ prep'.kind = prep.kind
        /\ prep'.tried = prep.tried /\ prep'.reported = prep.reported /\ prep'.outcome = "none"
        /\ prep'.required = prep.required
    BY <1>1, <2>1 DEF Preparing, Prep!Places
  <2>3. \A m \in prep.required : Prep!ItemReady(m) BY <1>3 DEF Prep!Unresolved
  <2>4. Prep!ReadyInv' BY <1>1, <2>2, <2>3 DEF Prep!ReadyInv, Prep!Good, Prep!ItemReady
  <2>5. Prep!PlacesInv' BY <1>1, <2>2 DEF Prep!PlacesInv, Prep!At
  <2>6. QED BY <1>1, <1>2, <2>2, <2>4, <2>5, UnburdenedKeeps DEF Prep!TypeOK
<1>4. ASSUME prep' = Prep!Installing(unresolved, 2) \/ prep' = Prep!Ending(FALSE)
      PROVE  Prep!PrepInv'
  <2>1. unresolved \in SUBSET Mods BY <1>1 DEF Preparing
  <2>2. /\ prep' \in Preparing /\ prep'.kind = prep.kind
        /\ prep'.tried = prep.tried /\ prep'.reported = prep.reported /\ prep'.outcome = "none"
        /\ prep'.at = "preflight" \/ (prep'.at = "close" /\ ~prep'.ok)
    <3>1. CASE prep' = Prep!Ending(FALSE) BY <1>1, <3>1, EndingDoes
    <3>2. CASE prep' = Prep!Installing(unresolved, 2)
      <4> HIDE DEF unresolved
      <4>1. 2 \in 1..2 OBVIOUS
      <4>2. QED BY <1>1, <2>1, <3>2, <4>1, InstallingDoes
    <3>3. QED BY <1>4, <3>1, <3>2
  <2>3. Prep!PlacesInv' /\ Prep!ReadyInv'
    BY <1>1, <2>2, UnvalidatedKeeps DEF Prep!PlacesInv, Prep!At
  <2>4. QED BY <1>1, <1>2, <2>2, <2>3, UnburdenedKeeps DEF Prep!TypeOK
<1>5. QED BY <1>3, <1>4 DEF Prep!Validate, Prep!Goes

LEMMA FoldersKeeps == ASSUME Prep!PrepInv, Prep!Folders PROVE Prep!PrepInv'
<1>1. /\ Prep!TypeOK /\ prep \in Preparing /\ Prep!PlacesInv /\ Prep!ReadyInv /\ prep.at = "folders"
      /\ prep.kind \in {"prepare", "unmanaged"} /\ prep.outcome = "none" /\ losses \in 0..MaxFaults
      /\ UNCHANGED <<item, asked, native, cancelled, session, handoff, ours, excused,
                     moves, losses>>
      /\ since' = (IF prep.kind = "unmanaged" THEN {} ELSE since)
  BY PrepTypes DEF Prep!Folders, Prep!At, Prep!Same, Prep!TypeOK, Prep!PlacesInv
<1> DEFINE ok == \A m \in prep.required : Prep!Installed(m)
<1>2. prep' = Prep!Ending(ok) /\ ok \in BOOLEAN BY DEF Prep!Folders, Prep!Goes
<1>3. ok => \A m \in prep.required : Prep!Installed(m) OBVIOUS
<1> HIDE DEF ok
<1>4. /\ prep' \in Preparing /\ prep'.at = "close" /\ prep'.ok = ok /\ prep'.kind = prep.kind
      /\ prep'.tried = prep.tried /\ prep'.reported = prep.reported /\ prep'.outcome = "none"
      /\ prep'.required = prep.required
  BY <1>1, <1>2, EndingDoes
<1>5. Prep!PlacesInv' BY <1>1, <1>4 DEF Prep!PlacesInv, Prep!At
<1>6. Prep!ReadyInv'
  <2>1. CASE ~ok BY <1>4, <2>1, UnvalidatedKeeps
  <2>2. CASE ok /\ prep.kind = "unmanaged"
    BY <1>1, <1>3, <1>4, <2>2 DEF Prep!ReadyInv, Prep!Good, Prep!Installed
  <2>3. CASE ok /\ prep.kind = "prepare"
    BY <1>1, <1>4, <2>3 DEF Prep!ReadyInv, Prep!Validated, Prep!Good, Prep!ItemReady, Prep!At
  <2>4. QED BY <1>1, <1>2, <2>1, <2>2, <2>3
<1>7. since' \in SUBSET Mods BY <1>1 DEF Prep!TypeOK
<1>8. prep.at \notin Burdened /\ prep'.at \notin Prep!Early BY <1>1, <1>4 DEF Burdened, Prep!Early
<1>9. QED BY <1>1, <1>4, <1>5, <1>6, <1>7, <1>8, UnburdenedKeeps DEF Prep!TypeOK

LEMMA CloseKeeps == ASSUME Prep!PrepInv, Prep!Close PROVE Prep!PrepInv'
<1>1. /\ Prep!TypeOK /\ prep \in Preparing /\ Prep!PlacesInv /\ Prep!OursInv /\ Prep!ReadyInv
      /\ prep.at = "close" /\ prep.kind # "repair" /\ prep.outcome = "none"
      /\ losses \in 0..MaxFaults
      /\ UNCHANGED <<item, asked, native, cancelled, handoff, ours, since, excused, moves, losses>>
      /\ session' \in {"none", "open", "failed", "closed"}
  BY PrepTypes
  DEF Prep!Close, Prep!At, Prep!Same, Prep!history, Prep!TypeOK, Prep!PlacesInv
<1> DEFINE at == IF cancelled /\ handoff # {} THEN "cleanup" ELSE "finish"
<1>2. prep' = [prep EXCEPT !.at = at] BY DEF Prep!Close, Prep!Goes
<1>3. at \in {"cleanup", "finish"} /\ (cancelled /\ handoff # {} => at = "cleanup") OBVIOUS
<1> HIDE DEF at
<1>4. /\ prep' \in Preparing /\ prep'.at = at /\ prep'.ok = prep.ok /\ prep'.kind = prep.kind
      /\ prep'.tried = prep.tried /\ prep'.reported = prep.reported /\ prep'.outcome = "none"
      /\ prep'.required = prep.required
  BY <1>1, <1>2, <1>3 DEF Preparing, Prep!Places
<1>5. Prep!PlacesInv' /\ Prep!OursInv'
  BY <1>1, <1>3, <1>4 DEF Prep!PlacesInv, Prep!OursInv, Prep!At
<1>6. Prep!ReadyInv'
  BY <1>1, <1>3, <1>4
  DEF Prep!ReadyInv, Prep!Validated, Prep!Good, Prep!ItemReady, Prep!Installed, Prep!At
<1>7. Prep!OwedInv'
  <2>1. Prep!OwedInv BY <1>1 DEF Prep!PrepInv
  <2>2. ASSUME NEW m \in ours \ excused, Prep!Owed(m)' PROVE Prep!Known(m)'
    <3>1. cancelled /\ m \in handoff
      BY <1>1, <2>1, <2>2
      DEF Prep!OwedInv, Prep!Known, Prep!At, Prep!Owed, Prep!Pending, Prep!Subscribed,
          Prep!HelperInstalled
    <3>2. QED BY <1>1, <1>3, <1>4, <3>1 DEF Prep!Known, Prep!At
  <2>3. QED BY <1>1, <1>3, <1>4, <2>2 DEF Prep!OwedInv, Prep!At
<1>8. prep'.at \notin Prep!Early BY <1>3, <1>4 DEF Prep!Early
<1>9. QED BY <1>1, <1>4, <1>5, <1>6, <1>7, <1>8, StillKeeps DEF Prep!TypeOK

(* Once everything is excused nothing is owed. *)
LEMMA ExcusedKeeps ==
  ASSUME Prep!PrepInv, prep' \in Preparing,
         UNCHANGED <<item, asked, native, cancelled, handoff, ours, since, moves>>,
         session' \in {"none", "open", "failed", "closed"}, excused' = Mods, Prep!Loss,
         prep'.kind = prep.kind, prep'.at \notin Prep!Early,
         prep'.tried = prep.tried, prep'.reported = prep.reported,
         Prep!PlacesInv', Prep!ReadyInv'
  PROVE  Prep!PrepInv'
<1>1. Prep!TypeOK /\ Prep!OursInv /\ losses' \in 0..MaxFaults BY PrepTypes, LossCounts
<1>2. Prep!OursInv' BY <1>1 DEF Prep!OursInv, Prep!At, Prep!Early
<1>3. Prep!OwedInv' BY <1>1 DEF Prep!OwedInv, Prep!At, Prep!Early, Prep!TypeOK
<1>4. QED BY <1>1, <1>2, <1>3, StillKeeps DEF Prep!TypeOK

LEMMA CloseFailsKeeps == ASSUME Prep!PrepInv, Prep!CloseFails PROVE Prep!PrepInv'
<1>1. /\ Prep!TypeOK /\ prep \in Preparing /\ Prep!PlacesInv /\ Prep!ReadyInv
      /\ prep.at = "close" /\ prep.kind # "repair" /\ prep.outcome = "none"
      /\ UNCHANGED <<item, asked, native, cancelled, handoff, ours, since, moves>>
      /\ session' \in {"none", "open", "failed", "closed"} /\ excused' = Mods /\ Prep!Loss
  BY PrepTypes
  DEF Prep!CloseFails, Prep!At, Prep!Same, Prep!TypeOK, Prep!PlacesInv
<1>2. /\ prep' \in Preparing /\ prep'.ok = prep.ok /\ prep'.kind = prep.kind
      /\ prep'.tried = prep.tried /\ prep'.reported = prep.reported
      /\ prep'.required = prep.required
      /\ \/ prep'.at = "finish" /\ prep'.outcome = "none"
         \/ prep'.at = "done" /\ prep'.outcome = "raised"
  <2>1. CASE prep' = [prep EXCEPT !.at = "finish"]
    BY <1>1, <2>1 DEF Preparing, Prep!Places
  <2>2. CASE prep' = [prep EXCEPT !.at = "done", !.outcome = "raised"]
    BY <1>1, <2>2 DEF Preparing, Prep!Places, Prep!Outcomes
  <2>3. QED BY <2>1, <2>2 DEF Prep!CloseFails, Prep!Goes
<1>3. Prep!PlacesInv' BY <1>1, <1>2 DEF Prep!PlacesInv, Prep!At
<1>4. Prep!ReadyInv'
  BY <1>1, <1>2
  DEF Prep!ReadyInv, Prep!Validated, Prep!Good, Prep!ItemReady, Prep!Installed, Prep!At
<1>5. prep'.at \notin Prep!Early BY <1>2 DEF Prep!Early
<1>6. QED BY <1>1, <1>2, <1>3, <1>4, <1>5, ExcusedKeeps

LEMMA SessionDiesKeeps == ASSUME Prep!PrepInv, Prep!SessionDies PROVE Prep!PrepInv'
<1>1. /\ Prep!TypeOK /\ prep \in Preparing /\ Prep!PlacesInv /\ session = "open"
      /\ prep.at \notin {"idle", "done", "folders"}
      /\ prep.at \in {"preflight", "refresh", "refreshing", "state", "asking", "asked",
                  "waiting", "recheck", "undo", "undoing", "validate"}
      /\ UNCHANGED <<item, asked, native, cancelled, handoff, ours, since, moves>>
      /\ session' = "failed" /\ excused' = Mods /\ Prep!Loss /\ prep' = Prep!Ending(FALSE)
  BY PrepTypes DEF Prep!SessionDies, Prep!Same, Prep!Goes
<1>2. prep.kind = "prepare" /\ prep.outcome = "none"
  BY <1>1, PrepTypes DEF Prep!PlacesInv
<1>3. /\ prep' \in Preparing /\ prep'.at = "close" /\ ~prep'.ok /\ prep'.kind = prep.kind
      /\ prep'.tried = prep.tried /\ prep'.reported = prep.reported /\ prep'.outcome = "none"
  BY <1>1, <1>2, EndingDoes
<1>4. Prep!PlacesInv' /\ Prep!ReadyInv' BY <1>2, <1>3, UnvalidatedKeeps DEF Prep!PlacesInv, Prep!At
<1>5. prep'.at \notin Prep!Early BY <1>3 DEF Prep!Early
<1>6. QED BY <1>1, <1>3, <1>4, <1>5, ExcusedKeeps

(* A repair gives up. *)
LEMMA RepairStops ==
  ASSUME Prep!PrepInv, prep.kind = "repair",
         prep' = [prep EXCEPT !.at = "done", !.outcome = "failed"],
         losses' \in 0..MaxFaults, excused' \in {excused, Mods},
         UNCHANGED <<item, asked, native, cancelled, session, handoff, ours, since, moves>>
  PROVE  Prep!PrepInv'
<1>1. Prep!TypeOK /\ prep \in Preparing /\ Prep!PlacesInv BY PrepTypes
<1>2. /\ prep' \in Preparing /\ prep'.at = "done" /\ prep'.kind = prep.kind
      /\ prep'.tried = prep.tried /\ prep'.reported = prep.reported /\ prep'.outcome = "failed"
  BY <1>1 DEF Preparing, Prep!Places, Prep!Outcomes
<1>3. Prep!PlacesInv' BY <1>1, <1>2 DEF Prep!PlacesInv, Prep!At
<1>4. Prep!ReadyInv' BY <1>2 DEF Prep!ReadyInv, Prep!Validated, Prep!At
<1>5. prep'.at \notin Prep!Early BY <1>2 DEF Prep!Early
<1>6. QED BY <1>1, <1>2, <1>3, <1>4, <1>5, UnburdenedKeeps DEF Prep!TypeOK

LEMMA HelperFailsKeeps == ASSUME Prep!PrepInv, Prep!HelperFails PROVE Prep!PrepInv'
<1>1. /\ prep.kind = "repair" /\ losses' \in 0..MaxFaults /\ excused' = Mods
      /\ UNCHANGED <<item, asked, native, cancelled, session, handoff, ours, since, moves>>
  BY LossCounts DEF Prep!HelperFails, Prep!Same
<1>2. CASE prep.at \in {"state", "undo", "undoing"} /\ prep' = Prep!Returned(FALSE)
  BY <1>1, <1>2, RepairReturns
<1>3. CASE prep.at \in {"asking", "asked", "waiting"} /\ prep' = Prep!Ended("failed")
  BY <1>1, <1>3, CommandKeeps
<1>4. CASE prep' = [prep EXCEPT !.at = "done", !.outcome = "failed"]
  BY <1>1, <1>4, RepairStops
<1>5. QED BY <1>2, <1>3, <1>4 DEF Prep!HelperFails, Prep!Goes, Prep!At

LEMMA RepairRemovedKeeps ==
  ASSUME Prep!PrepInv, Prep!RepairRemoved \/ Prep!RepairGivesUp PROVE Prep!PrepInv'
<1>1. /\ Prep!TypeOK /\ prep \in Preparing /\ Prep!PlacesInv /\ prep.at = "removal"
      /\ prep.kind = "repair" /\ prep.outcome = "none" /\ losses \in 0..MaxFaults
      /\ UNCHANGED <<item, asked, native, cancelled, session, handoff, ours, since, excused,
                     moves, losses>>
  BY PrepTypes
  DEF Prep!RepairRemoved, Prep!RepairGivesUp, Prep!At, Prep!Quiet, Prep!Same, Prep!history,
      Prep!TypeOK, Prep!PlacesInv
<1>2. CASE prep' = [prep EXCEPT !.at = "done", !.outcome = "failed"]
  BY <1>1, <1>2, RepairStops
<1>3. CASE prep' = Prep!Installing(prep.required, 1)
  <2>1. prep.required \in SUBSET Mods /\ 1 \in 1..2 BY <1>1 DEF Preparing
  <2>2. /\ prep' \in Preparing /\ prep'.at = "preflight" /\ prep'.kind = prep.kind
        /\ prep'.tried = prep.tried /\ prep'.reported = prep.reported /\ prep'.outcome = "none"
        /\ prep'.round = 1
    BY <1>1, <1>3, <2>1, InstallingDoes
  <2>3. Prep!PlacesInv' /\ Prep!ReadyInv'
    BY <1>1, <2>2, UnvalidatedKeeps DEF Prep!PlacesInv, Prep!At
  <2>4. QED BY <1>1, <2>2, <2>3, UnburdenedKeeps DEF Prep!TypeOK
<1>4. QED BY <1>2, <1>3 DEF Prep!RepairRemoved, Prep!RepairGivesUp, Prep!Goes

LEMMA RepairVerifiesKeeps == ASSUME Prep!PrepInv, Prep!RepairVerifies PROVE Prep!PrepInv'
<1>1. /\ Prep!TypeOK /\ prep \in Preparing /\ Prep!PlacesInv /\ prep.at = "verify"
      /\ prep.kind = "repair" /\ losses \in 0..MaxFaults /\ since' = {}
      /\ UNCHANGED <<item, asked, native, cancelled, session, handoff, ours, excused,
                     moves, losses>>
  BY PrepTypes
  DEF Prep!RepairVerifies, Prep!At, Prep!Same, Prep!TypeOK, Prep!PlacesInv
<1> DEFINE good == prep.ok /\ \A m \in prep.required : Prep!Subscribed(m) /\ Prep!ItemReady(m)
           answer == IF good THEN "ready" ELSE "failed"
<1>2. prep' = [prep EXCEPT !.at = "done", !.outcome = answer]
  BY DEF Prep!RepairVerifies, Prep!Goes
<1>3. answer \in {"ready", "failed"}
      /\ (answer = "ready" => \A m \in prep.required : Prep!ItemReady(m))
  OBVIOUS
<1> HIDE DEF answer
<1>4. /\ prep' \in Preparing /\ prep'.at = "done" /\ prep'.kind = prep.kind
      /\ prep'.tried = prep.tried /\ prep'.reported = prep.reported /\ prep'.outcome = answer
      /\ prep'.required = prep.required
  BY <1>1, <1>2, <1>3 DEF Preparing, Prep!Places, Prep!Outcomes
<1>5. Prep!PlacesInv' BY <1>1, <1>3, <1>4 DEF Prep!PlacesInv, Prep!At
<1>6. Prep!ReadyInv'
  BY <1>1, <1>3, <1>4 DEF Prep!ReadyInv, Prep!Validated, Prep!Good, Prep!ItemReady, Prep!At
<1>7. prep'.at \notin Prep!Early BY <1>4 DEF Prep!Early
<1>8. QED BY <1>1, <1>4, <1>5, <1>6, <1>7, UnburdenedKeeps DEF Prep!TypeOK

LEMMA FinishKeeps ==
  ASSUME Prep!PrepInv, Prep!Finish \/ Prep!CancelCleanupEnds PROVE Prep!PrepInv'
<1>1. /\ Prep!TypeOK /\ prep \in Preparing /\ Prep!PlacesInv /\ Prep!ReadyInv
      /\ prep.at \in {"finish", "cleaning"} /\ prep.kind # "repair" /\ prep.outcome = "none"
      /\ losses \in 0..MaxFaults
      /\ UNCHANGED <<item, asked, native, cancelled, session, handoff, ours, since, excused,
                     moves, losses>>
  BY PrepTypes
  DEF Prep!Finish, Prep!CancelCleanupEnds, Prep!At, Prep!Quiet, Prep!Same, Prep!history,
      Prep!TypeOK, Prep!PlacesInv
<1> DEFINE answer == IF prep.ok THEN "ready" ELSE IF cancelled THEN "cancelled" ELSE "failed"
<1>2. answer \in {"ready", "cancelled", "failed"} /\ (answer = "ready" => prep.ok) OBVIOUS
<1>3. \/ prep.at = "finish" /\ prep' = [prep EXCEPT !.at = "done", !.outcome = answer]
      \/ prep.at = "cleaning" /\ prep' = [prep EXCEPT !.at = "finish"]
  BY DEF Prep!Finish, Prep!CancelCleanupEnds, Prep!Goes, Prep!At
<1> HIDE DEF answer
<1>4. /\ prep' \in Preparing /\ prep'.kind = prep.kind /\ prep'.ok = prep.ok
      /\ prep'.tried = prep.tried /\ prep'.reported = prep.reported
      /\ prep'.required = prep.required
      /\ \/ prep'.at = "done" /\ prep'.outcome = answer
         \/ prep'.at = "finish" /\ prep'.outcome = "none"
  <2>1. CASE prep' = [prep EXCEPT !.at = "done", !.outcome = answer]
    BY <1>1, <1>2, <2>1 DEF Preparing, Prep!Places, Prep!Outcomes
  <2>2. CASE prep' = [prep EXCEPT !.at = "finish"] BY <1>1, <2>2 DEF Preparing, Prep!Places
  <2>3. QED BY <1>3, <2>1, <2>2
<1>5. Prep!PlacesInv' BY <1>1, <1>2, <1>4 DEF Prep!PlacesInv, Prep!At
<1>6. Prep!ReadyInv'
  BY <1>1, <1>2, <1>4
  DEF Prep!ReadyInv, Prep!Validated, Prep!Good, Prep!ItemReady, Prep!Installed, Prep!At
<1>7. prep'.at \in {"done", "finish"} /\ prep.at \notin Burdened BY <1>1, <1>4 DEF Burdened
<1>8. QED BY <1>1, <1>4, <1>5, <1>6, <1>7, UnburdenedKeeps DEF Prep!TypeOK, Prep!Early

LEMMA CancelKeeps == ASSUME Prep!PrepInv, Prep!Cancel PROVE Prep!PrepInv'
<1>1. /\ Prep!TypeOK /\ prep \in Preparing /\ prep' = prep /\ cancelled' = TRUE
      /\ Prep!PlacesInv /\ Prep!OursInv /\ Prep!ReadyInv /\ losses \in 0..MaxFaults
      /\ UNCHANGED <<item, asked, native, session, handoff, ours, since, excused, moves, losses>>
  BY PrepTypes DEF Prep!Cancel, Prep!outside, Prep!history, Prep!spent, Prep!TypeOK
<1>2. Prep!PlacesInv' /\ Prep!OursInv' BY <1>1 DEF Prep!PlacesInv, Prep!OursInv, Prep!At
<1>3. Prep!ReadyInv'
  BY <1>1 DEF Prep!ReadyInv, Prep!Validated, Prep!Good, Prep!ItemReady, Prep!Installed, Prep!At
<1>4. ASSUME prep.kind # "repair" PROVE Prep!OwedInv'
  <2>1. Prep!OwedInv BY <1>4 DEF Prep!PrepInv
  <2>2. \A m \in Mods : Prep!Owed(m)' = Prep!Owed(m) /\ Prep!Subscribed(m)' = Prep!Subscribed(m)
    BY <1>1 DEF Prep!Owed, Prep!Pending, Prep!Subscribed, Prep!HelperInstalled
  <2>3. \A m \in Mods : Prep!Known(m) => Prep!Known(m)'
    BY <1>1 DEF Prep!Known, Prep!Reported, Prep!At
  <2>4. prep.ids \subseteq Mods /\ ours \subseteq Mods BY <1>1 DEF Preparing, Prep!TypeOK
  <2>5. QED BY <1>1, <2>1, <2>2, <2>3, <2>4 DEF Prep!OwedInv, Prep!At
<1>5. QED BY <1>1, <1>2, <1>3, <1>4, StillKeeps DEF Prep!TypeOK

(* A step of the operation that asks Steam for something. *)
LEMMA AskingKeeps ==
  ASSUME Prep!PrepInv, prep' \in Preparing,
         UNCHANGED <<item, native, cancelled, session, handoff, since, moves>>,
         asked' \in [Mods -> {"nothing", "subscribe", "unsubscribe"}],
         ours' \in SUBSET Mods, excused' \in SUBSET Mods, excused \subseteq excused',
         losses' \in 0..MaxFaults, prep'.kind = prep.kind,
         Prep!PlacesInv', Prep!OursInv', Prep!ReadyInv',
         prep'.kind # "repair" =>
           /\ Prep!OwedInv'
           /\ prep'.at \in Prep!Early =>
                prep.at \in Prep!Early /\ \A m \in Mods : asked'[m] # "unsubscribe"
           /\ \A m \in Mods \ excused' :
                Prep!Pending(m)' => Prep!Pending(m) \/ prep.at \in Prep!Early
  PROVE  Prep!PrepInv'
<1>1. Prep!TypeOK' BY DEF Prep!PrepInv, Prep!TypeOK, Preparing
<1>2. ASSUME prep'.kind # "repair" PROVE Prep!QuietInv'
  <2>1. Prep!QuietInv BY <1>2 DEF Prep!PrepInv
  <2>2. \A m \in Mods : Prep!Subscribed(m)' = Prep!Subscribed(m)
    BY DEF Prep!Subscribed
  <2>3. \A m \in Mods : Prep!Pending(m)' => ~Prep!Subscribed(m) BY <2>2 DEF Prep!Pending
  <2>4. QED BY <1>2, <2>1, <2>2, <2>3 DEF Prep!QuietInv
<1>3. QED BY <1>1, <1>2 DEF Prep!PrepInv

LEMMA RefreshAsksKeeps == ASSUME Prep!PrepInv, Prep!RefreshAsks PROVE Prep!PrepInv'
<1>1. /\ Prep!TypeOK /\ prep \in Preparing /\ Prep!PlacesInv /\ Prep!OursInv /\ prep.at = "refresh"
      /\ prep.kind = "prepare" /\ prep.outcome = "none" /\ losses \in 0..MaxFaults
      /\ UNCHANGED <<item, native, cancelled, session, handoff, ours, since, excused,
                     moves, losses>>
      /\ prep' = [prep EXCEPT !.at = "refreshing"]
  BY PrepTypes
  DEF Prep!RefreshAsks, Prep!At, Prep!Same, Prep!history, Prep!TypeOK, Prep!PlacesInv, Prep!Goes
<1>2. /\ asked' \in [Mods -> {"nothing", "subscribe", "unsubscribe"}]
      /\ \A m \in Mods : \/ asked'[m] = asked[m]
                         \/ asked'[m] = "subscribe" /\ Prep!Subscribed(m)
  BY <1>1 DEF Prep!RefreshAsks, Prep!TypeOK
<1>3. /\ prep' \in Preparing /\ prep'.at = "refreshing" /\ prep'.kind = prep.kind
      /\ prep'.tried = prep.tried /\ prep'.reported = prep.reported /\ prep'.outcome = "none"
  BY <1>1 DEF Preparing, Prep!Places
<1>4. Prep!PlacesInv' /\ Prep!ReadyInv' /\ Prep!OursInv'
  BY <1>1, <1>3, UnvalidatedKeeps DEF Prep!PlacesInv, Prep!OursInv, Prep!At
<1>5. Prep!OwedInv /\ Prep!QuietInv BY <1>1 DEF Prep!PrepInv
<1>6. prep.at \in Prep!Early /\ \A m \in Mods : asked[m] # "unsubscribe"
  BY <1>1, <1>5 DEF Prep!QuietInv, Prep!Early
<1>7. \A m \in Mods : Prep!Owed(m)' => Prep!Owed(m)
  BY <1>1, <1>2, <1>6 DEF Prep!Owed, Prep!Pending, Prep!Subscribed, Prep!HelperInstalled
<1>8. Prep!OwedInv'
  <2>1. \A m \in ours \ excused : ~Prep!Owed(m)
    BY <1>1, <1>5 DEF Prep!OwedInv, Prep!Known, Prep!At
  <2>2. \A m \in ours' \ excused' : ~Prep!Owed(m)' BY <1>1, <1>7, <2>1 DEF Prep!TypeOK
  <2>3. QED BY <1>3, <2>2 DEF Prep!OwedInv, Prep!At
<1>9. \A m \in Mods : asked'[m] # "unsubscribe" BY <1>2, <1>6
<1>10. QED BY <1>1, <1>2, <1>3, <1>4, <1>6, <1>8, <1>9, AskingKeeps DEF Prep!TypeOK

LEMMA AskSubscribeKeeps ==
  ASSUME Prep!PrepInv, NEW m \in Mods, Prep!AskSubscribe(m) PROVE Prep!PrepInv'
<1>1. /\ Prep!TypeOK /\ prep \in Preparing /\ Prep!PlacesInv /\ Prep!OursInv /\ prep.at = "asking"
      /\ prep.kind \in {"prepare", "repair"} /\ prep.outcome = "none" /\ losses \in 0..MaxFaults
      /\ UNCHANGED <<item, native, cancelled, session, handoff, since, excused, moves, losses>>
      /\ m \in prep.todo
  BY PrepTypes
  DEF Prep!AskSubscribe, Prep!At, Prep!Same, Prep!TypeOK, Prep!PlacesInv
<1> DEFINE left == prep.todo \ {m}
           tried == IF Prep!Subscribed(m) THEN prep.tried ELSE prep.tried \cup {m}
<1>2. /\ prep' = [prep EXCEPT !.at = "asked", !.todo = left, !.tried = tried]
      /\ asked' = IF Prep!Subscribed(m) THEN asked ELSE [asked EXCEPT ![m] = "subscribe"]
      /\ ours' = IF Prep!Subscribed(m) THEN ours ELSE ours \cup {m}
  BY DEF Prep!AskSubscribe, Prep!Goes
<1>3. left \in SUBSET Mods /\ tried \in SUBSET Mods /\ left \subseteq prep.todo
      /\ prep.tried \subseteq tried /\ tried \subseteq prep.tried \cup {m}
      /\ (Prep!Subscribed(m) => tried = prep.tried) /\ (~Prep!Subscribed(m) => m \in tried)
  BY <1>1 DEF Preparing
<1> HIDE DEF left, tried
<1>4. /\ prep' \in Preparing /\ prep'.at = "asked" /\ prep'.kind = prep.kind
      /\ prep'.todo = left /\ prep'.tried = tried /\ prep'.reported = prep.reported
      /\ prep'.off = prep.off /\ prep'.ids = prep.ids /\ prep'.outcome = "none"
  BY <1>1, <1>2, <1>3 DEF Preparing, Prep!Places
<1>5. /\ asked' \in [Mods -> {"nothing", "subscribe", "unsubscribe"}]
      /\ ours' \in SUBSET Mods /\ ours \subseteq ours' /\ ours' \subseteq ours \cup {m}
      /\ ~Prep!Subscribed(m) => m \in ours' /\ asked'[m] = "subscribe"
      /\ Prep!Subscribed(m) => ours' = ours
      /\ \A k \in Mods : \/ asked'[k] = asked[k]
                         \/ k = m /\ ~Prep!Subscribed(m) /\ asked'[k] = "subscribe"
  BY <1>1, <1>2 DEF Prep!TypeOK
<1>6. Prep!PlacesInv' /\ Prep!ReadyInv'
  BY <1>1, <1>4, UnvalidatedKeeps DEF Prep!PlacesInv, Prep!At
<1>7. Prep!OursInv' BY <1>1, <1>3, <1>4, <1>5 DEF Prep!OursInv, Prep!At
<1>8. ASSUME prep.kind # "repair"
      PROVE  /\ Prep!OwedInv'
             /\ \A k \in Mods : asked'[k] # "unsubscribe"
  <2>1. Prep!OwedInv /\ Prep!QuietInv BY <1>8 DEF Prep!PrepInv
  <2>2. \A k \in Mods : asked[k] # "unsubscribe"
    BY <1>1, <2>1 DEF Prep!QuietInv, Prep!Early
  <2>3. \A k \in Mods : Prep!Subscribed(k)' = Prep!Subscribed(k) BY <1>1 DEF Prep!Subscribed
  <2>4. /\ prep.todo \subseteq prep.ids /\ prep.off \subseteq prep.ids /\ prep.ids \subseteq Mods
        /\ \A k \in prep.ids \ (prep.off \cup excused) : Prep!Subscribed(k)
    BY <1>1, <2>1 DEF Prep!OwedInv, Preparing
  <2>5. ASSUME NEW k \in ours' \ excused', Prep!Owed(k)' PROVE Prep!Known(k)'
    <3>1. CASE k = m /\ ~Prep!Subscribed(m)
      <4>1. k \in prep'.off /\ k \in prep'.tried BY <1>1, <1>3, <1>4, <2>4, <3>1
      <4>2. QED BY <1>4, <4>1 DEF Prep!Known
    <3>2. CASE ~(k = m /\ ~Prep!Subscribed(m))
      <4>1. k \in Mods /\ k \in ours \ excused /\ asked'[k] = asked[k] BY <1>1, <1>5, <3>2
      <4>2. Prep!Owed(k)
        BY <1>1, <2>5, <4>1 DEF Prep!Owed, Prep!Pending, Prep!Subscribed, Prep!HelperInstalled
      <4>3. k \in prep.off /\ k \in prep.tried
        BY <1>1, <2>1, <4>1, <4>2 DEF Prep!OwedInv, Prep!Known, Prep!At
      <4>4. k \in prep'.off /\ k \in prep'.tried BY <1>3, <1>4, <4>3
      <4>5. QED BY <1>4, <4>4 DEF Prep!Known
    <3>3. QED BY <3>1, <3>2
  <2>6. prep'.todo \subseteq prep'.ids BY <1>3, <1>4, <2>4
  <2>7. Prep!OwedInv'
    BY <1>1, <1>4, <2>3, <2>4, <2>5, <2>6 DEF Prep!OwedInv, Prep!At
  <2>8. QED BY <1>5, <2>2, <2>7
<1>9. prep.at \in Prep!Early BY <1>1 DEF Prep!Early
<1>10. QED BY <1>1, <1>4, <1>5, <1>6, <1>7, <1>8, <1>9, AskingKeeps DEF Prep!TypeOK

(* Unsubscribing from some items: what is still pending is excused. *)
LEMMA UnsubscribingDoes ==
  ASSUME Prep!TypeOK, NEW ids \in SUBSET Mods, Prep!Unsubscribing(ids), UNCHANGED item
  PROVE  /\ asked' \in [Mods -> {"nothing", "subscribe", "unsubscribe"}]
         /\ excused' \in SUBSET Mods /\ excused \subseteq excused'
         /\ \A k \in Mods : Prep!Pending(k)' => Prep!Pending(k)
         /\ \A k \in Mods \ excused' : Prep!Owed(k)' => Prep!Owed(k) /\ k \notin ids
<1>1. /\ asked' = [m \in Mods |-> IF m \in ids /\ Prep!Subscribed(m)
                                    THEN "unsubscribe" ELSE asked[m]]
      /\ excused' = excused \cup {m \in ids : ~Prep!Subscribed(m)}
  BY DEF Prep!Unsubscribing
<1>2. asked' \in [Mods -> {"nothing", "subscribe", "unsubscribe"}] BY <1>1 DEF Prep!TypeOK
<1>3. excused' \in SUBSET Mods /\ excused \subseteq excused' BY <1>1 DEF Prep!TypeOK
<1>4. \A k \in Mods : \/ asked'[k] = asked[k] /\ ~(k \in ids /\ Prep!Subscribed(k))
                      \/ asked'[k] = "unsubscribe" /\ k \in ids /\ Prep!Subscribed(k)
  BY <1>1
<1>5. \A k \in Mods : Prep!Pending(k)' => Prep!Pending(k)
  BY <1>4 DEF Prep!Pending, Prep!Subscribed
<1>6. \A k \in Mods \ excused' : k \in ids => Prep!Subscribed(k) BY <1>1
<1>7. \A k \in Mods \ excused' : Prep!Owed(k)' => Prep!Owed(k) /\ k \notin ids
  BY <1>4, <1>6 DEF Prep!Owed, Prep!Pending, Prep!Subscribed, Prep!HelperInstalled
<1>8. QED BY <1>2, <1>3, <1>5, <1>7

LEMMA UndoKeeps == ASSUME Prep!PrepInv, Prep!Undo PROVE Prep!PrepInv'
<1>1. /\ Prep!TypeOK /\ prep \in Preparing /\ Prep!PlacesInv /\ Prep!OursInv /\ prep.at = "undo"
      /\ prep.kind \in {"prepare", "repair"} /\ prep.outcome = "none" /\ losses \in 0..MaxFaults
      /\ UNCHANGED <<item, native, cancelled, session, handoff, ours, since, moves, losses>>
      /\ prep' = [prep EXCEPT !.at = "undoing"] /\ prep.todo \in SUBSET Mods
      /\ Prep!Unsubscribing(prep.todo)
  BY PrepTypes
  DEF Prep!Undo, Prep!At, Prep!Same, Prep!TypeOK, Prep!PlacesInv, Prep!Goes, Preparing
<1>2. /\ asked' \in [Mods -> {"nothing", "subscribe", "unsubscribe"}]
      /\ excused' \in SUBSET Mods /\ excused \subseteq excused'
      /\ \A k \in Mods : Prep!Pending(k)' => Prep!Pending(k)
      /\ \A k \in Mods \ excused' : Prep!Owed(k)' => Prep!Owed(k) /\ k \notin prep.todo
  BY <1>1, UnsubscribingDoes
<1>3. /\ prep' \in Preparing /\ prep'.at = "undoing" /\ prep'.kind = prep.kind
      /\ prep'.tried = prep.tried /\ prep'.reported = prep.reported /\ prep'.outcome = "none"
  BY <1>1 DEF Preparing, Prep!Places
<1>4. Prep!PlacesInv' /\ Prep!ReadyInv' /\ Prep!OursInv'
  BY <1>1, <1>3, UnvalidatedKeeps DEF Prep!PlacesInv, Prep!OursInv, Prep!At
<1>5. ASSUME prep.kind # "repair" PROVE Prep!OwedInv'
  <2>1. Prep!OwedInv BY <1>5 DEF Prep!PrepInv
  <2>2. \A m \in ours \ excused : Prep!Owed(m) => m \in prep.todo
    BY <1>1, <2>1 DEF Prep!OwedInv, Prep!Known, Prep!At
  <2>3. \A m \in ours' \ excused' : ~Prep!Owed(m)' BY <1>1, <1>2, <2>2 DEF Prep!TypeOK
  <2>4. QED BY <1>3, <2>3 DEF Prep!OwedInv, Prep!At
<1>6. prep'.at \notin Prep!Early BY <1>3 DEF Prep!Early
<1>7. \A m \in Mods \ excused' : Prep!Pending(m)' => Prep!Pending(m) BY <1>2
<1>8. QED BY <1>1, <1>2, <1>3, <1>4, <1>5, <1>6, <1>7, AskingKeeps DEF Prep!TypeOK

LEMMA CancelCleanupKeeps == ASSUME Prep!PrepInv, Prep!CancelCleanup PROVE Prep!PrepInv'
<1>1. /\ Prep!TypeOK /\ prep \in Preparing /\ Prep!PlacesInv /\ Prep!OursInv /\ Prep!ReadyInv
      /\ prep.at = "cleanup" /\ prep.kind # "repair" /\ prep.outcome = "none"
      /\ losses \in 0..MaxFaults
      /\ UNCHANGED <<item, native, cancelled, session, handoff, ours, since, moves, losses>>
  BY PrepTypes
  DEF Prep!CancelCleanup, Prep!At, Prep!Same, Prep!TypeOK, Prep!PlacesInv
<1> DEFINE ids == {m \in handoff : ~Prep!HelperInstalled(m)}
<1>2. \/ /\ native /\ Prep!Unsubscribing(ids) /\ prep' = [prep EXCEPT !.at = "cleaning"]
      \/ /\ ~native /\ excused' = Mods /\ asked' = asked /\ prep' = [prep EXCEPT !.at = "finish"]
  BY DEF Prep!CancelCleanup, Prep!Goes
<1>3. ids \in SUBSET Mods /\ \A m \in handoff : m \in ids \/ Prep!HelperInstalled(m)
  BY <1>1 DEF Prep!TypeOK
<1> HIDE DEF ids
<1>4. /\ prep' \in Preparing /\ prep'.at \in {"cleaning", "finish"} /\ prep'.kind = prep.kind
      /\ prep'.tried = prep.tried /\ prep'.reported = prep.reported /\ prep'.outcome = "none"
      /\ prep'.ok = prep.ok /\ prep'.required = prep.required
  <2>1. CASE prep' = [prep EXCEPT !.at = "cleaning"] BY <1>1, <2>1 DEF Preparing, Prep!Places
  <2>2. CASE prep' = [prep EXCEPT !.at = "finish"] BY <1>1, <2>2 DEF Preparing, Prep!Places
  <2>3. QED BY <1>2, <2>1, <2>2
<1>5. Prep!PlacesInv' /\ Prep!OursInv'
  BY <1>1, <1>4 DEF Prep!PlacesInv, Prep!OursInv, Prep!At
<1>6. Prep!ReadyInv'
  BY <1>1, <1>4
  DEF Prep!ReadyInv, Prep!Validated, Prep!Good, Prep!ItemReady, Prep!Installed, Prep!At
<1>7. prep'.at \notin Prep!Early BY <1>4 DEF Prep!Early
<1>8. /\ asked' \in [Mods -> {"nothing", "subscribe", "unsubscribe"}]
      /\ excused' \in SUBSET Mods /\ excused \subseteq excused'
      /\ \A m \in Mods \ excused' : Prep!Pending(m)' => Prep!Pending(m)
      /\ \A m \in Mods \ excused' : Prep!Owed(m)' => Prep!Owed(m) /\ m \notin ids
  <2>1. CASE native BY <1>1, <1>2, <1>3, <2>1, UnsubscribingDoes
  <2>2. CASE ~native BY <1>1, <1>2, <2>2 DEF Prep!TypeOK
  <2>3. QED BY <2>1, <2>2
<1>9. Prep!OwedInv'
  <2>1. Prep!OwedInv /\ Prep!QuietInv BY <1>1 DEF Prep!PrepInv
  <2>2. \A m \in ours \ excused : Prep!Owed(m) => m \in handoff
    BY <1>1, <2>1 DEF Prep!OwedInv, Prep!Known, Prep!At
  <2>3. \A m \in Mods \ excused : Prep!Owed(m) => ~Prep!HelperInstalled(m)
    BY <2>1 DEF Prep!QuietInv, Prep!Owed, Prep!HelperInstalled
  <2>4. \A m \in ours' \ excused' : ~Prep!Owed(m)'
    BY <1>1, <1>3, <1>8, <2>2, <2>3 DEF Prep!TypeOK
  <2>5. QED BY <1>4, <2>4 DEF Prep!OwedInv, Prep!At
<1>10. QED BY <1>1, <1>4, <1>5, <1>6, <1>7, <1>8, <1>9, AskingKeeps DEF Prep!TypeOK

LEMMA RepairUnsubscribesKeeps == ASSUME Prep!PrepInv, Prep!RepairUnsubscribes PROVE Prep!PrepInv'
<1>1. /\ Prep!TypeOK /\ prep \in Preparing /\ Prep!PlacesInv /\ Prep!OursInv
      /\ prep.at = "unsubscribe" /\ prep.kind = "repair" /\ prep.outcome = "none"
      /\ losses \in 0..MaxFaults
      /\ UNCHANGED <<item, native, cancelled, session, handoff, ours, since, excused,
                     moves, losses>>
  BY PrepTypes
  DEF Prep!RepairUnsubscribes, Prep!At, Prep!Same, Prep!history, Prep!TypeOK, Prep!PlacesInv
<1>2. CASE prep' = [prep EXCEPT !.at = "done", !.outcome = "failed"] /\ asked' = asked
  BY <1>1, <1>2, RepairStops
<1>3. CASE /\ prep' = [prep EXCEPT !.at = "removal"]
           /\ asked' = [m \in Mods |-> IF m \in prep.required /\ Prep!Subscribed(m)
                                         THEN "unsubscribe" ELSE asked[m]]
  <2>1. asked' \in [Mods -> {"nothing", "subscribe", "unsubscribe"}]
    BY <1>1, <1>3 DEF Prep!TypeOK
  <2>2. /\ prep' \in Preparing /\ prep'.at = "removal" /\ prep'.kind = prep.kind
        /\ prep'.tried = prep.tried /\ prep'.reported = prep.reported /\ prep'.outcome = "none"
    BY <1>1, <1>3 DEF Preparing, Prep!Places
  <2>3. Prep!PlacesInv' /\ Prep!ReadyInv' /\ Prep!OursInv'
    BY <1>1, <2>2, UnvalidatedKeeps DEF Prep!PlacesInv, Prep!OursInv, Prep!At
  <2>4. QED BY <1>1, <2>1, <2>2, <2>3, AskingKeeps DEF Prep!TypeOK
<1>4. QED BY <1>2, <1>3 DEF Prep!RepairUnsubscribes, Prep!Goes

LEMMA PrepInit == Prep!Init => Prep!PrepInv
<1> SUFFICES ASSUME Prep!Init PROVE Prep!PrepInv OBVIOUS
<1>1. /\ prep \in Preparing /\ prep.at = "idle" /\ prep.kind = "prepare" /\ prep.outcome = "none"
      /\ prep.tried = {} /\ prep.reported = {}
  BY DEF Prep!Init, Prep!NoPrep, Preparing, Prep!Kinds, Prep!Places, Prep!Outcomes
<1>2. /\ asked = [m \in Mods |-> "nothing"] /\ session = "none" /\ handoff = {} /\ ours = {}
      /\ since = {} /\ excused = {} /\ moves = 0 /\ losses = 0 /\ cancelled = FALSE
      /\ native \in BOOLEAN
      /\ item \in [Mods -> {[subscribed |-> FALSE, content |-> "absent"],
                            [subscribed |-> TRUE, content |-> "old"],
                            [subscribed |-> TRUE, content |-> "current"]}]
  BY DEF Prep!Init
<1>3. 0 \in 0..MaxSteam /\ 0 \in 0..MaxFaults BY CleanupAssumption
<1>4. item \in [Mods -> [subscribed: BOOLEAN, content: Prep!Contents]]
  <2>1. {[subscribed |-> FALSE, content |-> "absent"], [subscribed |-> TRUE, content |-> "old"],
         [subscribed |-> TRUE, content |-> "current"]}
          \subseteq [subscribed: BOOLEAN, content: Prep!Contents]
    BY DEF Prep!Contents
  <2>2. QED BY <1>2, <2>1
<1>5. Prep!TypeOK BY <1>1, <1>2, <1>3, <1>4 DEF Prep!TypeOK, Preparing
<1>6. Prep!PlacesInv /\ Prep!OursInv /\ Prep!ReadyInv
  BY <1>1, <1>2 DEF Prep!PlacesInv, Prep!OursInv, Prep!ReadyInv, Prep!Validated, Prep!At
<1>7. \A m \in Mods : ~Prep!Subscribed(m) => item[m].content = "absent"
  BY <1>2 DEF Prep!Subscribed
<1>8. Prep!QuietInv BY <1>2, <1>7 DEF Prep!QuietInv, Prep!Pending
<1>9. Prep!OwedInv BY <1>1, <1>2 DEF Prep!OwedInv, Prep!At
<1>10. QED BY <1>5, <1>6, <1>8, <1>9 DEF Prep!PrepInv

LEMMA PrepNext == Prep!PrepInv /\ [Prep!Next]_(Prep!prepVars) => Prep!PrepInv'
<1> SUFFICES ASSUME Prep!PrepInv, [Prep!Next]_(Prep!prepVars) PROVE Prep!PrepInv' OBVIOUS
<1>1. CASE Prep!Environment BY <1>1, SteamKeeps
<1>2. CASE Prep!Preparation
  <2>1. ASSUME NEW starts \in BOOLEAN, NEW auto \in BOOLEAN,
               \/ Prep!Start("prepare", Mods, starts, auto)
               \/ Prep!Start("unmanaged", Mods, FALSE, FALSE)
        PROVE  Prep!PrepInv'
    <3>1. "prepare" \in Prep!Kinds /\ "unmanaged" \in Prep!Kinds /\ Mods \in SUBSET Mods
          /\ FALSE \in BOOLEAN
      BY DEF Prep!Kinds
    <3>2. QED BY <2>1, <3>1, StartKeeps
  <2>2. QED
    BY <1>2, <2>1, CancelKeeps, PreflightPassesKeeps, PreflightFailsKeeps, RefreshAsksKeeps,
       RefreshCancelledKeeps, RefreshEndsKeeps, WorkBeginsKeeps, InstallStateKeeps,
       AskSubscribeKeeps, AskDownloadKeeps, CommandEndsKeeps, ResultCheckedKeeps, RecheckKeeps,
       UndoKeeps, UndoEndsKeeps, ValidateKeeps, FoldersKeeps, SessionDiesKeeps, CloseKeeps,
       CloseFailsKeeps, CancelCleanupKeeps, FinishKeeps
    DEF Prep!Preparation
<1>3. CASE Prep!Repair
  <2>1. ASSUME NEW m \in Mods, Prep!Start("repair", {m}, FALSE, TRUE) PROVE Prep!PrepInv'
    <3>1. "repair" \in Prep!Kinds /\ {m} \in SUBSET Mods BY DEF Prep!Kinds
    <3>2. QED BY <2>1, <3>1, StartKeeps
  <2>2. QED
    BY <1>3, <2>1, RepairUnsubscribesKeeps, RepairRemovedKeeps, RepairVerifiesKeeps,
       HelperFailsKeeps
    DEF Prep!Repair
<1>4. CASE UNCHANGED Prep!prepVars
  <2>1. UNCHANGED <<native, item, asked, cancelled, prep, session, handoff, ours, since, excused,
                    moves, losses>>
    BY <1>4 DEF Prep!prepVars, Prep!outside, Prep!history, Prep!spent
  <2>2. Prep!TypeOK /\ prep \in Preparing /\ Prep!PlacesInv /\ Prep!OursInv /\ Prep!ReadyInv
    BY PrepTypes
  <2>3. Prep!PlacesInv' /\ Prep!OursInv' BY <2>1, <2>2 DEF Prep!PlacesInv, Prep!OursInv, Prep!At
  <2>4. Prep!ReadyInv'
    BY <2>1, <2>2
    DEF Prep!ReadyInv, Prep!Validated, Prep!Good, Prep!ItemReady, Prep!Installed, Prep!At
  <2>5. ASSUME prep.kind # "repair" PROVE Prep!OwedInv'
    <3>1. Prep!OwedInv BY <2>5 DEF Prep!PrepInv
    <3>2. \A m \in Mods : /\ Prep!Owed(m)' = Prep!Owed(m)
                          /\ Prep!Subscribed(m)' = Prep!Subscribed(m)
                          /\ Prep!Known(m)' = Prep!Known(m)
      BY <2>1
      DEF Prep!Owed, Prep!Pending, Prep!Subscribed, Prep!HelperInstalled, Prep!Known,
          Prep!Reported, Prep!At
    <3>3. prep.ids \subseteq Mods /\ ours \subseteq Mods BY <2>2 DEF Preparing, Prep!TypeOK
    <3>4. QED BY <2>1, <3>1, <3>2, <3>3 DEF Prep!OwedInv, Prep!At
  <2>6. QED BY <2>1, <2>2, <2>3, <2>4, <2>5, StillKeeps DEF Prep!TypeOK
<1>5. QED BY <1>1, <1>2, <1>3, <1>4 DEF Prep!Next

(* Only the two steps that undo, and a repair at its beginning, ask Steam to
   unsubscribe.                                                             *)
LEMMA OnlyUndoingUnsubscribes ==
  ASSUME Prep!PrepInv, [Prep!Next]_(Prep!prepVars), NEW m \in Mods,
         asked'[m] = "unsubscribe", asked[m] # "unsubscribe", prep.at # "unsubscribe"
  PROVE  m \in ours
<1>1. Prep!TypeOK /\ Prep!OursInv BY PrepTypes
<1>2. ~UNCHANGED asked OBVIOUS
<1>3. ~Prep!Environment
  <2>1. ASSUME NEW k \in Mods, Prep!CarriesOut(k) PROVE FALSE
    BY <1>1, <2>1 DEF Prep!CarriesOut, Prep!TypeOK
  <2>2. ASSUME NEW k \in Mods, \/ Prep!Delivers(k) \/ Prep!Removes(k) \/ Prep!Outdates(k)
                               \/ Prep!FolderGoes(k) \/ Prep!UserToggles(k)
        PROVE  FALSE
    BY <2>2 DEF Prep!Delivers, Prep!Removes, Prep!Outdates, Prep!FolderGoes, Prep!UserToggles
  <2>3. ~Prep!SteamToggles BY DEF Prep!SteamToggles
  <2>4. QED BY <2>1, <2>2, <2>3 DEF Prep!Environment
<1>4. CASE Prep!Undo
  <2>1. m \in prep.todo BY <1>4 DEF Prep!Undo, Prep!Unsubscribing
  <2>2. QED BY <1>1, <1>4, <2>1 DEF Prep!OursInv, Prep!Undo
<1>5. CASE Prep!CancelCleanup
  <2>1. m \in handoff BY <1>5 DEF Prep!CancelCleanup, Prep!Unsubscribing
  <2>2. QED BY <1>1, <2>1 DEF Prep!OursInv
<1>6. ~Prep!RefreshAsks BY DEF Prep!RefreshAsks
<1>7. \A k \in Mods : ~Prep!AskSubscribe(k) BY <1>1 DEF Prep!AskSubscribe, Prep!TypeOK
<1>8. ~Prep!RepairUnsubscribes BY DEF Prep!RepairUnsubscribes, Prep!At
<1>9. ~\/ Prep!Cancel \/ Prep!PreflightPasses \/ Prep!PreflightFails \/ Prep!RefreshCancelled
       \/ Prep!RefreshEnds \/ Prep!WorkBegins \/ Prep!LowDisk \/ Prep!InstallState
       \/ Prep!AskDownload \/ Prep!WaitReady
  BY <1>2
  DEF Prep!Cancel, Prep!outside, Prep!PreflightPasses, Prep!PreflightFails, Prep!RefreshCancelled,
      Prep!RefreshEnds, Prep!WorkBegins, Prep!LowDisk, Prep!InstallState, Prep!AskDownload,
      Prep!WaitReady, Prep!Quiet
<1>10. ~\/ Prep!WaitTimesOut \/ Prep!HandsOver \/ Prep!ResultChecked \/ Prep!Recheck
        \/ Prep!UndoEnds \/ Prep!Validate \/ Prep!Folders \/ Prep!SessionDies \/ Prep!Close
        \/ Prep!CloseFails \/ Prep!CancelCleanupEnds \/ Prep!Finish
  BY <1>2
  DEF Prep!WaitTimesOut, Prep!HandsOver, Prep!ResultChecked, Prep!Recheck, Prep!UndoEnds,
      Prep!Validate, Prep!Folders, Prep!SessionDies, Prep!Close, Prep!CloseFails,
      Prep!CancelCleanupEnds, Prep!Finish, Prep!Quiet
<1>11. ~\/ Prep!RepairRemoved \/ Prep!RepairGivesUp \/ Prep!RepairVerifies \/ Prep!HelperFails
  BY <1>2
  DEF Prep!RepairRemoved, Prep!RepairGivesUp, Prep!RepairVerifies, Prep!HelperFails, Prep!Quiet
<1>12. \A kind, required, starts, auto : ~Prep!Start(kind, required, starts, auto)
  BY <1>2 DEF Prep!Start, Prep!Quiet
<1>13. ~UNCHANGED Prep!prepVars BY <1>2 DEF Prep!prepVars, Prep!outside
<1>14. Prep!Preparation => Prep!Undo \/ Prep!CancelCleanup
  BY <1>6, <1>7, <1>9, <1>10, <1>12 DEF Prep!Preparation
<1>15. ~Prep!Repair BY <1>8, <1>11, <1>12 DEF Prep!Repair
<1>16. QED BY <1>3, <1>4, <1>5, <1>13, <1>14, <1>15 DEF Prep!Next

(* A behaviour of the Workshop is one of the preparations, whichever side it
   is about: the other side stands still.                                   *)
THEOREM WorkshopIsPreparation == WorkshopSpec => Prep!Spec
<1>1. WorkshopInit => Prep!Init BY DEF WorkshopInit
<1>2. [WorkshopNext]_<<vars, preparation, side>> => [Prep!Next]_(Prep!prepVars)
  BY DEF WorkshopNext, preparation, Prep!prepVars, Prep!outside, Prep!history, Prep!spent
<1>3. QED BY <1>1, <1>2, PTL DEF WorkshopSpec, Prep!Spec

(* The inductive invariant of the preparations (prepare_required_mods,
   run_ugc_install and repair_ugc_item).                                    *)
THEOREM PreparationInvariant == WorkshopSpec => []Prep!PrepInv
BY WorkshopIsPreparation, PrepInit, PrepNext, PTL DEF Prep!Spec

(* Neither a preparation nor a repair unsubscribes from an item that it did
   not subscribe itself, having found it unsubscribed, except the repair that
   begins by unsubscribing from its item.                                   *)
THEOREM OthersAreLeftAlone == WorkshopSpec => OnlyOursAreUndone
<1>1. Prep!PrepInv /\ [Prep!Next]_(Prep!prepVars) =>
        [\A m \in Mods :
           asked'[m] = "unsubscribe" /\ asked[m] # "unsubscribe" /\ ~Prep!At("unsubscribe")
             => m \in ours]_(Prep!prepVars)
  BY OnlyUndoingUnsubscribes DEF Prep!At
<1>2. QED
  BY <1>1, PreparationInvariant, WorkshopIsPreparation, PTL
  DEF Prep!Spec, OnlyOursAreUndone, Prep!OnlyOursAreUndone

(* What is reported ready was ready when it was last looked at, and still is
   unless it changed since.                                                  *)
THEOREM ReadyMeansReady == WorkshopSpec => []ReadyIsReady
<1>1. Prep!PrepInv => ReadyIsReady
  BY DEF Prep!PrepInv, Prep!ReadyInv, Prep!Validated, Prep!Good, ReadyIsReady, Prep!ReadyIsReady
<1>2. QED BY <1>1, PreparationInvariant, PTL

(* A cancelled or failed preparation leaves no subscription of its own to an
   item that never arrived, unless the helper or Steam failed it.           *)
THEOREM CancellingCleansUp == WorkshopSpec => []NothingIsLeftBehind
<1>1. Prep!PrepInv => NothingIsLeftBehind
  <2>1. SUFFICES ASSUME Prep!PrepInv, prep.at = "done", prep.kind # "repair",
                        NEW m \in ours \ excused, Prep!Subscribed(m)
                 PROVE  Prep!HelperInstalled(m) \/ asked[m] = "unsubscribe"
    BY DEF NothingIsLeftBehind, Prep!NothingIsLeftBehind, Prep!At
  <2>2. Prep!OwedInv BY <2>1 DEF Prep!PrepInv
  <2>3. ~Prep!Owed(m) BY <2>1, <2>2 DEF Prep!OwedInv, Prep!Known, Prep!At
  <2>4. QED BY <2>1, <2>3 DEF Prep!Owed
<1>2. QED BY <1>1, PreparationInvariant, PTL
=============================================================================
