---------------------------- MODULE WorkshopCleanup ----------------------------
(***************************************************************************)
(* The destructive half of steam_ugc_backend.py: deleting a Workshop item  *)
(* from every Steam library (delete_ugc_mod, and its variant for a stopped *)
(* Steam), removing its records from appworkshop_<appid>.acf with a backup *)
(* and a bounded number of old backups, and the repair that scrubs stale   *)
(* records.                                                                *)
(*                                                                         *)
(* One cleanup runs at a time; "job" is where it is.  Steam, when it runs, *)
(* acts between any two of its steps, and the process may crash there.  A  *)
(* path is a library, a kind and an item; an ACF is its set of records.    *)
(***************************************************************************)
EXTENDS Integers, Sequences, SequencesExt

CONSTANTS
  Mods,          \* Workshop items
  NumLibraries,  \* Steam libraries, in the order of _native_steam_roots
  Retention,     \* ACF_BACKUP_RETENTION_COUNT
  MaxClock,      \* bound: values of the local time in a backup's name
  MaxJobs,       \* bound: cleanups the program starts
  MaxSteam,      \* bound: steps Steam takes
  MaxFaults      \* bound: calls that fail, and crashes

ASSUME CleanupAssumption ==
  /\ NumLibraries \in Nat \ {0} /\ Retention \in Nat \ {0}
  /\ MaxClock \in Nat /\ MaxJobs \in Nat /\ MaxSteam \in Nat /\ MaxFaults \in Nat

Libraries == 1..NumLibraries
Kinds == <<"content", "downloads", "downloads_patch", "root_patch">>
KindNames == {"content", "downloads", "downloads_patch", "root_patch"}

VARIABLES
  steam,       \* a supported native Steam runs
  subscribed,  \* items the account is subscribed to
  leaving,     \* items whose unsubscription Steam accepted but has not done
  files,       \* paths that exist: <<library, kind, item>>
  acf,         \* acf[l]: items with a record in the library's ACF
  backups,     \* backups[l]: backups of that ACF, oldest first
  links,       \* items with DZLL symlinks in the game's folder
  snapshot,    \* the subscription snapshot the Mods manager holds
  clock,       \* the local time, which may be set back
  job,         \* the cleanup
  unsubscribedOnce, \* history: unsubscribed at some moment of this cleanup
  touched,     \* history: items of which Steam brought something back
  deleted,     \* history: items of which a deletion was reported done
  replaced,    \* history: the content the last rewrite of each ACF had read
  disturbed,   \* history: Steam or a failing call interfered with this cleanup
  jobs, steps, faults  \* what has been spent of the bounds

world == <<steam, subscribed, leaving>>
disk == <<files, acf, backups, links>>
spent == <<jobs, steps, faults>>
history == <<unsubscribedOnce, touched, deleted, replaced, disturbed>>
vars == <<world, disk, snapshot, clock, job, history, spent>>

Backup == [stamp: 0..MaxClock, content: SUBSET Mods, complete: BOOLEAN]
Positions == {"idle", "query", "unsubscribe", "confirm", "verify", "delete",
              "acf_query", "acf_read", "acf_backup", "acf_fill",
              "acf_replace", "acf_prune", "metadata", "ok", "failed",
              "scrub_read", "scrub_query", "scrub_next"}
Modes == {"delete", "offline", "repair", "stale"}

TypeOK ==
  /\ steam \in BOOLEAN /\ subscribed \subseteq Mods /\ leaving \subseteq Mods
  /\ files \subseteq Libraries \X KindNames \X Mods
  /\ acf \in [Libraries -> SUBSET Mods]
  /\ backups \in [Libraries -> Seq(Backup)]
  /\ links \subseteq Mods /\ deleted \subseteq Mods
  /\ snapshot \in [off: SUBSET Mods, fresh: BOOLEAN] /\ clock \in 0..MaxClock
  /\ job \in [at: Positions, mode: Modes, ids: SUBSET Mods, todo: SUBSET Mods,
              failures: BOOLEAN, next: 1..(4 * NumLibraries + 1),
              lib: 1..(NumLibraries + 1), read: SUBSET Mods]
  /\ unsubscribedOnce \subseteq Mods /\ touched \subseteq Mods
  /\ replaced \in [Libraries -> SUBSET SUBSET Mods] /\ disturbed \in BOOLEAN
  /\ jobs \in 0..MaxJobs /\ steps \in 0..MaxSteam /\ faults \in 0..MaxFaults

(* Mutation: only the first library is cleaned. *)
FirstLibraryPlan(m) == [i \in 1..(4 * NumLibraries) |->
                          <<1, Kinds[((i - 1) % 4) + 1], m>>]

(* _native_workshop_cleanup_plan: library by library, the content first. *)
Plan(m) == [i \in 1..(4 * NumLibraries) |->
              <<((i - 1) \div 4) + 1, Kinds[((i - 1) % 4) + 1], m>>]

HasRealFolder(m) == \E l \in Libraries : <<l, "content", m>> \in files

NoJob == [at |-> "idle", mode |-> "delete", ids |-> {}, todo |-> {}, failures |-> FALSE,
          next |-> 1, lib |-> 1, read |-> {}]

(* Items with everything an interrupted update leaves in every library;
   any of them may be subscribed. Earlier runs left their backups.        *)
EarlierBackup == [stamp |-> MaxClock, content |-> {}, complete |-> TRUE]

Init ==
  /\ steam = TRUE /\ subscribed \in SUBSET Mods /\ leaving = {}
  /\ files = Libraries \X KindNames \X Mods
  /\ acf = [l \in Libraries |-> Mods]
  /\ backups = [l \in Libraries |-> [i \in 1..Retention |-> EarlierBackup]]
  /\ links = Mods /\ deleted = {}
  /\ snapshot = [off |-> {}, fresh |-> FALSE] /\ clock = MaxClock
  /\ job = NoJob
  /\ unsubscribedOnce = {} /\ touched = {} /\ disturbed = FALSE
  /\ replaced = [l \in Libraries |-> {}]
  /\ jobs = 0 /\ steps = 0 /\ faults = 0

-----------------------------------------------------------------------------
(* Steam, the user in Steam, and the clock. *)
Busy == job.at \notin {"idle", "ok", "failed"}
SteamStep ==
  /\ steps < MaxSteam /\ steps' = steps + 1 /\ disturbed' = TRUE
  /\ UNCHANGED <<links, backups, snapshot, clock, job, deleted, replaced, jobs, faults>>

ToggleSteam ==
  /\ SteamStep /\ steam' = ~steam
  /\ UNCHANGED <<subscribed, leaving, files, acf, unsubscribedOnce, touched>>

(* Subscribing makes Steam download the item and record it. *)
Subscribe(m) ==
  /\ SteamStep /\ steam /\ m \notin subscribed
  /\ subscribed' = subscribed \cup {m} /\ leaving' = leaving \ {m}
  /\ files' = files \cup {<<1, "content", m>>}
  /\ acf' = [acf EXCEPT ![1] = @ \cup {m}]
  /\ touched' = touched \cup {m}
  /\ UNCHANGED <<steam, unsubscribedOnce>>

(* Steam carries out an unsubscription and may remove the content itself. *)
Unsubscribe(m, removes) ==
  /\ steam /\ m \in subscribed
  /\ subscribed' = subscribed \ {m} /\ leaving' = leaving \ {m}
  /\ files' = IF removes THEN files \ {f \in files : f[2] = "content" /\ f[3] = m}
                         ELSE files
  /\ acf' = IF removes THEN [l \in Libraries |-> acf[l] \ {m}] ELSE acf
  /\ unsubscribedOnce' = unsubscribedOnce \cup {m}
  /\ UNCHANGED <<steam, touched>>

UserUnsubscribes(m) == SteamStep /\ \E removes \in BOOLEAN : Unsubscribe(m, removes)

(* What the program asked for happens sooner or later, at no cost. *)
UnsubscriptionTakesEffect(m) ==
  /\ m \in leaving /\ \E removes \in BOOLEAN : Unsubscribe(m, removes)
  /\ UNCHANGED <<links, backups, snapshot, clock, job, deleted, replaced,
                 disturbed, spent>>

SetClock(t) ==
  /\ t \in 0..MaxClock /\ t # clock /\ clock' = t
  /\ ~Busy
  /\ UNCHANGED <<world, disk, snapshot, job, history, spent>>

-----------------------------------------------------------------------------
(* The Mods manager's snapshot: which items are proved unsubscribed. An
   empty subscription list proves nothing; a snapshot expires.            *)
Proves(subs) == IF subs = {} THEN {} ELSE Mods \ subs

TakeSnapshot ==
  /\ steam /\ ~Busy
  /\ snapshot' = [off |-> Proves(subscribed), fresh |-> TRUE]
  /\ UNCHANGED <<world, disk, clock, job, history, spent>>

SnapshotExpires ==
  /\ snapshot.fresh /\ ~Busy /\ snapshot' = [snapshot EXCEPT !.fresh = FALSE]
  /\ UNCHANGED <<world, disk, clock, job, history, spent>>

-----------------------------------------------------------------------------
(* Cleanups. Every step stands for the code between two calls that look at
   or change something outside; each of those calls may fail.              *)
Keeps == UNCHANGED <<world, disk, snapshot, clock, history, spent>>

Starts(mode, at, ids, off) ==
  /\ ~Busy /\ jobs < MaxJobs /\ jobs' = jobs + 1
  /\ job' = [NoJob EXCEPT !.mode = mode, !.at = at, !.ids = ids]
  /\ unsubscribedOnce' = off /\ disturbed' = (~steam /\ mode # "offline")
  /\ UNCHANGED <<world, disk, snapshot, clock, touched, deleted, replaced, steps, faults>>

StartDelete(m) == Starts("delete", "query", {m}, Mods \ subscribed)
StartScrub(mode) == mode \in {"repair", "stale"} /\ Starts(mode, "scrub_read", {}, Mods \ subscribed)
StartOffline(m) ==
  /\ ~steam /\ snapshot.fresh /\ m \in snapshot.off
  /\ Starts("offline", "delete", {m}, snapshot.off)

(* A cleanup that fails ends; an item that fails under the repair is noted
   and the repair goes on with the next.                                   *)
Ended(result) == [NoJob EXCEPT !.at = result]
Failed == IF job.mode = "repair" /\ job.at \notin {"scrub_read", "scrub_query"}
          THEN [job EXCEPT !.at = "scrub_next", !.failures = TRUE]
          ELSE Ended("failed")

At(position) == job.at = position
Goto(position) == job' = IF position = "ok" THEN Ended("ok")
                         ELSE [job EXCEPT !.at = position]
Gives(result) == Keeps /\ job' = result

Fault ==
  /\ Busy /\ ~At("metadata") /\ ~At("scrub_next")
  /\ faults < MaxFaults /\ faults' = faults + 1 /\ disturbed' = TRUE
  /\ job' = Failed
  /\ backups' = IF At("acf_fill")   \* the incomplete backup is unlinked
                THEN [backups EXCEPT ![job.lib] = Front(@)] ELSE backups
  /\ \/ UNCHANGED leaving
     \/ At("unsubscribe") /\ leaving' = leaving \cup job.ids
  /\ UNCHANGED <<steam, subscribed, files, acf, links, snapshot, clock,
                 unsubscribedOnce, touched, deleted, replaced, jobs, steps>>

(* Steam's answers: a query fails when Steam is not running. *)
Answers == steam

(* Mutation: the command's success is proof enough. *)
AcceptedUnsubscribe(m) == m \in Mods \ subscribed \/ m \in leaving
ProvedUnsubscribed(m) == m \notin subscribed

Query ==
  /\ At("query")
  /\ Gives(IF ~Answers THEN Failed
           ELSE [job EXCEPT !.at = IF job.ids \cap subscribed # {} THEN "unsubscribe"
                                   ELSE "verify"])

AskUnsubscribe ==
  /\ At("unsubscribe")
  /\ job' = IF Answers THEN [job EXCEPT !.at = "confirm"] ELSE Failed
  /\ leaving' = IF Answers THEN leaving \cup (job.ids \cap subscribed) ELSE leaving
  /\ disturbed' = TRUE   \* Steam may be late
  /\ UNCHANGED <<steam, subscribed, disk, snapshot, clock, unsubscribedOnce,
                 touched, deleted, replaced, spent>>

(* Confirmed once after the command and once more before the deletion. *)
Confirm ==
  /\ At("confirm") \/ At("verify")
  /\ Gives(IF ~Answers \/ \E m \in job.ids : ~ProvedUnsubscribed(m) THEN Failed
           ELSE [job EXCEPT !.at = IF At("confirm") THEN "verify" ELSE "delete"])

DeleteNext ==
  /\ At("delete") /\ job.next <= 4 * NumLibraries
  /\ \E m \in job.ids : files' = files \ {Plan(m)[job.next]}
  /\ job' = [job EXCEPT !.next = @ + 1]
  /\ UNCHANGED <<world, acf, backups, links, snapshot, clock, history, spent>>

RemoveLinks ==
  /\ (At("delete") /\ job.next > 4 * NumLibraries)
  /\ links' = links \ job.ids
  /\ Goto(IF job.mode = "offline" THEN "acf_read" ELSE "acf_query")
  /\ UNCHANGED <<world, files, acf, backups, snapshot, clock, history, spent>>

(* remove_workshop_acf_entries asks again, and keeps the records of items
   that are subscribed or have a folder.                                  *)
Removable == {m \in job.ids : m \notin subscribed /\ ~HasRealFolder(m)}
AfterACF == IF job.mode = "stale" THEN Ended("ok") ELSE [job EXCEPT !.at = "metadata"]

QueryForACF ==
  /\ At("acf_query")
  /\ Gives(IF ~Answers THEN Failed
           ELSE IF Removable = {} THEN AfterACF
           ELSE [job EXCEPT !.at = "acf_read", !.ids = Removable])

ReadACF ==
  /\ At("acf_read")
  /\ Gives(IF job.lib > NumLibraries THEN AfterACF
           ELSE IF acf[job.lib] \cap job.ids = {} THEN [job EXCEPT !.lib = @ + 1]
           ELSE [job EXCEPT !.at = "acf_backup", !.read = acf[job.lib]])

OpenBackup ==
  /\ At("acf_backup") /\ Goto("acf_fill")
  /\ backups' = [backups EXCEPT ![job.lib] =
       Append(@, [stamp |-> clock, content |-> {}, complete |-> FALSE])]
  /\ UNCHANGED <<world, files, acf, links, snapshot, clock, history, spent>>

FillBackup ==
  /\ At("acf_fill") /\ Goto("acf_replace")
  /\ LET n == Len(backups[job.lib])
     IN backups' = [backups EXCEPT ![job.lib][n] =
                      [@ EXCEPT !.content = job.read, !.complete = TRUE]]
  /\ UNCHANGED <<world, files, acf, links, snapshot, clock, history, spent>>

(* _remove_workshop_acf_ids_from_text: the keyed entries of the ids go, from
   every known section; the rest of the text stays byte for byte.         *)
Edited(content) == content \ job.ids

ReplaceACF ==
  /\ At("acf_replace") /\ Goto("acf_prune")
  /\ acf' = [acf EXCEPT ![job.lib] = Edited(job.read)]
  /\ replaced' = [replaced EXCEPT ![job.lib] = {job.read}]
  /\ UNCHANGED <<world, files, backups, links, snapshot, clock,
                 unsubscribedOnce, touched, deleted, disturbed, spent>>

(* The backup just written stays, whatever its name says; of the others the
   newest by name, then by age.                                           *)
Newer(b, j, i) ==
  \/ b[j].stamp > b[i].stamp
  \/ b[j].stamp = b[i].stamp /\ j > i
(* Mutation: the backup just written counts like any other. *)
RetainedByName(b, i) == Cardinality({j \in DOMAIN b : Newer(b, j, i)}) < Retention

Retained(b, i) ==
  i = Len(b) \/ Cardinality({j \in 1..(Len(b) - 1) : Newer(b, j, i)}) < Retention - 1
(* What is left of b, in its order. *)
Rank(kept, i) == Cardinality({j \in kept : j <= i})
Without(b, gone) ==
  LET kept == DOMAIN b \ gone
  IN [k \in 1..Cardinality(kept) |-> b[CHOOSE i \in kept : Rank(kept, i) = k]]

Prune ==
  /\ At("acf_prune")
  /\ LET b == backups[job.lib]
         excess == {i \in DOMAIN b : ~Retained(b, i)}
     IN \E gone \in SUBSET excess :
          /\ gone = excess \/ faults < MaxFaults
          /\ faults' = IF gone = excess THEN faults ELSE faults + 1
          /\ backups' = [backups EXCEPT ![job.lib] = Without(b, gone)]
  /\ job' = [job EXCEPT !.at = "acf_read", !.lib = @ + 1, !.read = {}]
  /\ UNCHANGED <<world, files, acf, links, snapshot, clock, history, jobs, steps>>

(* _mark_metadata_deleted, which never fails, and the result. *)
MarkDeleted ==
  /\ At("metadata")
  /\ deleted' = deleted \cup job.ids
  /\ Goto(IF job.mode = "repair" THEN "scrub_next" ELSE "ok")
  /\ UNCHANGED <<world, disk, snapshot, clock, unsubscribedOnce, touched, replaced,
                 disturbed, spent>>

-----------------------------------------------------------------------------
(* scrub_stale_dayz_workshop_acf *)
ScrubRead ==
  /\ At("scrub_read")
  /\ LET recorded == UNION {acf[l] : l \in Libraries}
     IN Gives(IF recorded = {} THEN Ended("ok")
              ELSE [job EXCEPT !.at = "scrub_query", !.todo = recorded])

ScrubQuery ==
  /\ At("scrub_query")
  /\ Gives(IF ~Answers THEN Failed
           ELSE IF job.mode = "repair"
             THEN [job EXCEPT !.at = "scrub_next", !.todo = @ \ subscribed]
             ELSE LET stale == {m \in job.todo : m \notin subscribed /\ ~HasRealFolder(m)}
                  IN IF stale = {} THEN Ended("ok")
                     ELSE [job EXCEPT !.at = "acf_query", !.ids = stale, !.todo = {}])

ScrubNext ==
  /\ At("scrub_next")
  /\ IF job.todo = {} THEN job' = Ended(IF job.failures THEN "failed" ELSE "ok")
     ELSE \E m \in job.todo :
            job' = [job EXCEPT !.at = "query", !.ids = {m}, !.todo = @ \ {m},
                               !.next = 1, !.lib = 1, !.read = {}]
  /\ Keeps

Crash ==
  /\ Busy /\ job' = NoJob
  /\ faults < MaxFaults /\ faults' = faults + 1
  /\ snapshot' = [off |-> {}, fresh |-> FALSE]
  /\ UNCHANGED <<world, disk, clock, history, jobs, steps>>

-----------------------------------------------------------------------------
CleanupStep ==
  \/ Query \/ AskUnsubscribe \/ Confirm \/ DeleteNext \/ RemoveLinks
  \/ QueryForACF \/ ReadACF \/ OpenBackup \/ FillBackup \/ ReplaceACF \/ Prune
  \/ MarkDeleted \/ ScrubRead \/ ScrubQuery \/ ScrubNext

Next ==
  \/ ToggleSteam \/ TakeSnapshot \/ SnapshotExpires
  \/ \E m \in Mods : \/ Subscribe(m) \/ UserUnsubscribes(m)
                     \/ UnsubscriptionTakesEffect(m)
                     \/ StartDelete(m) \/ StartOffline(m)
  \/ \E t \in 0..MaxClock : SetClock(t)
  \/ \E mode \in Modes : StartScrub(mode)
  \/ CleanupStep \/ Fault \/ Crash

Symmetry == Permutations(Mods)

Spec == Init /\ [][Next]_vars

-----------------------------------------------------------------------------
(* No cleanup deletes a path of an item that was subscribed all the while:
   Steam carries an unsubscription out later than it accepts it, and only
   the queries after the command tell when.                               *)
OnlyUnsubscribedLoseFiles ==
  [][\A f \in files \ files' : f[3] \in unsubscribedOnce']_vars

(* An item reported deleted is gone, from every library, every ACF and the
   game's folder, whatever failed or crashed before, unless Steam brought
   something of it back.                                                  *)
Gone(m) == /\ \A f \in files : f[3] # m
           /\ \A l \in Libraries : m \notin acf[l]
           /\ m \notin links
DeletedMeansGone == \A m \in deleted \ touched : Gone(m)

(* What a deletion leaves can be put back and stands in nobody's way: the
   backup of what the last rewrite of an ACF had read survives the pruning,
   the clock set back included, and no deletion fails because of what an
   earlier one, crashed or failed, left behind: Steam or a failing call is
   always to blame.                                                       *)
CleanupsAreRecoverable ==
  /\ \A l \in Libraries : \A content \in replaced[l] :
       \E i \in DOMAIN backups[l] :
         backups[l][i].complete /\ backups[l][i].content = content
  /\ At("failed") => disturbed

=============================================================================
