---------------------------- MODULE ModCatalogue ----------------------------
(***************************************************************************)
(* The catalogue of mod names that search suggestions are made from, and   *)
(* the cache of parsed server mods (window.py, mod_suggestion_cache.py,    *)
(* server_mod_cache.py).  Both are built from the rows of the server list, *)
(* kept in a file and prepared by one worker thread, whose results come    *)
(* back through the main loop when the list may already be another one.    *)
(* Everything here is an operator on the record the module ServerBrowser   *)
(* keeps in its variable "cat".                                            *)
(*                                                                         *)
(* What is built from a list of servers is represented by that list.  The  *)
(* delays after which a failed job is tried again only postpone it and are *)
(* left out.                                                               *)
(***************************************************************************)
EXTENDS Naturals, Sequences

CONSTANT Keys       \* server endpoints

\* A catalogue file: no usable file (0), the old format (1), the present one (2).
Files == [format: 0..2, list: SUBSET Keys, old: BOOLEAN]

\* The worker's jobs, in order.  "out" is what the worker made of a job.
Jobs == [kind: {"restore", "refresh", "migrate", "cache"}, gen: Nat, list: SUBSET Keys,
         out: {"queued", "failed", "made"}, file: Files]

Catalogues ==
  [ \* the suggestions
    gen: Nat, ready: BOOLEAN, expired: BOOLEAN, migrate: BOOLEAN, index: SUBSET Keys,
    disk: Files, sweepDone: BOOLEAN, fallback: BOOLEAN,
    pending: BOOLEAN, allowed: BOOLEAN, restoring: BOOLEAN, restoreGen: Nat,
    refreshing: BOOLEAN, migrating: BOOLEAN,
    \* the parsed mods
    cacheGen: Nat, candidate: SUBSET Keys, persisted: SUBSET Keys, timers: SUBSET Nat,
    jobs: Seq(Jobs)]

NoFile == [format |-> 0, list |-> {}, old |-> FALSE]

\* At start only the files are there.
Unread(file, persisted) ==
  [gen |-> 0, ready |-> FALSE, expired |-> FALSE, migrate |-> FALSE, index |-> {}, disk |-> file,
   sweepDone |-> FALSE, fallback |-> FALSE, pending |-> FALSE, allowed |-> FALSE,
   restoring |-> FALSE, restoreGen |-> 0, refreshing |-> FALSE, migrating |-> FALSE,
   cacheGen |-> 0, candidate |-> {}, persisted |-> persisted, timers |-> {}, jobs |-> <<>>]

Submitted(c, kind, gen, list) ==
  [c EXCEPT !.jobs = Append(@, [kind |-> kind, gen |-> gen, list |-> list, out |-> "queued",
                                file |-> NoFile])]

(***************************************************************************)
(* A new list.                                                             *)
(***************************************************************************)
\* Every load makes what is under way for the previous list outdated.
Outdated(c) ==
  [c EXCEPT !.gen = @ + 1, !.pending = FALSE, !.allowed = FALSE, !.restoring = FALSE,
            !.cacheGen = @ + 1]

\* The sweep of the list has yet to come; a list that is only the cached one
\* will get none.
NewDatabase(c, ok) == [c EXCEPT !.sweepDone = FALSE, !.fallback = ~ok]

\* The catalogue comes from memory, from its file or from the rows; one made of
\* final rows is saved at once.
Rebuilt(c, list, ok, provisional, saved) ==
  CASE c.ready -> c
    [] ~c.ready /\ c.disk.format # 0 ->
         [c EXCEPT !.index = c.disk.list, !.ready = TRUE, !.expired = c.disk.old,
                   !.migrate = c.disk.format = 1]
    [] ~c.ready /\ c.disk.format = 0 ->
         IF (list # {} \/ ok) /\ ~provisional /\ saved
         THEN [c EXCEPT !.index = list, !.ready = TRUE, !.expired = FALSE, !.migrate = FALSE,
                        !.disk = [format |-> 2, list |-> list, old |-> FALSE]]
         ELSE [c EXCEPT !.index = list]

LoadedAtOnce(c, list, ok, provisional, saved) ==
  LET rebuilt == Rebuilt([Outdated(NewDatabase(c, ok)) EXCEPT !.candidate = list],
                         list, ok, provisional, saved)
  IN IF list = {} THEN [rebuilt EXCEPT !.fallback = TRUE] ELSE rebuilt

\* Rows built in batches leave the catalogue for later.
LoadedInBatches(c, list) == [c EXCEPT !.candidate = list, !.pending = ~c.ready, !.allowed = FALSE]

CacheTimerSet(c) == [c EXCEPT !.timers = @ \union {c.cacheGen}]

(***************************************************************************)
(* What the main loop starts on the worker.  "list" is the list in the     *)
(* window, "updating" that a database update is under way.                 *)
(***************************************************************************)
TryRestore(c, list, updating) ==
  CASE c.ready -> [c EXCEPT !.pending = FALSE, !.allowed = FALSE]
    [] /\ ~c.ready /\ c.pending /\ c.allowed /\ ~c.restoring
       /\ list # {} /\ ~c.refreshing /\ ~c.migrating /\ ~updating ->
         Submitted([c EXCEPT !.restoring = TRUE, !.restoreGen = c.gen], "restore", c.gen, list)
    [] OTHER -> c

SweepOver(c) == c.sweepDone \/ c.fallback

TryRefresh(c, list, updating) ==
  IF /\ c.ready /\ c.expired /\ ~c.migrate /\ ~c.refreshing /\ ~c.migrating
     /\ ~updating /\ SweepOver(c) /\ list # {}
  THEN Submitted([c EXCEPT !.refreshing = TRUE], "refresh", c.gen, list)
  ELSE c

TryMigrate(c, updating) ==
  IF c.migrate /\ ~c.migrating /\ ~c.refreshing /\ ~updating /\ SweepOver(c)
  THEN Submitted([c EXCEPT !.migrating = TRUE], "migrate", c.gen, c.index)
  ELSE c

Aged(c) == IF c.ready THEN [c EXCEPT !.expired = TRUE] ELSE c

\* One second of the window: restore, and unless it is paused refresh and migrate.
Ticked(c, list, updating, paused, aged) ==
  LET restored == TryRestore(c, list, updating)
      now == IF aged THEN Aged(restored) ELSE restored
  IN IF paused THEN restored ELSE TryMigrate(TryRefresh(now, list, updating), updating)

\* The list is shown: a restore that was put off may start.
Shown(c, list, updating) ==
  IF c.pending THEN TryRestore([c EXCEPT !.allowed = TRUE], list, updating) ELSE c

\* The cache of parsed mods is written 25 s after its list came, unless the
\* file has it already.
CacheTimerFired(c, gen) ==
  LET fired == [c EXCEPT !.timers = @ \ {gen}]
  IN IF gen = c.cacheGen /\ c.candidate \notin {{}, c.persisted}
     THEN Submitted(fired, "cache", gen, c.candidate)
     ELSE fired

(***************************************************************************)
(* The worker and the callbacks.                                           *)
(***************************************************************************)
\* What prepare_deferred_suggestions returns: the file, else the rows' catalogue.
Restored(c, job) ==
  IF c.disk.format # 0 THEN c.disk ELSE [format |-> 0, list |-> job.list, old |-> FALSE]

Waiting(c) == {i \in DOMAIN c.jobs : c.jobs[i].out = "queued"}

WorkerRan(c, made) ==
  LET i == CHOOSE i \in Waiting(c) : \A j \in Waiting(c) : i <= j
      job == c.jobs[i]
      file == IF job.kind = "restore" THEN Restored(c, job) ELSE NoFile
  IN [c EXCEPT !.jobs[i] = [job EXCEPT !.out = IF made THEN "made" ELSE "failed", !.file = file]]

\* Only the last restore lowers the flag.
RestoreDone(c, job) ==
  LET mine == c.restoring /\ job.gen = c.restoreGen
      d == IF mine THEN [c EXCEPT !.restoring = FALSE] ELSE c
  IN IF job.out = "failed" \/ job.gen # c.gen
     THEN d
     ELSE [d EXCEPT !.index = job.file.list, !.ready = TRUE, !.expired = job.file.old,
                    !.migrate = job.file.format \in {0, 1}, !.pending = FALSE, !.allowed = FALSE]

\* Mutation: a refresh of an older list is published.
RefreshDoneUnchecked(c, job, published) ==
  IF job.out = "failed" \/ ~published
  THEN [c EXCEPT !.refreshing = FALSE]
  ELSE [c EXCEPT !.refreshing = FALSE, !.expired = FALSE, !.migrate = FALSE, !.index = job.list,
                 !.disk = [format |-> 2, list |-> job.list, old |-> FALSE]]

\* A refresh of an older list is thrown away.
RefreshDone(c, job, published) ==
  IF job.out = "failed" \/ job.gen # c.gen \/ ~published
  THEN [c EXCEPT !.refreshing = FALSE]
  ELSE [c EXCEPT !.refreshing = FALSE, !.expired = FALSE, !.migrate = FALSE, !.index = job.list,
                 !.disk = [format |-> 2, list |-> job.list, old |-> FALSE]]

\* A failed migration is given up only when a refresh is due anyway.
MigrationDone(c, job, published) ==
  LET d == [c EXCEPT !.migrating = FALSE]
      failed == job.out = "failed" \/ ~published
      outdated == job.out # "failed" /\ (job.gen # c.gen \/ ~c.migrate)
  IN CASE outdated -> d
       [] ~outdated /\ failed -> [d EXCEPT !.migrate = @ /\ ~c.expired]
       [] ~outdated /\ ~failed ->
            [d EXCEPT !.migrate = FALSE,
                      !.disk = [format |-> 2, list |-> job.list, old |-> c.expired]]

CacheDone(c, job, published) ==
  IF job.out = "failed" \/ job.gen # c.cacheGen \/ ~published
  THEN c
  ELSE [c EXCEPT !.persisted = job.list]

\* The callback of the first job that the worker has finished.
JobDone(c, published) ==
  LET job == Head(c.jobs)
      d == [c EXCEPT !.jobs = Tail(@)]
  IN CASE job.kind = "restore" -> RestoreDone(d, job)
       [] job.kind = "refresh" -> RefreshDone(d, job, published)
       [] job.kind = "migrate" -> MigrationDone(d, job, published)
       [] job.kind = "cache" -> CacheDone(d, job, published)
=============================================================================
