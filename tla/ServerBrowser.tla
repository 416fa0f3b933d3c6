--------------------------- MODULE ServerBrowser ---------------------------
(***************************************************************************)
(* The server list of the window (window.py): the update of the server     *)
(* database at start and on request, the rows it leads to, the sweep that  *)
(* asks every server for its status before the list is shown, the status   *)
(* refresh, the live refresh of the visible rows, and the catalogue of mod *)
(* names that the worker prepares meanwhile.  Everything runs on the main  *)
(* loop; fetches, queries and file work run elsewhere and come back as     *)
(* callbacks, in any order with the user's clicks and with newer lists.    *)
(*                                                                         *)
(* "on" names the activities of a run beside the database update and its   *)
(* sweep; it is chosen at the start.                                       *)
(***************************************************************************)
EXTENDS LiveStatus

CONSTANTS
  Lists,        \* what the database can hold: sets of endpoints
  Unreachable,  \* endpoints the database lists without a ping
  Scenarios,    \* sets of activities
  MaxUpdates,   \* updates the user asks for
  MaxLoose,     \* queries without a generation under way at once
  Nil

INSTANCE ModCatalogue

VARIABLES
  on,       \* the activities of this run
  db,       \* the update of the database and the load it leads to
  ui,       \* the dimmer over the list, and whether the start is over
  rows,     \* the list in the window
  sweep,    \* the sweep of the last fetched list
  stale,    \* endpoints asked by superseded sweeps
  refresh,  \* the status refresh
  live,     \* the refresh of the visible rows
  loose,    \* rechecks and row refreshes: their answers carry no generation
  cat       \* the catalogue and the cache of parsed mods

listVars == <<on, db, ui, rows, sweep, stale, refresh, live, loose, cat>>

\* Without outages every query of a sweep is answered.
Replying == IF "outages" \in on THEN Answers ELSE {"ok"}

\* What the worker of an update hands over.
Fetched == [by: {"start", "user"}, how: {"ok", "failed", "error"}, list: SUBSET Keys]

\* A job of the live refresh, and its answers when they wait for the end of a
\* drag; the queries without a generation.
Replies(targets) == [targets -> {"ok", "fail", "none"}]
LiveJobs == [targets: SUBSET Keys, current: BOOLEAN]
Deferrals == UNION {[targets: {t}, current: BOOLEAN, replies: Replies(t)] : t \in SUBSET Keys}
LooseJobs == [why: {"recheck", "row"}, keys: SUBSET Keys]

ASSUME BrowserAssumption ==
  /\ Lists \subseteq SUBSET Keys /\ Unreachable \subseteq Keys
  /\ MaxUpdates \in Nat /\ MaxLoose \in Nat
  /\ Nil \notin Fetched /\ Nil \notin LiveJobs /\ Nil \notin Deferrals
  /\ \A list \in SUBSET Keys : list # Nil

ListTypeOK ==
  /\ on \in Scenarios
  /\ db \in [inflight: BOOLEAN, fetch: {"none", "start", "user"}, answer: {Nil} \union Fetched,
             file: SUBSET Keys, watchdog: BOOLEAN, applied: BOOLEAN, provisional: BOOLEAN,
             batch: {Nil} \union SUBSET Keys, loads: Nat, updates: 0..MaxUpdates,
             rechecks: Nat]
  /\ ui \in [dimmed: BOOLEAN, nudged: BOOLEAN, started: BOOLEAN]
  /\ rows \in Rows
  /\ sweep \in Sweeps /\ refresh \in Sweeps /\ stale \subseteq Keys
  /\ live \in [inflight: BOOLEAN, job: {Nil} \union LiveJobs,
               deferred: {Nil} \union Deferrals, drag: BOOLEAN]
  /\ loose \subseteq LooseJobs
  /\ cat \in Catalogues

NoLive == [inflight |-> FALSE, job |-> Nil, deferred |-> Nil, drag |-> FALSE]

\* The start: the dimmer is up, the database is being fetched, and the watchdog
\* will show the cached one after 30 s (_begin_startup_update).
ListInit ==
  /\ on \in Scenarios
  /\ \E file \in Lists \union {{}} :
       db = [inflight |-> TRUE, fetch |-> "start", answer |-> Nil, file |-> file,
             watchdog |-> TRUE, applied |-> FALSE, provisional |-> FALSE, batch |-> Nil,
             loads |-> 0, updates |-> 0, rechecks |-> 0]
  /\ ui = [dimmed |-> TRUE, nudged |-> FALSE, started |-> FALSE]
  /\ rows = NoRows /\ sweep = NoSweep /\ refresh = NoSweep /\ stale = {}
  /\ live = NoLive /\ loose = {}
  /\ IF "catalogue" \in on
     THEN \E format \in 0..2, old \in BOOLEAN :
            cat = Unread(IF format = 0 THEN NoFile
                         ELSE [format |-> format, list |-> {}, old |-> old], {})
     ELSE \E cached \in IF "cache" \in on THEN {{}, db.file} ELSE {{}} :
            cat = Unread([format |-> 2, list |-> {}, old |-> FALSE], cached)

(***************************************************************************)
(* Helpers.                                                                *)
(***************************************************************************)
Dimmed(u) == [u EXCEPT !.dimmed = TRUE]
Undimmed(u) == [u EXCEPT !.dimmed = FALSE, !.nudged = FALSE]

\* _complete_startup_presentation lowers the dimmer the first time only.
PresentedUi(u) == IF u.started THEN u ELSE [Undimmed(u) EXCEPT !.started = TRUE]

\* The end of a warm-up lowers it every time.
RevealedUi(u) == [Undimmed(u) EXCEPT !.started = TRUE]

\* A filter or a sort lets go of the rows being refreshed.
Released(job) == IF job = Nil THEN Nil ELSE [job EXCEPT !.current = FALSE]
LetGo(l) == [l EXCEPT !.job = Released(@), !.deferred = Released(@)]

Replied(keys, replies) ==
  LET asked == Ordered(keys) IN [i \in DOMAIN asked |-> <<asked[i], replies[asked[i]]>>]

WarmUp(list) == list \intersect Popular

(***************************************************************************)
(* A list is loaded.  "how" says whether it was fetched ("ok"), is the     *)
(* cached one ("cached") or that of the watchdog ("provisional").  An      *)
(* update is still under way then.  An exception of a load at once is left *)
(* out; the code catches none (the loads in batches have theirs).          *)
(***************************************************************************)
\* The rows are there: a fetched list gets a sweep, another one is shown.
LoadedUi(list, how) ==
  CASE list = {} -> PresentedUi(ui)
    [] list # {} /\ how # "ok" -> PresentedUi(Dimmed(ui))
    [] list # {} /\ how = "ok" -> IF WarmUp(list) = {} THEN RevealedUi(ui) ELSE Dimmed(ui)

Swept(list, how) ==
  /\ sweep' = IF how = "ok" THEN Started(list, WarmUp(list)) ELSE NoSweep
  /\ stale' = stale \union sweep.asked

\* The catalogue after the list was published: shown at once or later.
AfterPublication(c, list, how) ==
  LET timed == IF how = "ok" THEN CacheTimerSet(c) ELSE c
      swept == IF how = "ok" THEN [timed EXCEPT !.sweepDone = FALSE, !.fallback = FALSE] ELSE timed
  IN IF how # "ok" \/ WarmUp(list) = {} THEN Shown(swept, list, TRUE) ELSE swept

\* _apply_db_rows, all rows at once; the catalogue's file may not be writable.
Load(list, how) ==
  \E saved \in IF cat.disk.format = 0 THEN BOOLEAN ELSE {TRUE} :
    LET c == LoadedAtOnce(cat, list, how = "ok", how = "provisional", saved)
    IN /\ rows' = LoadedRows(list, list \ Unreachable)
       /\ live' \in {live, LetGo(live)}
       /\ IF list = {}
          THEN cat' = Shown(c, {}, TRUE) /\ UNCHANGED <<sweep, stale>>
          ELSE cat' = AfterPublication(c, list, how) /\ Swept(list, how)

(***************************************************************************)
(* The update of the database.                                             *)
(***************************************************************************)
\* The fetch ends; the database is replaced by a whole one or not at all.  The
\* start falls back on what it reads; reading may fail, and an error may be that
\* of reading what has just been fetched.
FetchEnds ==
  /\ db.fetch # "none" /\ db.answer = Nil
  /\ \E file \in Lists \union {db.file}, how \in {"ok", "failed", "error"}, readable \in BOOLEAN :
       LET read == readable /\ how # "error" /\ (db.fetch = "start" \/ how = "ok")
       IN /\ how = "ok" => file \in Lists
          /\ how = "failed" => file = db.file
          /\ db' = [db EXCEPT !.fetch = "none", !.file = file,
                              !.answer = [by |-> db.fetch, how |-> how,
                                          list |-> IF read THEN file ELSE {}]]
  /\ UNCHANGED <<on, ui, rows, sweep, stale, refresh, live, loose, cat>>

Answering(by) == db.answer # Nil /\ db.answer.by = by

Settled == [db EXCEPT !.inflight = FALSE, !.answer = Nil]

\* The start's fetch failed after the watchdog has shown the cached list.
StartKeepsProvisional ==
  /\ Answering("start") /\ db.answer.how # "ok" /\ db.provisional
  /\ db' = [Settled EXCEPT !.applied = TRUE]
  /\ ui' = PresentedUi(ui)
  /\ cat' = Shown(cat, rows.list, TRUE)
  /\ UNCHANGED <<on, rows, sweep, stale, refresh, live, loose>>

\* It failed before: the cached list is loaded, if there is one.
StartFallsBack ==
  /\ Answering("start") /\ db.answer.how # "ok" /\ ~db.provisional
  /\ db' = [Settled EXCEPT !.applied = TRUE, !.loads = @ + 1]
  /\ Load(db.answer.list, "cached")
  /\ ui' = LoadedUi(db.answer.list, "cached")
  /\ UNCHANGED <<on, refresh, loose>>

\* It succeeded, but the list cannot be built in batches.
Batched(list) == ~db.provisional /\ rows.list = {} /\ list # {}

StartLoads ==
  /\ Answering("start") /\ db.answer.how = "ok" /\ ~Batched(db.answer.list)
  /\ db' = [Settled EXCEPT !.applied = TRUE, !.loads = @ + 1,
                           !.rechecks = @ + IF db.answer.list = {} THEN 0 ELSE 1]
  /\ Load(db.answer.list, "ok")
  /\ ui' = LoadedUi(db.answer.list, "ok")
  /\ UNCHANGED <<on, refresh, loose>>

\* It succeeded: the rows are built in batches, the update is still under way.
StartBatches ==
  /\ Answering("start") /\ db.answer.how = "ok" /\ Batched(db.answer.list)
  /\ db' = [db EXCEPT !.answer = Nil, !.applied = TRUE, !.batch = db.answer.list]
  /\ cat' = Outdated(NewDatabase(cat, TRUE))
  /\ UNCHANGED <<on, ui, rows, sweep, stale, refresh, live, loose>>

BatchOver == [db EXCEPT !.inflight = FALSE, !.batch = Nil]

BatchPublishes ==
  /\ db.batch # Nil
  /\ rows' = LoadedRows(db.batch, db.batch \ Unreachable)
  /\ db' = [BatchOver EXCEPT !.loads = @ + 1, !.rechecks = @ + 1]
  /\ Swept(db.batch, "ok")
  /\ ui' = LoadedUi(db.batch, "ok")
  /\ cat' = AfterPublication(LoadedInBatches(cat, db.batch), db.batch, "ok")
  /\ live' \in {live, LetGo(live)}
  /\ UNCHANGED <<on, refresh, loose>>

\* Building or publishing the rows raised: there is no list.
BatchFails ==
  /\ db.batch # Nil
  /\ rows' = LoadedRows({}, {})
  /\ db' = BatchOver
  /\ ui' = PresentedUi(ui)
  /\ cat' = Shown([cat EXCEPT !.fallback = TRUE], {}, TRUE)
  /\ live' \in {live, LetGo(live)}
  /\ UNCHANGED <<on, sweep, stale, refresh, loose>>

\* The rows are published, but what follows raised, before or after the sweep
\* had asked its first servers.
BatchPublishesWithoutSweep ==
  /\ db.batch # Nil
  /\ rows' = LoadedRows(db.batch, db.batch \ Unreachable)
  /\ sweep' = NoSweep
  /\ ui' = PresentedUi(ui)
  /\ \E swept, timed, timer \in BOOLEAN :
       LET c == LoadedInBatches(cat, db.batch)
           d == IF timed \/ swept THEN CacheTimerSet(c) ELSE c
       IN /\ db' = [BatchOver EXCEPT !.loads = @ + 1, !.rechecks = @ + IF timer /\ swept THEN 1 ELSE 0]
          /\ stale' = stale \union IF swept THEN Started(db.batch, {}).asked ELSE {}
          /\ cat' = Shown([d EXCEPT !.fallback = TRUE], db.batch, FALSE)
  /\ live' \in {live, LetGo(live)}
  /\ UNCHANGED <<on, refresh, loose>>

\* 30 s after the start.
Watchdog ==
  /\ db.watchdog
  /\ IF db.applied
     THEN /\ db' = [db EXCEPT !.watchdog = FALSE]
          /\ UNCHANGED <<ui, rows, sweep, stale, live, cat>>
     ELSE \E list \in {db.file, {}} :
            /\ db' = [db EXCEPT !.watchdog = FALSE, !.provisional = TRUE, !.loads = @ + 1]
            /\ Load(list, "provisional")
            /\ ui' = LoadedUi(list, "provisional")
  /\ UNCHANGED <<on, refresh, loose>>

\* The user asks for an update; one that is under way is only shown again.
UpdateRefused ==
  /\ db.inflight /\ ~ui.dimmed
  /\ ui' = [Dimmed(ui) EXCEPT !.nudged = TRUE]
  /\ UNCHANGED <<on, db, rows, sweep, stale, refresh, live, loose, cat>>

\* One that begins sorts the list, which may let go of the rows being refreshed.
UpdateBegins ==
  /\ ~db.inflight /\ ~ui.dimmed /\ db.updates < MaxUpdates
  /\ db' = [db EXCEPT !.inflight = TRUE, !.fetch = "user", !.updates = @ + 1]
  /\ ui' = Dimmed(ui)
  /\ live' \in {live, LetGo(live)}
  /\ UNCHANGED <<on, rows, sweep, stale, refresh, loose, cat>>

\* Mutation: the dimmer stays up when the fetch fails.
UpdateFailsDimmed ==
  /\ Answering("user") /\ db.answer.how # "ok"
  /\ db' = Settled
  /\ UNCHANGED <<on, ui, rows, sweep, stale, refresh, live, loose, cat>>

UpdateFails ==
  /\ Answering("user") /\ db.answer.how # "ok"
  /\ db' = Settled
  /\ ui' = Undimmed(ui)
  /\ UNCHANGED <<on, rows, sweep, stale, refresh, live, loose, cat>>

\* The dimmer is lowered whatever the load did with it.
UpdateLoads ==
  /\ Answering("user") /\ db.answer.how = "ok"
  /\ db' = [Settled EXCEPT !.loads = @ + 1,
                           !.rechecks = @ + IF db.answer.list = {} THEN 0 ELSE 1]
  /\ Load(db.answer.list, "ok")
  /\ ui' = Undimmed(LoadedUi(db.answer.list, "ok"))
  /\ UNCHANGED <<on, refresh, loose>>

(***************************************************************************)
(* The sweep after an update.                                              *)
(***************************************************************************)
\* The list is shown: sorted, the dimmer lowered, the catalogue may be restored.
Shows(now) ==
  IF now /\ ~sweep.revealed
  THEN /\ ui' = RevealedUi(ui)
       /\ live' \in {live, LetGo(live)}
       /\ cat' = [Shown(cat, rows.list, db.inflight) EXCEPT !.sweepDone = sweep'.done]
  ELSE /\ UNCHANGED <<ui, live>>
       /\ cat' = [cat EXCEPT !.sweepDone = sweep'.done]

SweepAnswers ==
  /\ \E k \in sweep.asked, a \in Replying :
       /\ sweep' = Answered(sweep, <<k, a>>, rows.list)
       /\ rows' = HeardAll(rows, AppliedBy(sweep, sweep', <<k, a>>))
  /\ Shows(sweep'.revealed)
  /\ UNCHANGED <<on, db, stale, refresh, loose>>

\* The answer to a query of an older sweep changes nothing.
StaleSweepAnswer ==
  /\ \E k \in stale : stale' = stale \ {k}
  /\ UNCHANGED <<on, db, ui, rows, sweep, refresh, live, loose, cat>>

SweepFlushes ==
  /\ sweep.current /\ sweep.buffer # <<>>
  /\ rows' = HeardAll(rows, sweep.buffer)
  /\ sweep' = [sweep EXCEPT !.buffer = <<>>]
  /\ UNCHANGED <<on, db, ui, stale, refresh, live, loose, cat>>

\* The warm-up has lasted 20 s.
WarmUpTimeout ==
  /\ sweep.current /\ sweep.timer
  /\ rows' = HeardAll(rows, sweep.buffer)
  /\ sweep' = Revealed(sweep)
  /\ Shows(TRUE)
  /\ UNCHANGED <<on, db, stale, refresh, loose>>

(***************************************************************************)
(* The status refresh: every row of the list at the time of the click.     *)
(***************************************************************************)
RefreshBegins ==
  /\ "refresh" \in on /\ refresh.done /\ rows.list # {} /\ ~ui.dimmed
  /\ refresh' = Started(rows.list, {})
  /\ UNCHANGED <<on, db, ui, rows, sweep, stale, live, loose, cat>>

RefreshAnswers ==
  /\ \E k \in refresh.asked, a \in Replying :
       /\ refresh' = Answered(refresh, <<k, a>>, rows.list)
       /\ rows' = HeardAll(rows, AppliedBy(refresh, refresh', <<k, a>>))
  /\ UNCHANGED <<on, db, ui, sweep, stale, live, loose, cat>>

RefreshFlushes ==
  /\ refresh.buffer # <<>>
  /\ rows' = HeardAll(rows, refresh.buffer)
  /\ refresh' = [refresh EXCEPT !.buffer = <<>>]
  /\ UNCHANGED <<on, db, ui, sweep, stale, live, loose, cat>>

(***************************************************************************)
(* The live refresh of the visible rows, once a second.                    *)
(***************************************************************************)
\* A target that took too long has no answer; that, like a neutral one, changes
\* nothing.
Heeded(job, replies) ==
  HeardAll(rows, Replied({k \in job.targets : replies[k] # "none"}, replies))

\* The window is hidden, minimized, scrolled or downloading: nothing is asked.
Tick(paused) ==
  /\ live.drag => paused
  /\ \E aged \in IF "catalogue" \in on THEN BOOLEAN ELSE {FALSE} :
       cat' = Ticked(cat, rows.list, db.inflight, paused, aged)
  /\ IF "tick" \in on /\ ~paused /\ ~live.inflight /\ rows.list # {}
     THEN \E targets \in SUBSET rows.list \ {{}} :
            live' = [live EXCEPT !.inflight = TRUE,
                                 !.job = [targets |-> targets, current |-> TRUE]]
     ELSE UNCHANGED live
  /\ UNCHANGED <<on, db, ui, rows, sweep, stale, refresh, loose>>

BrowserTick == on \intersect {"tick", "catalogue"} # {} /\ \E paused \in BOOLEAN : Tick(paused)

\* Mutation: the flag is lowered only for answers that are applied.
TickAnswersHolding ==
  /\ live.job # Nil
  /\ \E replies \in Replies(live.job.targets) :
       LET heeded == ~live.drag /\ live.job.current
       IN /\ rows' = IF heeded THEN Heeded(live.job, replies) ELSE rows
          /\ live' = [live EXCEPT !.inflight = ~heeded, !.job = Nil]
  /\ UNCHANGED <<on, db, ui, sweep, stale, refresh, loose, cat>>

\* The answers wait for the end of a drag of the scroll bar, are dropped while
\* the list scrolls and are applied if the rows are still the ones asked about.
TickAnswers ==
  /\ live.job # Nil
  /\ \E replies \in Replies(live.job.targets), scrolling \in BOOLEAN :
       LET heeded == ~live.drag /\ ~scrolling /\ live.job.current
       IN /\ rows' = IF heeded THEN Heeded(live.job, replies) ELSE rows
          /\ live' = [live EXCEPT !.inflight = FALSE, !.job = Nil,
                                  !.deferred = IF live.drag
                                               THEN [targets |-> live.job.targets,
                                                     current |-> live.job.current,
                                                     replies |-> replies]
                                               ELSE @]
  /\ UNCHANGED <<on, db, ui, sweep, stale, refresh, loose, cat>>

DragBegins ==
  /\ "tick" \in on /\ ~live.drag
  /\ live' = [live EXCEPT !.drag = TRUE]
  /\ UNCHANGED <<on, db, ui, rows, sweep, stale, refresh, loose, cat>>

DragEnds ==
  /\ live.drag
  /\ rows' = IF live.deferred # Nil /\ live.deferred.current
             THEN Heeded(live.deferred, live.deferred.replies) ELSE rows
  /\ live' = [live EXCEPT !.drag = FALSE, !.deferred = Nil,
                          !.inflight = @ /\ live.deferred = Nil]
  /\ UNCHANGED <<on, db, ui, sweep, stale, refresh, loose, cat>>

\* The list is scrolled, filtered or sorted.
Scrolls ==
  /\ "tick" \in on
  /\ live' = LetGo(live)
  /\ UNCHANGED <<on, db, ui, rows, sweep, stale, refresh, loose, cat>>

(***************************************************************************)
(* Queries whose answers carry no generation.                              *)
(***************************************************************************)
Asks(why, keys) ==
  /\ Cardinality(loose) < MaxLoose
  /\ loose' = loose \union {[why |-> why, keys |-> keys]}
  /\ UNCHANGED <<on, db, ui, rows, sweep, stale, refresh, live, cat>>

\* The rows that are offline are asked again every 300 s once a list was swept.
OfflineRecheck ==
  LET offline == rows.list \ rows.online
  IN "loose" \in on /\ db.rechecks > 0 /\ offline # {} /\ Asks("recheck", offline)

RefreshRow ==
  "loose" \in on /\ ~ui.dimmed /\ \E k \in rows.list : Asks("row", {k})

LooseAnswers ==
  /\ \E job \in loose : \E replies \in [job.keys -> Replying] :
       /\ loose' = loose \ {job}
       /\ rows' = HeardAll(rows, Replied(job.keys, replies))
       /\ live' \in {live} \union IF job.why = "row" THEN {LetGo(live)} ELSE {}
  /\ UNCHANGED <<on, db, ui, sweep, stale, refresh, cat>>

(***************************************************************************)
(* The worker of the catalogue and its callbacks.                          *)
(***************************************************************************)
WorkerRuns ==
  /\ on \intersect {"catalogue", "cache"} # {} /\ Waiting(cat) # {}
  /\ \E made \in BOOLEAN : cat' = WorkerRan(cat, made)
  /\ UNCHANGED <<on, db, ui, rows, sweep, stale, refresh, live, loose>>

JobEnds ==
  /\ cat.jobs # <<>> /\ Head(cat.jobs).out # "queued"
  /\ \E published \in BOOLEAN : cat' = JobDone(cat, published)
  /\ UNCHANGED <<on, db, ui, rows, sweep, stale, refresh, live, loose>>

CacheTimer ==
  /\ "cache" \in on
  /\ \E gen \in cat.timers : cat' = CacheTimerFired(cat, gen)
  /\ UNCHANGED <<on, db, ui, rows, sweep, stale, refresh, live, loose>>

(***************************************************************************)
(* The specification.                                                      *)
(***************************************************************************)
Update ==
  \/ FetchEnds \/ StartKeepsProvisional \/ StartFallsBack \/ StartLoads \/ StartBatches
  \/ BatchPublishes \/ BatchFails \/ BatchPublishesWithoutSweep \/ Watchdog
  \/ UpdateRefused \/ UpdateBegins \/ UpdateFails \/ UpdateLoads

Sweeping ==
  \/ SweepAnswers \/ StaleSweepAnswer \/ SweepFlushes \/ WarmUpTimeout
  \/ RefreshBegins \/ RefreshAnswers \/ RefreshFlushes

Watching ==
  \/ BrowserTick \/ TickAnswers \/ DragBegins \/ DragEnds \/ Scrolls
  \/ OfflineRecheck \/ RefreshRow \/ LooseAnswers

Cataloguing == WorkerRuns \/ JobEnds \/ CacheTimer

ListNext == Update \/ Sweeping \/ Watching \/ Cataloguing

ListSpec == ListInit /\ [][ListNext]_listVars

(***************************************************************************)
(* Properties.                                                             *)
(***************************************************************************)
\* Unless loading a list at once raises, which the model leaves out, the list
\* is dimmed only for a reason that will come to an end: an update
\* that is fetching or building its rows, the warm-up of its sweep, or a click
\* that asked for an update already under way.  (Six places raise the dimmer
\* and as many lower it, each for its own reason: _set_updating.)  And until
\* the list is shown for the first time something that will show it is armed,
\* even while the fetch hangs: the watchdog, the fetch's answer, the batches or
\* the timer of the warm-up (db_watchdog, _on_startup_warmup_timeout).
ListWillBeShown ==
  /\ ui.dimmed => \/ ui.nudged \/ db.fetch # "none" \/ db.answer # Nil \/ db.batch # Nil
                  \/ sweep.current /\ ~sweep.revealed
  /\ ~ui.started => \/ db.watchdog \/ Answering("start") \/ db.batch # Nil
                    \/ sweep.current /\ ~sweep.revealed /\ sweep.timer

Accounted(s) ==
  /\ s.completed + s.inflight + Len(s.queue) = s.total
  /\ s.inflight = Cardinality(s.asked)
  /\ ~s.done => s.inflight > 0
  /\ s.done => s.revealed /\ s.buffer = <<>>

\* A sweep, or a status refresh, neither loses a server nor counts one twice,
\* whatever lists replace the one it goes through and however late the answers
\* of older sweeps come; until it is done a query is under way that will
\* continue it, and then the list is shown with every answer
\* (_pump_startup_rest_sweep, _on_startup_rest_future_done,
\* _maybe_finish_startup_rest_sweep, _status_refresh_attempt_finished).
SweepsAccount ==
  /\ sweep.current => Accounted(sweep)
  /\ refresh.current => Accounted(refresh)

\* A row of a list goes offline only by an answer that follows an unanswered
\* query about that row of that same list, whichever of the five kinds of
\* queries the two came from (_apply_live_results, _load_rows_into_store).
OfflineNeedsTwoFailures ==
  [][db'.loads = db.loads =>
       \A k \in rows.list : k \in rows.online /\ k \notin rows'.online
                            => k \in rows.missed \/ rows'.list = {}]_listVars

Outstanding(kind) == {i \in DOMAIN cat.jobs : cat.jobs[i].kind = kind}

\* Every flag that keeps a second job from being started has a job that will
\* lower it, whatever lists, drags and failures come in between: no update is
\* refused and nothing stops being refreshed for good, unless an update's list
\* loaded at once raises, which the model leaves out
\* (_server_db_update_inflight, _browser_live_inflight, the three inflight flags
\* of the catalogue).
FlagsHaveTheirJobs ==
  /\ db.inflight <=> (db.fetch # "none" \/ db.answer # Nil \/ db.batch # Nil)
  /\ live.inflight <=> live.job # Nil
  /\ cat.refreshing <=> Outstanding("refresh") # {}
  /\ cat.migrating <=> Outstanding("migrate") # {}
  /\ cat.restoring <=> \E i \in Outstanding("restore") : cat.jobs[i].gen = cat.gen

\* The catalogue follows the list.  One in use is the one on disk, in the
\* present format, or will be written by a migration or a refresh that is still
\* due; a file is only replaced by one made of the list in the window (a
\* migration rewrites the catalogue in memory), never by the job of an older one
\* (_on_deferred_suggestion_restore_done, _on_mod_suggestion_migration_done,
\* _on_mod_suggestion_refresh_done, _on_server_mod_cache_write_done).
CatalogueFollowsList ==
  /\ [](cat.ready => \/ cat.migrate \/ cat.expired
                     \/ cat.disk.format = 2 /\ cat.disk.list = cat.index)
  /\ [][/\ cat'.disk # cat.disk => /\ cat'.disk.list = cat'.index
                                   /\ cat'.disk.list = rows'.list \/ cat'.index = cat.index
        /\ cat'.persisted # cat.persisted => cat'.persisted = rows'.list]_listVars

=============================================================================
