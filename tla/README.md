# DayZ Linux Launcher: TLA+ models and proofs

The launcher (`src/dzll_launcher/`, Python and GTK) finds DayZ servers, prepares the Workshop
mods a server requires through a helper process that talks to Steam's UGC interface, starts the
game, watches the server it was started for and learns when that server restarts. This directory
holds TLA+ modules of its concurrent core, the TLC configurations that check them, and proofs
checked by TLAPS. All paths below are relative to `src/dzll_launcher/` unless they begin with
`src/`.

## 1. The system

### 1.1 Who runs

* **the GTK thread**: every click handler, GLib timer and idle callback, one at a time, each to
  its end;
* **worker threads**: one per background request, per Join attempt, per operation of the mods
  manager, a pool for queries, one for the catalogue of mods. They reach the GTK thread only by
  posting idle callbacks;
* **helper processes**: a Python process per UGC session, which owns the SteamAPI for its life
  and speaks JSON lines with the launcher;
* **Steam, its client and DayZ**: outside the repository, seen through their effects.

### 1.2 Components

For each: the state it keeps, what is done to it, whom it talks to, what is hard, and what
makes it correct. `PROJECT.json` "components" has the same list with a status.

**Preparation gate** (`background_prepare.py` 114-242). State: a generation counter, the active
lease, the reap failure that poisons the gate. Operations: `try_acquire`, `release`,
`mark_reap_failure`, `block_reap_failure`, `try_recover_reap_failure`, the last one in two
critical sections with a process check between them. Callers: background workers, Joins,
repairs, the recovery timer, shutdown. Hard: a helper that could not be reaped outlives its
operation; recovery polls race with new operations. Correct when living helpers never overlap,
poison is lifted only for a dead process, and a gate whose lost helper exits becomes usable.

**Background preparation queue** (`background_prepare_queue.py`). State: the deque, the active
request, one row per server, the open batch with its results, the last report, an epoch and
four mode flags, under one lock. Operations: enqueue, retry, attach, progress, terminal,
finish, block, unblock, cancel, cancel while blocked, clear, shutdown. Hard: calls of workers
whose requests were cancelled or replaced arrive whenever they like; batches are closed on
seven paths. Correct when requests run one at a time and in order, none is lost, none is
reported twice, results are final, and a closed queue dispatches nothing.

**Single-server preparation** (`background_prepare.py` 245-415). State: a cancel request flag,
a lease, a cancel event. `run()` on a worker, `cancel()` on GTK. Hard: the cancel races with
the lease, the event and the end of the run.

**Window handlers** (`window.py`). Download, retry, cancel and close buttons, worker returns,
the recovery timer, the idle that starts it, Joins, shutdown. Hard: a handler decides on a
snapshot and acts in a second locked call; callbacks are delivered after the state they were
made for has gone. Correct when every dispatch is started or dropped on purpose, every accepted
cancel ends, and a blocked queue is always watched by a timer or a callback that will arm one.

**Preparation events and reducers** (`preparation_contracts.py`, `preparation_presentation.py`,
`background_prepare_browser.py`, `join_popup_presentation.py`, `steam_monotonic_progress.py`).
Progress events fold into what the window shows. Hard: stale and duplicate events. Correct when
fractions never go back within an item, a terminal outcome is never replaced, and an old
attempt's event changes nothing. Not modelled.

**Join attempts** (`join_attempt.py`, `window.py` 1902-2000, 11405-11720, 11860-12290,
13479-13640). A tracker that admits one attempt; a cancel event that is an attribute of the
window and is replaced whenever an attempt begins or is cleaned up; the lease of each attempt; a
worker; a watcher thread per launch. Operations: Join, the consent dialog, Cancel (once: stop;
twice: abandon), the worker's end, the launch, the watcher's reports and its own cleanup, quit.
Hard: abandoned attempts whose workers run on; late callbacks; the event replaced by a watcher
thread under a new attempt. Correct when a lease is held exactly while it is needed, a cancelled
attempt is not launched, and attempts end.

**Required mods and repair** (`join_prepare.py`, `steam_ugc_backend.py` 2445-2660 and
3930-4330, the commands of `steam_ugc_helper.py`). Looks at the required items, subscribes what
is missing, has Steam download, validates, and undoes its own subscriptions when it is cancelled
or fails; a repair unsubscribes, scrubs and subscribes again. Hard: Steam carries calls out after
accepting them, its user acts between any two, and a cancel may come at every step. Correct when
what is reported ready is, nothing is left behind, and only its own subscriptions are undone.

**UGC session** (`steam_ugc_backend.py`) and **UGC helper** (`steam_ugc_helper.py`). A parent
that writes commands and a child that answers with events; a command is active until its result;
cancellation is a second line that the helper notices between steps; ending is orderly, or by
terminate, kill and reap, or unconfirmed. Hard: late acknowledgements, a helper that dies or
does not die, results racing with cancels. Correct when an event is attributed to the command it
belongs to, the parent never believes a living helper dead, and shutdown ends.

**Destructive cleanup** (`steam_ugc_backend.py` 2144-3900): unsubscribing, removing an item's
content, links and downloads from every Steam library, and its records from Steam's ACF
manifests with a backup. Hard: a crash or a failing call between any two of a dozen removals,
Steam rewriting its manifest meanwhile, a clock that is set back. Correct when what counts as
deleted is gone, a rewritten manifest can be put back, and no subscribed item loses its files.

**Mods manager** (`mods_ui.py`, the part of `settings_ui.py` that opens and recovers it): what
it believes of Steam, an inventory, one operation at a time with a check, a question, a worker
and a callback. Hard: Steam is closed, restarted or replaced by a Flatpak at any moment; reads
and answers arrive for a state that has gone. Correct when no operation rests on an inventory of
another Steam session, and nothing is deleted whose authority was withdrawn.

**Server companion** (`window.py` 3997-4900): polls the joined server, two strikes make it
offline, a recovery is confirmed two seconds later, alerts on up to three paths; feeds the
restart learner. Hard: results of earlier servers and generations; a flag that stays up. Correct
when the polling always has a way on, the learner hears what is polled, alerts are given once.

**Companion restart learning** (`companion_restart_phase2_*.py`): a detector turns answers into
episodes and restarts; a scorer and the authority turn restarts into a schedule with gates, an
incumbent and challengers; consumers show countdowns; the runtime and its storage keep it all in
a schema-4 file with a last good copy, through migrations and recoveries. Hard: crashes between
file operations, several servers sharing a write, contradictory evidence. Correct when nothing
saved is lost, an alert is delivered once, and no countdown contradicts newer evidence.

**Companion learning transfer** (`companion_learning_transfer.py`): the user stages a learning
file, the next start applies it file by file, or rolls it back.

**Server list** (`window.py` 5400-9100): the database is fetched at start and on request, rows are
built in batches, a sweep queries every server, a watchdog shows cached rows, and four more kinds
of queries write the same rows. **Metadata, names and suggestions** (`mod_suggestion_cache.py`,
`server_mod_cache.py`, `mod_metadata_cache.py`): a catalogue of the mods of the list, kept in a
file, migrated and refreshed by a worker. Hard: answers for a list that has been replaced, flags
and a dimmer raised and lowered in many places. Correct when what is waiting is always served, no
server is lost or counted twice, and only what belongs to the present list is published.

**Storage and settings, workshop paths and native calls, process integration, user interface,
vendored code** (A2S, Discord): input, output and layout; not modelled.

### 1.3 Interaction

    GTK handlers --enqueue/retry/cancel/shutdown--> queue --dispatch--> GTK: start request
    worker run() --lease--> gate;  --helper--> UGC session --JSON lines--> UGC helper --> Steam
    worker       --finish/blocked--> queue;  --idle callback--> GTK: worker returned
    recovery timer --try_recover--> gate;  --clear block--> queue --dispatch--> GTK
    Join, repair --lease--> gate;  both, and the queue's worker --> required mods --> UGC session
    Join: GTK --submit--> pool: join_prepare_and_launch --continuation--> GTK --> Steam
          GTK --thread--> watcher --cleanup / failure callback--> tracker, window
    Join --sets the monitored server--> companion --answers--> detector --restarts--> runtime
    runtime --staged and forced writes--> schema-4 file;  --evidence--> scorer, authority
    authority --decision--> consumers --countdown--> companion
    mods manager --check, inventory--> worker;  --unsubscribe, delete, repair--> cleanup, session
    database fetch --> rows --> sweep, refreshes --answers--> rows;  rows --> catalogue --> file

## 2. Modules

| module | models | built on |
|---|---|---|
| `HelperExclusion` | the promise of the gate: one helper at a time, poison until it died | |
| `PreparationGate` | the gate and the operations, polls and processes around it | implements `HelperExclusion` |
| `BackgroundQueue` | the queue's state and one action per method | |
| `PreparationQueue` | the queue under every sequence of calls | `BackgroundQueue` |
| `BackgroundPreparation` | queue, gate, workers and GTK handlers interleaved | `BackgroundQueue`, `PreparationGate` |
| `UGCHelper` | the helper process: start, commands, control messages, shutdown, failures | |
| `UGCSession` | the launcher's session object, its reader thread, two closers and the recovery | `UGCHelper` |
| `JoinAttempt` | foreground Joins from click to game | |
| `RequiredMods` | preparing and repairing items through Steam | |
| `WorkshopCleanup` | deleting items and their manifest records, with and without Steam | |
| `Workshop` | the two together | `WorkshopCleanup`, `RequiredMods` |
| `ModsManager` | the mods manager's beliefs, inventory and operations | |
| `EpisodeEngine` | the detector of the restart learner, as a value | |
| `ServerCompanion` | polling, recovery, alerts and the learner's sessions | `EpisodeEngine` |
| `LearningStore` | the learner's files, memory, migration and import | |
| `RestartAuthority` | schedules: evidence, gates, incumbent, decision and countdown | |
| `LiveStatus` | rows, answers, sweeps as operators | |
| `ModCatalogue` | the catalogue of mods and its worker, as operators | |
| `ServerBrowser` | the list from start to refreshes | `LiveStatus`, `ModCatalogue` |
| `PreparationGateProofs` | safety and refinement of the gate | `PreparationGate` |
| `PreparationQueueProofs` | safety of the queue, every request accounted for; one worker at a time, a blocked queue is watched | `PreparationQueue`, `BackgroundPreparation`, `PreparationGateProofs` |
| `UGCSessionProofs` | what the session owns and may say it released; nothing is left over between commands | `UGCSession` |
| `JoinAttemptProofs` | leases and late cancels | `JoinAttempt` |
| `WindowProofs` | the poll flag, the learner's sessions, the alerts; the list, its sweeps, flags, rows and files | `ServerCompanion`, `ServerBrowser` |
| `LearningStoreProofs` | safety of the learner's files; beliefs and countdowns | `LearningStore`, `RestartAuthority` |
| `ModsManagerProofs` | inventories of the session, entitled cleanups | `ModsManager` |
| `WorkshopProofs` | what cleanups delete and can undo, what preparations report and leave behind | `Workshop` |

`HelperExclusion` keeps a state, a ticket and whether a helper lives. `PreparationGate` maps to
it with the `state` property of the class, the generation counter and the set of living helpers.

`BackgroundQueue` has one action per method of the class; a method holds the lock throughout, so
an action is the whole method. `Promotion` is `_promote_locked`, given the fields its caller has
just written; `Finalize` is `_finalize_batch_locked`; `ClearedRecords` is
`_clear_completed_locked`. `records[s] = None` stands for a missing key. The frozen server
snapshot, display names, error texts and phases are left out: no property reads them.
A request is named by its number, and every call can be made with any request ever accepted,
which is how late callbacks are modelled.

`BackgroundPreparation` splits a handler wherever another thread can come in between two of its
locked calls: `main.at` is the place the GTK thread stands at, `job[n].step` that of the worker
of request n. The engine (`prepare_required_mods`) is reduced to: it may start a helper, reaps
it, and ends with an outcome, or loses it. Consent is the answer of a dialog. A Join and a
repair are reduced to their lease and the flag `_join_attempts.active`.

`UGCHelper` and `UGCSession` model the two ends of the pipes. `commands` is stdin together with
the helper's own reader queue, `pipe` is stdout, `queue` the launcher's `_stdout_q`, which
`ReadLine` fills. A JSON line is a record of its type, request id and `ok`. `helper.at` is where
`command_session` stands; `call` holds the locals of `run_command`, `shut` those of
`_close_session`, `closer[c]` how far thread c is with `close()`, `ses` the object's fields. A
wait with a timeout is one step per way it can end; a timeout needs the fault "deadline". A
scenario of `Scenarios`, a set of faults that may happen, is chosen once. Left out: messages
other than shutdown sent before `session_ready` (the launcher sends none), malformed and partial
lines, exceptions of the caller's `on_event`, errors closing the read pipes, the stderr reader,
commands of more than one item.

`JoinAttempt` numbers cancel events in the order they are made, so that `event`, the window's
`_join_preparation_cancel_event`, is the latest and `signalled` the set of those that are set.
A GTK handler is one step, save that it waits for the consent dialog in a nested main loop
(`consent`). `worker[a].event` is the event the worker of attempt a took when the pool started
it, `calls` the idle callbacks that name an attempt, `watch` the flag `_discord_watch_active`
with the watcher that raised it. `Cleanup` is `_cleanup_join_attempt` on the GTK thread; a
watcher runs it on its own thread, so its two halves are two steps, `WatcherCleansTracker` and
`WatcherCleansWindow`. `late` and `launched` are history: attempts whose Cancel was clicked after
their worker had started, and attempts handed to Steam. Left out: the popup's states and the
download counter, the pending state (last played, used mods, companion) the watcher consumes,
Discord, the Steam recovery of the settings window, a watcher thread that cannot be started.

`RequiredMods` keeps, per item, what Steam has (`hollow` is installed for Steam with the folder
gone), the last accepted call Steam has yet to carry out, and `prep`, the locals of the one
operation that runs. The protocol is `UGCSession`'s; here a command is its effects, and a session
may die in any of them (then there is no refresh and no undo). Left out: the choice between
configured and detected directories (`join_prepare.py` 60-123), progress events, the cancelling
of plain state queries. `WorkshopCleanup` keeps one job and the files, links, ACFs and backups of
every library; an ACF is its set of records, Steam may rewrite its own between two steps. Path
safety and the text format are left out. `Workshop` composes the two by turns: a behaviour is of
one side, because the window starts one only when the other has ended.

`ModsManager` has `ui` for the attributes of the overlay and `op` for the operations, each a
sequence of stages. Generation counters are reduced to the question asked of them, whether one
was raised since a worker started (`stale`, "outdated"). A probe looks at Steam when it starts;
opening merges the entry check with the idle that opens; the account has one subscribed item that
is not modelled; the gate is the own repair or a refusal. Left out: notices while DayZ runs,
"Unsubscribe all", reminders, the Workshop page, a failing /proc scan; of the recovery worker
only "warned", "reset" and the hand-over.

`EpisodeEngine` is a value; `Ingest` gives the values an answer may lead to, with player counts
and times as choices. So it is a choice when a drain expires, loses its coverage (it is forgotten,
an outage needs it only for its weight), lasts too long or collapses again after an interruption
(an unclear event, `UnclearDrain`), when a query-visible episode is given up (`ContinuityBroken`,
`TickExpires`), and when the grace of a recovery passes; one that bounces is one whose grace
passes later. `ServerCompanion` has one action per handler, timer and query result; `queries` holds
the queries under way with the generation or candidate they were submitted for. `learning` is
chosen at the start: that the learner loses its persistence in the middle of a session, and with
it its sessions, is left out (`LearningStore` has it). `heard`, of an alert, is asked only of
confirmed and held recoveries: what the learner announces by itself, a finalized or a
query-visible event, is not compared with what the server answered.

`LearningStore` gives every replacement or removal of a file a step of its own, atomic on disk,
with a crash or a failing call between any two. A document is its version, whether its root is
valid, its quarantined servers, how much was learned of each server and whose alert it records.
The end of a session is one write here, with everything that ends with it; the code may write
twice, when it ingests the closing sample (`companion_restart_phase2_runtime.py:823`) and for the
server as a whole (835), and a failure or crash between these two is left out.

`RestartAuthority` runs on a discrete clock whose tick is the shortest period; confirmed restarts
fall exactly on ticks and have full quality, `weak` are the probable query-visible ones, `gaps`
the ticks the server was not watched. `Relationships`, `H2`, `H3` and the gates are computed from
the events; `Phase` is the scorer's phase of a period, and what the scorer finds trustworthy and
selects is a choice (its confidences are numbers). Left out: the scorer's own regime boundary for
skipped multiples, multiples with more than one gap, retraction of misses (all events of a tick
are known at once), the wording PATTERN_ONLY, and ageing: the code looks at the last 16 restarts
within seven days (`companion_restart_phase2_scoring.py:1454`) and keeps the last 80 records,
here all evidence counts for good, and nothing is claimed of evidence that is dropped. A
normal-origin incumbent's context strength is 0 or 1, ties between equally ranked classes are
arbitrary as hash ids are, and `Enough` is smaller than the 4 to 6 of the code.

`LiveStatus` and `ModCatalogue` are operators on records, `ServerBrowser` holds the state and has
one action per callback, timer and click. `on`, chosen at the start, names the activities beside
the update and its sweep. Left out: retry delays, shutdown, filters, sorting and scrolling
positions, the "needs repair" mark of the cache; the leaked flush timers are harmless (a timer is
a non-empty buffer). Also left out: an exception of a load at once (section 5); an executor that
refuses a job (`window.py` 5710, 5770, 7920, 8335), which happens when it has been shut down; and
that the first sweep warms up at most 500 servers and up to another percentage than later ones
(7699-7711): the model has one percentage, and no property depends on it.

## 3. Runs

| run | question | bounds |
|---|---|---|
| `gate` | do helpers ever overlap, is poison lifted too early or for ever kept, does the gate implement `HelperExclusion` | 3 owners, 2 concurrent polls, 3 leases |
| `queue` | does any sequence of calls lose, reorder, duplicate or resurrect a request | 2 servers, 5 requests |
| `background` | do the threads keep one worker per request and a watched block | 2 servers, 2 requests, 3 leases, a Join and a repair |
| `background_liveness` | does every dispatch, cancel and waiting request come to an end | 2 servers, 2 requests, 2 leases |
| `ugc_session` | does the session own what it says, reap what it leaves, keep its channel clean, and do commands and closers end | 3 request ids; no fault, timers that run out, or raising Steam calls with a dying helper and resisting directories |
| `join` | does a lease serve its worker, does a late Cancel prevent the launch, do attempts end | 3 attempts |
| `server_companion` | does a flag stick, does a stale result count, is an outage announced unheard or twice | 2 servers, 2 generations, 2 outages, 1 event |
| `learning_store` | is anything saved lost, repeated, exposed too early, and does the learner start after every crash | 2 servers, 1 thing to learn of each, 1 failing call or damaged file, 1 import, 2 of monitored servers and imports together |
| `workshop` | what is deleted, reported ready, undone | 2 items, 2 libraries, 2 backups kept, 1 step of the clock, 2 cleanups, 1 step of Steam, 1 fault |
| `mods_manager` | does an operation rest on a stale inventory or a withdrawn authority | 1 mod, 1 operation, 2 outside changes |
| `server_browser` | does the list get stuck, lose servers, or mix lists | 2 servers, 1 query worker, lists of both and of either, 1 update, 1 query without generation, 5 sets of activities |
| `restart_authority` | can a countdown contradict newer evidence, can a belief go back on itself | periods of 1 and 2 ticks, 8 ticks, 1 probable restart, 1 unwatched tick |

*Bounds.* Three leases let a poll that read the first failure meet a second operation and a
second failure. Five requests over two servers fill a batch, fail it, retry it with a duplicate
and leave late callbacks of three earlier requests. `MaxRequests` and `MaxGeneration` cap the
counters in the guards of the actions that hand them out; nothing else depends on them, and the
proofs do without a bound (`MaxRequests` is any natural number there). Three request ids are a
command, its cancellation and shutdown. A command reserves all three (`CallBegin`), so TLC's
sessions run one command each; that nothing of a command is left over for the next one is what
`QuietBetweenCommands` says, and it is proved for any number of commands. Three attempts are the
one whose watcher is late, the one it disturbs and one that begins after both. In
`server_companion` two generations are enough for a stale result to meet a new poll, two outages
for an alert held back to meet the next one. In `learning_store` one fault and any number of
crashes is a failure during the recovery of another. In `workshop` two jobs are a deletion and
the one that finds its remains. One operation in `mods_manager` suffices because the flags admit
one at a time; two changes of Steam are a restart. In `server_browser` the flush is full at 2,
one server is popular and the warm-up ends at 60 percent, so that every rule of the warm-up is
met. In `restart_authority` `Enough = 3` intervals within eight ticks earn a schedule of one
tick, contradict it by another of two and establish that one; all decision states and all
combinations of wording and countdown occur, "temporarily suspended" excepted, which the code
cannot reach. Eight ticks are too few for beliefs to go in a circle; `BeliefsMoveForward` over
longer times and other periods is left to its proof. Likewise the five kinds of queries that
write rows share one run by pairs only, and `OfflineNeedsTwoFailures` is proved for all five at
once.

*Deadlock* is not checked: the program may stop (shutdown), and a bounded model stops when its
counters are spent.

*Fairness.* GLib runs every posted callback, armed timer and unfinished handler; the thread pool
runs every submitted worker to its end, because the engine's waits have timeouts. User clicks
get no fairness. `OrphanExits` (the lost helper finally exits) is an assumption about Steam and
is used by `GateRecovers` and `EveryRequestEnds` alone. `EveryRequestEnds` speaks of a request
that owns its row, and of the cancelling of one that is still to return: what happens otherwise
are the first two defects of section 5. In `UGCSession` the
reader thread, a command that has begun (its waits have deadlines) and each thread in `close()`
are fair; the helper, the signals' effect and the user are not, so `NothingHangs` holds with a
helper that hangs. In `JoinAttempt` workers, callbacks and watchers are fair: the preparation's
waits have timeouts, a watcher waits 120 seconds, or 30 minutes with the launcher open, and GLib
runs what is posted. `AttemptEnds` makes two exceptions, stated in the formula: a dialog nobody
answers and a launch without a watcher. The later modules state "will end" as an invariant that
names the callback, timer or worker that will end it (`PollFlagIsRight`, `BlockedQueueIsWatched`,
`StaleIsBeingRead`, `ListWillBeShown`, `FlagsHaveTheirJobs`): the code's flags are right exactly
when such a job exists, and the counterexample of a wrong one is a state.

## 4. Proofs

All theorems hold for every value of the constants that satisfies the named assumptions of the
modules: any servers, owners, request ids, polls, attempts, and no bound on how many there are.

`PreparationGateProofs` proves `NoOverlap`, `PoisonHoldsTheGate`, `HeldLeaseOwns`,
`PoisonLiftedOnlyWhenDead` and that the gate implements `HelperExclusion`. The inductive
invariant `GateInv` adds what the properties lack: a kept lease is its keeper's own
(`HelpersAreLeased`), a lost helper is the recorded failure (`OrphanIsTheFailure`), generations
are never reused (`GenerationsAreSpent`), and the failure a poll read before it left the lock is
either the one still recorded or one that can never be the active lease again (`PollsAreOfPast`).
The last part is what makes the second critical section of `try_recover_reap_failure` safe:
comparing the lease it read with the one it finds is enough only because leases are unique.

`PreparationQueueProofs` proves, of any order of calls, `SerialReservation`,
`OutstandingIsCurrent`, `BlockedIsQuiet`, `NoDispatchWhenClosed`, `EveryRequestIsAccountedFor`
and `FinishedStaysFinished`. Three inductive invariants, each resting on the one before:

* `QueueInv`: a cancelling or closed queue is empty, every waiting request has a row (promotion
  reads it), reports are finite (a retry sorts them). It is split into `Shape`, which a promotion
  rewrites, and `Frame`, the rest. `PromotionKeepsShape` is used by the five calls that promote,
  and `RetryNumbers` shows that the numbers a retry hands out grow along the merged list.
* `AccountInv`: a report and an open batch exclude each other (`OneBatchAtATime`); entries are
  told apart from each other and from what is outstanding (`EntriesAreDistinct`); a row belongs
  to the newest outstanding request of its server (`RowsHaveOwners`). It holds until the application
  quits, when the queue forgets. That a request is neither lost nor reported twice is then set
  arithmetic, one lemma per call; `PromotionLosesNone` says what a promotion moves.
* `RowInv /\ BatchInv`: the row of an outstanding request is open and no older than it, rows are
  numbered no higher than the last request, and nothing is left in a batch that is not open.
  `FinishedStaysFinished` follows because a late call names a request that is no longer
  outstanding, so that what it may touch is at most a row that is not finished.

The second half of the module is about `BackgroundPreparation`, the system that composes the
queue with the gate, the workers and the GTK thread, and proves `WorkerServesActive` and
`BlockedQueueIsWatched`. Its invariant takes over those of its parts: every step of the system is
a step of the queue that keeps `QueueInv` (`Moves` says what such a step may make of the active
and the waiting requests), and a step of the gate or none (`GateFollows`; `GateInv` is the gate's
theorem, instantiated with one poll, the timer's). Added to them are

* `TicketsAreSpent`: a dispatch on its way to the GTK thread, in a worker's return or in the
  handler that starts it, is the only one of its request, has left the deque and has no
  controller yet, so that it is started once (`WorkerHasItsRequest` then follows for whoever was
  started: it has the active request and its controller);
* `NewsIsInOnePlace`: the news of a lost helper is with the worker that marked it, in its return,
  in the callback that arms the timer, or with the timer, and only the timer's own recovery lifts
  the poison before the program ends. A gate that could be recovered behind the timer's back, or
  a second failure while the first is pending, would leave a blocked queue for ever.

`UGCSessionProofs` proves `ReleasedMeansGone`, `ErrorMeansReaped` and `ShutdownIsLast`. `IInv`
consists of the types, the ids that what has begun may still need (`IdsLeft`: a command reserves
one for its cancellation and one for shutdown), the state before the helper (`NothingYet`), the
exclusion of commands and shutdown (`OneAtATime`), what `released` stands for
(`ReleasedOwnsNothing`), when a directory may count as clean (`CleanMeansRemoved`) and what
closers were told and the next will be told (`OutcomesHold`). `ShutdownIsLast` needs in addition
that an open session has not said it yet (`NotSaid`).

The second half of the module proves `QuietBetweenCommands`. What matters is the
`Line`, everything the helper has said and the launcher has not read, whichever of the two
buffers it is in. While a command runs, `Conversation` says whose words may be on it: ids are
ours (`IdsAreOurs`, `CommandsAreOurs`), every event carries the id of the command or of its
cancellation (`LineIsOurs`), a command the helper has not read has not been answered
(`UnreadIsSilent`), what it serves is the command (`ServedIsOurs`), a result is the last thing
said of it (`ResultIsLast`) and a cancellation is acknowledged at most once (`AckIsOne`).
Otherwise `Rest`: nothing is left on the line but what the helper says on nobody's behalf. Both
are claimed only of an open session that has not met a fatal error; after one nothing is read.

The third part proves `HealthyCloseIsClean` with `HealthyInv`, the course of a session without
faults. Nobody has complained of anything (`NoTrouble`). Until the session is closed the helper
serves and does not end (`Serves`); what it says before the first command ends with
`session_ready` (`StartingUp`), and of a command the acceptance comes first and once
(`AcceptedFirst`), so every event is one its reader expects at that moment
(`AnswerIsExpected`). When it is told to shut down it reads just that (`Parting`), and
`session_shutdown_complete` is the last thing on the line before its end (`PartingWords`): a
closer that finds the process dead before it has heard the completion still finds it in the
queue, in front of `eof`, once the reader has ended. That is what the last drain relies on
(`LeavingIsHealthy`); without it, or if the completion could come after `eof`, `close()` would
report an error. The property needs the other two parts: that the helper is at rest when it is
told to shut down is `Rest`, and that a closed session nobody is shutting down has no process is
`OutcomesHold`.

`JoinAttemptProofs` proves `LeaseServesItsWorker` and `LateCancelPreventsLaunch`. The second is
far from inductive. A Cancel is seen through two events, the one the worker took and the
window's, and a cancel that sets the window's event is lost if that event is replaced before the
launch and was not the worker's. `JoinInv` says why this cannot happen to a late Cancel: only a
watcher in the middle of its cleanup still replaces the event; there is one at most, because the
flag admits one (`OneWatcher`); while one is there, the active attempt's worker, if it has
started, took the very event that is about to be replaced (`EventIsTheWorkers`); so a late Cancel
is recorded in one of the two events until the attempt ends or is launched (`LateIsSeen`).
`EventsAreCounted` bounds the events by two per attempt, which the type invariant needs. Each
part has a lemma with one step per action that writes what the part reads; the other actions
leave those variables unchanged, and one step says so.

`WindowProofs` proves all three properties of the companion, `PollFlagIsRight`,
`LearnerListens` and `AlertsAreHeardOnce`. All turn on the generation. `PollInvariant`: of all queries under way at most one still counts, a poll of the
present generation or the confirmation of the present candidate (`OneCounts`); the flag is up
while one does (`FlagIsUp`) and, the exception of section 5 ("stranded") aside, only then
(`FlagComesDown`); a candidate waits for its timer or for such a confirmation (`CandidateEnds`).
`LearnInvariant`: the learner's sessions are at most the one of the present stay. Whatever ends
a stay raises the generation, so nothing that was out before can count again.

`AlertInvariant` rests on these two. `ViewFits` ties what the server has answered to the strikes
and the offline state that are shown, so that a confirmation that is healthy can only follow two
recent failures and a healthy candidate; `QueriesFit` says that a query that counts asks the
monitored server and that no other poll is out while a candidate waits; `EngineFits` that the
learner observes an event only in an open session and that its id has been handed out. What was
given and what is held is `Fits`: an event that was announced has a key, whatever period was
selected then, which is all that `_generic_recovery_decision` looks for; if it is the event still
under way, the announcement was for an outage that is over when the server is offline again; and
the event and outage of a held alert have not been announced yet. An answer goes through the
alerts in five stages, `OnFailure`, `OnRecovery`, `OnHealthy`, `OnRepopulation` and `OnFinalized`,
each with a lemma that it keeps `Fits`. What the stages need of the learner is proved of
`EpisodeEngine` first: an answer opens at most one event, with the id it was given, keeps the id
of the one under way and finalizes no other (`IngestMoves`).

Its second half proves all five properties of the server list. `BrowserInv` has four parts.

* `RowsPart`: a row with a failure counted against it has missed a query, whichever of the five
  kinds reported it (`RowsInv`), for `OfflineNeedsTwoFailures`; and `SweepInv`: of a sweep the
  servers answered, under way and queued add up to its total and no server is in two of these
  places, a sweep that is not done has a query under way, and one that has not shown its list has
  a timer that will, for `SweepsAccount`.
* `UpdatePart`, for `ListWillBeShown`: an update is a fetch, its answer or a batch of rows, one at
  a time; the dimmer is up only for one of these or a sweep that has not shown its list; until the
  first list is shown the watchdog, a batch or a sweep is there to show it.
* `LivePart`: a live query that is marked as under way is, and one is put off only by a drag.
* `CatPart`, for `FlagsHaveTheirJobs` and `CatalogueFollowsList`: a job of the catalogue that still
  counts is the only one of its kind and what it will publish was made of the present list; a flag
  is up just while its job is there; what was published is on disk or about to be saved; and while
  a batch is built nothing of the catalogue is under way (`Quiet`).

Most lemmas are about one operator of `LiveStatus` or `ModCatalogue` each, what it keeps and what
it submits; the handlers of the list only compose them.

What the operators that sort a list or go through it server by server compute needs induction,
and the library's induction theorems cannot be instantiated (they take an operator). It is had
from well-foundedness: the library proves that finite sets are well-founded
under strict inclusion, so a non-empty set of natural numbers has a least element (`LeastNatural`,
by the intervals 1..n), and a set of numbers that has 0 and the successor of each of its members
has them all (`InductiveSet`); both are about sets.

`LearningStoreProofs` proves all four properties of the store, `NothingSavedIsLost`,
`DeliveredAtMostOnce`, `LearnedIsDurable` and `CrashesAreHarmless`, for any number of crashes,
failing calls, imports and servers. What holds whatever is damaged is `TypeOK`, `PlaceInv` (the
file a step is about exists, a memory exists just while the learner runs) and `HarmlessInv`
(without a fault no start is on a way that ends with the learner off). Until the database is
damaged, `Safe` holds as well: no file a start uses is invalid or has a quarantined server
(`FilesAreFine`); a step that may replace the database by one that covers nothing comes only when
everything saved is in a copy (`SavedIsSomewhere`); the document in memory covers the one the
backend believes to be on disk, and that belief is right unless persistence is disabled
(`MemoryInv`); what of a server is neither open nor dirty is in the document, and so is what the
job of a flush is about (`SessionInv`); what shutdown has been through is in the document
(`QuitInv`); an alert that was given is recorded in the database and in memory, and one that is
about to be given was not (`AlertInv`). `Covers` is a preorder (`CoversItself`, `CoversOn`), and
leaving out a copy that a newer one covers loses nothing (`WithCovers`). A step of a start keeps
the memory parts because there is no memory; a step of the running learner keeps the file parts
because it leaves the files to the writer; only the writer touches both.

`ModsManagerProofs` proves all three properties of its component: `VerifiedInventoryIsCurrent`,
`StaleIsBeingRead` and `CleanupsAreEntitled`. The handlers are functions of the overlay, and the
first half of the module has one lemma per function, saying what it keeps: nearly all are
`Derived` (they give no authority, add no callback and never verify an old inventory), most of
these `Plain` (they leave the session, the read and the probe alone). `UiInv` adds to the first
two properties how recovery, hand-over and probes fit together (`Sound`): while a Flatpak Steam
is recovered from, the manager is hidden and no probe is out that could still tell anything, so
what a finished hand-over brings is still fresh when the manager comes back. `OpInv` says that
authority is held only by a cleanup that has not been answered, that callbacks belong to
operations that wait for a refresh, that a cleanup whose authority was withdrawn has none left and
does not delete, and (`Sane`) that since its click every mod the account lacks is in the
history, so that what its check found safe stays entitled. `GtkMoves` and `WorldMoves` reduce a
step of the GTK thread and one of a worker or Steam to what they do to one operation.

`WorkshopProofs` proves all six properties of `Workshop`. A behaviour of `Workshop` is one of the
cleanups and one of the preparations (`WorkshopIsCleanup`, `WorkshopIsPreparation`), so each half
has an invariant of its own.

* `CleanupInv`, for `OnlyUnsubscribedLoseFiles`, `DeletedMeansGone` and `CleanupsAreRecoverable`.
  What is being deleted was found unsubscribed, or is in a fresh snapshot (`Entitled`). How far a
  deletion has come is stated by position: the paths before the next one are gone, the ACFs before
  the present one are free of the item (`Progress`), unless Steam or its user touched it since.
  What a rewrite replaced is in a complete backup, and while one is written it is the newest
  (`BackupInv`); that pruning keeps it rests on `PruneKeepsSequences`, which says that `Without`
  keeps exactly the entries it was not told to drop. A failure, a retained item or a stopped Steam
  has somebody to blame (`BlameInv`).
* `PrepInv` (in `RequiredMods`, so that TLC can check it), for `OnlyOursAreUndone`, `ReadyIsReady`
  and `NothingIsLeftBehind`. Candidates for undoing are ours (`OursInv`). What the last validation
  saw stays, save what changed since (`ReadyInv`). For the third, an item is `Owed` when its
  subscription would be left behind, and then it is `Known`: among the tried while the command
  runs, in the result or the handoff when it has ended, in the list that is being undone, or in
  the handoff of a cancelled operation whose session is being closed (`OwedInv`). Each step hands
  the debt on, and no place after the clean-up has one. It needs that before the first undoing
  nothing is asked to unsubscribe and that what is unsubscribed is absent (`QuietInv`): otherwise
  a request could land on an item whose copy the folder check takes for its own.

Its second half proves both properties of `RestartAuthority`, `CountdownIsHonest` and
`BeliefsMoveForward`, for any periods, evidence and readings of the scorer. The key is that two
gates are one: a streak resolves every divisor that a gate of two asks about, because each of
its intervals has a midpoint at least per divisor (`PairResolves`, `Quotient`), so a class has a
gate of two or more exactly when it has a streak (`StreakMeansGate`). Hence, until something is
believed, no class has a streak but one that ends with a restart not read yet (`NoStreakYet`), and
the first schedule that is established is established by the newest evidence there is. Once
there is an incumbent, a countdown for it means that no challenger has a gate, and a schedule that
replaces it is a challenger with three intervals, newer than the incumbent's establishment. The
classes are compared by measures that are bounded (`HighestOf`), so the best of a set is one of
the set. The attempt to prove these two found that as first stated both were wrong for longer
behaviours than TLC had seen (section 5, "Schedules"); they now say what the code does.

Every inductive invariant was checked by TLC as an invariant of the component's run before it
was proved. The type invariants are parts of these inductive invariants and have no run of their
own. Proved but in no run, because the runs check what follows from more: `NoOverlap`,
`PoisonHoldsTheGate`, `HeldLeaseOwns`, `SerialReservation`, `OutstandingIsCurrent`,
`BlockedIsQuiet`, `NoDispatchWhenClosed`.

Only model-checked:

* all liveness, `GateRecovers`, `EveryRequestEnds`, `NothingHangs` and `AttemptEnds`: it needs
  ENABLED and the rules of fairness, which the installed provers do not apply.

## 5. Defects and known limits

What the models show the code to do, although it should not. No property forbids these; where
one comes near, its formula names the exception.

*Background preparation*

* A server may fail twice in one batch; `enqueue_retry_batch` (`background_prepare_queue.py:326`)
  queues both entries, the second row overwrites the first, the first request's return is
  refused, and the queue stops.
* The action button decides on a snapshot (`window.py:13345`); when the block arrives before its
  second call, `cancel_all` starts a cancel nobody ends.
* `run` publishes its lease (`background_prepare.py:312`) and clears the cancel event after it
  (318): a `cancel()` in between returns True and is wiped out (`ClearEvent`).

*UGC session*

* An abandoned command's own id is quarantined, the id of its cancellation is not: the helper's
  late acknowledgement makes a clean shutdown report an unexpected event and send SIGTERM
  (`steam_ugc_backend.py:608`).
* When SteamUGC cannot be loaded the helper says `shutdown_complete` before its error, and
  `_wait_until_ready` reports the first (`steam_ugc_backend.py:800`).
* A helper that dies after `session_starting` was written and before the launcher read it leaves
  a temporary directory the released session never hears of.

*Joins*

* The worker takes the window's cancel event when the pool starts it (`join_prepare.py:948`).
  Two clicks on Cancel before that leave a fresh event there: the preparation of the abandoned
  attempt runs to its end with the gate taken. Its continuation is stale, nothing is launched.
* A launch while the previous watcher has not lowered `_discord_watch_active` starts no watcher
  (`window.py:11895`, 11943): its attempt stays active, with an insensitive Cancel button, until
  the launcher quits. The comment at 12164, a watcher "must not block a later Join watcher",
  holds only once the flag is down.

*Required mods and cleanup*

* A one-shot helper of a repair that cannot be reaped raises `UGCHelperReapError`, which
  `run_ugc_install` swallows (`steam_ugc_backend.py:4305`), while `repair_ugc_item` (2479) and
  `src/tests/test_mod_manager_repair.py:143` expect to see it.
* A subscription Steam has accepted and not carried out when a cleanup looks is missed and lands
  later (excused in `NothingIsLeftBehind`); a failed repair leaves its item unsubscribed; "ready"
  is reported despite a cancel that comes after the last validation.
* Steam's own write of a manifest between `read_bytes` and `os.replace` (3447-3467) is lost,
  against the docstring at 3495; a crash in the middle of a backup leaves one that the retention
  counts, against "completed" at 3158.

*Server companion and restart learning*

* `set_server_companion_server` (`window.py:4671`) raises the generation without lowering
  `_server_companion_poll_inflight`; the answer is dropped at 4864 before it lowers the flag, and
  the new server is not polled until the page is hidden, paused or cleared, although
  `server_companion_ui.py:13` says "Join a server to begin monitoring".
* The query-visible alert is given a second time when the selected period changes, because its
  key includes it (runtime 960-975); "Server back online" may be said of a server that is
  offline again.
* Once an incumbent's kept id differs from its candidate's new id, `harmonic_blockers`
  (`companion_restart_phase2_authority_consumers.py:759`) finds no candidate, and a countdown is
  shown where an unresolved harmonic should block it (restarts at ticks 1, 3, 5, 7).
* Schedules: whether shorter periods are resolved is asked of a period, not of a class
  (`companion_restart_phase2_authority.py` 1439-1474), so an interval of one phase can complete
  the gate of an older streak of another phase. With periods of 2, 3 and 4 ticks and restarts at
  1, 4, 7, 10, 12, 16, 20, 24, 27, 30 and 34 it supersedes, with a countdown, although a class
  of period 3 has newer evidence; the next reading corrects it. Likewise a reading without any new
  evidence may supersede, because it counts misses of windows that were not looked at before.
* Storage: a transient `OSError` is treated as damage and the last good copy replaces a good file
  (schema-4 runtime 858-872); a crash between two staged replacements of an import leaves a pair
  that is reported at every start; after an import the last good copy is still the database of
  before; a quarantined monitored server stops saving; an import cannot repair a damaged database;
  a rollback refuses a backup with quarantined servers; an error after the unlink in
  `ConsumeMeta` loses the import. A second launcher and the writer lock are not modelled.

*Mods manager*

* `_on_repair_clicked` (`mods_ui.py` 2305-2313) clears the running flag of another operation
  (`RepairRefused`).
* After a batch unsubscription (4160-4234) the running flag waits for a refresh whose callback is
  lost when it is restarted (1934-1945) or the page hidden (1899-1917); later operations are
  refused although 993-995 says "check Steam is online and try again". In the same way
  `block_for_flatpak` (836-845) and a notice that replaces an open dialog (596-608) leave
  `_mod_operation_pending` up, and `reset_for_steam_recovery` lowers "running" under a worker.
* An item subscribed while the confirmation is open loses its files; an outdated refresh still
  changes what is believed of Steam (1934-1937).

*Server list*

* An update's list that is loaded at once is loaded without a net: if `_apply_db_rows` raised, a
  manual update (`window.py` 5752-5754) would leave dimmer and in-flight flag up, and the start
  (5611-5657) would lower the flag and leave the dimmer up. Building a row guards its data, and no
  data was found that makes it raise. The model has no such exception: `ListWillBeShown` and
  `FlagsHaveTheirJobs` hold as long as none occurs.
* A click on Update that is refused after the watchdog has shown cached rows leaves the dimmer up
  when the fetch of the start then fails ("nudged" in `ListWillBeShown`); a sweep's end lowers it
  while a second manual update is still fetching.
* Each successful update adds one more 300 s recheck timer that never ends (`window.py:6052`).
* Answers of rechecks and refreshes carry no list token and count against rows of a newer list;
  two failed queries of one outage that run concurrently count as two consecutive failures;
  a catalogue whose save fails in a synchronous load is not saved again.

## 6. Plan

Proved is what the provers reach: every invariant of every run, and the action properties; what is
left is liveness, and it stays with TLC.

Next models: the filters and sorting of the server list (`VisibleList`); preparation events and
their reducers (fractions within an item, the terminal latch); the recovery worker of
`settings_ui.py` 462-699; the pending state of a Join and the popup's latches; an abstract
session that `UGCSession` is shown to implement; settings and atomic files.

Not modelled, and not planned: GTK widgets, styles and layout; the scorer's numeric confidences,
which are arithmetic without state; A2S, Discord and other vendored or external code; native
Steam calls, modelled by their effects where they are used.
