----------------------------- MODULE JoinAttempt -----------------------------
(***************************************************************************)
(* A foreground Join from click to game: the tracker that admits one       *)
(* attempt (join_attempt.py), the handlers of the GTK thread (window.py),  *)
(* the worker that prepares the mods (join_prepare.py) and the thread that *)
(* watches for DayZ after the launch.                                      *)
(*                                                                         *)
(* The cancel event is an attribute of the window, replaced by a fresh one *)
(* when an attempt begins and when it is cleaned up.  Events are numbered  *)
(* in the order they are made, so the window's is always the latest.       *)
(*                                                                         *)
(* A handler of the GTK thread is one step, except that it waits for the   *)
(* consent dialog in a nested main loop.  The watcher cleans its attempt   *)
(* up on its own thread, in the steps of _cleanup_join_attempt.            *)
(***************************************************************************)
EXTENDS Integers

CONSTANT MaxAttempts   \* bound: attempts the user begins

ASSUME AttemptsAssumption == MaxAttempts \in Nat

Attempts == 1..MaxAttempts
NoAttempt == 0

VARIABLES
  begun,       \* the last attempt id the tracker gave out
  active,      \* the tracker's active attempt, or NoAttempt
  phase,       \* the active attempt's phase
  event,       \* the window's _join_preparation_cancel_event
  signalled,   \* the events that are set
  safeCancel,  \* _steam_client_safe_cancel_requested
  consent,     \* the attempt that waits for the user in the Steam consent loop
  gate,        \* the preparation gate and the attempt whose lease it is
  worker,      \* worker[a]: the thread that prepares attempt a
  calls,       \* idle callbacks posted to the GTK thread
  watcher,     \* watcher[a]: the thread that watches for attempt a's game
  watch,       \* _discord_watch_active and the watcher that raised it
  closed,      \* the window has shut down, the tracker with it
  launched,    \* history: attempts handed to Steam
  cancelled,   \* history: attempts whose Cancel was clicked
  late         \* history: ... when their worker had taken its event

trackerVars == <<begun, active, phase>>
cancelVars == <<event, signalled, safeCancel>>
history == <<launched, cancelled, late>>
vars == <<trackerVars, cancelVars, consent, gate, worker, calls, watcher,
          watch, closed, history>>

WorkerSteps == {"none", "queued", "preparing", "continuing", "posted", "done"}
WatcherSteps == {"none", "starting", "waiting", "launcher", "found",
                 "cleared", "leaving", "gone", "refused"}
Kinds == {"continuation", "exception", "watcher failure"}
Gates == [state: {"idle", "join", "other", "poisoned"},
          attempt: Attempts \cup {NoAttempt}]

MaxEvent == 2 * MaxAttempts   \* one when an attempt begins, one when it ends

TypeOK ==
  /\ begun \in 0..MaxAttempts /\ active \in 0..begun
  /\ phase \in {"preparing", "watching"}
  /\ event \in 0..MaxEvent /\ signalled \subseteq 0..event
  /\ safeCancel \in BOOLEAN /\ consent \in 0..begun
  /\ gate \in Gates
  /\ worker \in [Attempts -> [step: WorkerSteps, event: 0..MaxEvent, ok: BOOLEAN]]
  /\ calls \subseteq [kind: Kinds, attempt: Attempts]
  /\ watcher \in [Attempts -> WatcherSteps]
  /\ watch \in [up: BOOLEAN, by: 0..MaxAttempts]
  /\ closed \in BOOLEAN
  /\ launched \subseteq Attempts /\ cancelled \subseteq Attempts /\ late \subseteq cancelled

Idle == [state |-> "idle", attempt |-> NoAttempt]
LeasedTo(a) == [state |-> "join", attempt |-> a]

Init ==
  /\ begun = 0 /\ active = NoAttempt /\ phase = "preparing"
  /\ event = 0 /\ signalled = {} /\ safeCancel = FALSE
  /\ consent = NoAttempt /\ gate = Idle
  /\ worker = [a \in Attempts |-> [step |-> "none", event |-> 0, ok |-> FALSE]]
  /\ calls = {} /\ watcher = [a \in Attempts |-> "none"]
  /\ watch = [up |-> FALSE, by |-> NoAttempt]
  /\ closed = FALSE /\ launched = {} /\ cancelled = {} /\ late = {}

-----------------------------------------------------------------------------
(* _cleanup_join_attempt of the active attempt on the GTK thread; of any
   other attempt it does nothing.                                         *)
Cleanup ==
  /\ active' = NoAttempt /\ UNCHANGED begun /\ phase' = "preparing"
  /\ event' = event + 1 /\ safeCancel' = FALSE

(* The same on a watcher's thread: first the tracker, then the window. *)
ReplaceEvent == event' = event + 1 /\ safeCancel' = FALSE /\ UNCHANGED signalled

OnlyGtk == UNCHANGED <<calls, watcher, watch, closed, launched>>

-----------------------------------------------------------------------------
(* _join_server_for_obj: one attempt, one lease, one fresh event; then the
   dialog if Steam has to be started, and the worker.                     *)
Submit(a) == worker' = [worker EXCEPT ![a].step = "queued"]

(* Mutation: an abandoned attempt's worker does not count. *)
AttemptActive == active # NoAttempt

SharedBusy == active # NoAttempt \/ gate.state # "idle"

Join ==
  /\ ~closed /\ ~SharedBusy
  /\ begun < MaxAttempts /\ begun' = begun + 1
  /\ active' = begun' /\ phase' = "preparing" /\ gate' = LeasedTo(begun')
  /\ event' = event + 1
  /\ \/ Submit(begun') /\ UNCHANGED consent
     \/ consent' = begun' /\ UNCHANGED worker
  /\ UNCHANGED <<signalled, safeCancel, cancelled, late>> /\ OnlyGtk

(* Steam cannot be started, the server's mods cannot be read or the pool
   refuses the worker: the attempt ends in the handler.                   *)
JoinFails ==
  /\ ~closed /\ ~SharedBusy
  /\ begun < MaxAttempts /\ begun' = begun + 1
  /\ event' = event + 2 /\ safeCancel' = FALSE /\ phase' = "preparing"
  /\ UNCHANGED <<active, gate, signalled, consent, worker, cancelled, late>> /\ OnlyGtk

ConsentGiven ==
  /\ consent # NoAttempt /\ Submit(consent)
  /\ consent' = NoAttempt
  /\ UNCHANGED <<trackerVars, cancelVars, gate, cancelled, late>> /\ OnlyGtk

(* Refused, or the handler fails after the consent. *)
ConsentRefused ==
  /\ consent # NoAttempt /\ consent' = NoAttempt
  /\ Cleanup /\ gate' = Idle
  /\ UNCHANGED <<signalled, worker, cancelled, late>> /\ OnlyGtk

-----------------------------------------------------------------------------
(* The Cancel button; after the launch it is insensitive. *)
Cancellable == ~closed /\ active # NoAttempt /\ phase = "preparing"

SetEvent == signalled' = signalled \cup {event}

Noted ==
  /\ cancelled' = cancelled \cup {active}
  /\ late' = IF worker[active].step \in {"none", "queued"} THEN late
             ELSE late \cup {active}

(* The first click asks the worker to stop ... *)
CancelClicked ==
  /\ Cancellable /\ ~safeCancel /\ consent = NoAttempt
  /\ SetEvent /\ safeCancel' = TRUE /\ Noted
  /\ UNCHANGED <<trackerVars, event, consent, gate, worker>> /\ OnlyGtk

(* ... which ends a consent loop, and the handler inside it ... *)
CancelConsent ==
  /\ Cancellable /\ consent # NoAttempt /\ consent' = NoAttempt
  /\ SetEvent /\ Cleanup /\ gate' = Idle /\ Noted
  /\ UNCHANGED worker /\ OnlyGtk

(* ... the second abandons the attempt: _steam_client_stop_waiting. *)
StopWaiting ==
  /\ Cancellable /\ safeCancel /\ consent = NoAttempt
  /\ SetEvent /\ Cleanup /\ Noted
  /\ UNCHANGED <<consent, gate, worker>> /\ OnlyGtk

(* The popup of an abandoned attempt's download shows again and its Cancel
   finds no attempt.                                                      *)
CancelAbandoned ==
  /\ ~closed /\ active = NoAttempt
  /\ \E a \in Attempts : worker[a].step = "preparing"
  /\ SetEvent /\ safeCancel' = TRUE
  /\ UNCHANGED <<trackerVars, event, consent, gate, worker, cancelled, late>> /\ OnlyGtk

(* A download begins: the idle callbacks that put its popup up. *)
ShowDownload ==
  /\ \E a \in Attempts : worker[a].step = "preparing"
  /\ safeCancel' = FALSE
  /\ UNCHANGED <<trackerVars, event, signalled, consent, gate, worker, cancelled, late>>
  /\ OnlyGtk

-----------------------------------------------------------------------------
(* join_prepare_and_launch on the worker of attempt a. *)
Take(a) == [step |-> "preparing", event |-> event, ok |-> FALSE]

WorkerCancelled(a) == worker[a].event \in signalled \/ active # a

OnlyWorker == UNCHANGED <<trackerVars, cancelVars, consent, watcher, watch, closed, history>>

(* The worker starts when the pool has a thread for it, and takes the event
   the window has by then.                                                *)
WorkerStarts(a) ==
  /\ worker[a].step = "queued"
  /\ worker' = [worker EXCEPT ![a] = Take(a)]
  /\ OnlyWorker /\ UNCHANGED <<gate, calls>>

(* prepare_required_mods ends well, fails or notices the event. *)
Prepared(a) ==
  /\ worker[a].step = "preparing"
  /\ \E ok \in BOOLEAN :
       worker' = [worker EXCEPT ![a].step = "continuing", ![a].ok = ok]
  /\ OnlyWorker /\ UNCHANGED <<gate, calls>>

(* Links and launcher state are written, unless they cannot be or the
   attempt is cancelled; then the continuation is posted.                 *)
PostContinuation(a) ==
  /\ worker[a].step = "continuing"
  /\ \E ok \in BOOLEAN :
       /\ ok => worker[a].ok /\ ~WorkerCancelled(a)
       /\ worker' = [worker EXCEPT ![a].step = "posted", ![a].ok = ok]
  /\ calls' = calls \cup {[kind |-> "continuation", attempt |-> a]}
  /\ OnlyWorker /\ UNCHANGED gate

(* _join_worker_future_done: the lease is released or, if the helper could
   not be reaped, handed to the gate's recovery.                          *)
WorkerReturns(a) ==
  /\ worker[a].step = "posted"
  /\ worker' = [worker EXCEPT ![a].step = "done"] /\ gate' = Idle
  /\ OnlyWorker /\ UNCHANGED calls

(* Mutation: nobody observes the exception. *)
WorkerRaisesSilently(a) ==
  /\ worker[a].step = "preparing"
  /\ worker' = [worker EXCEPT ![a].step = "done"] /\ gate' = Idle
  /\ OnlyWorker /\ UNCHANGED calls

WorkerRaises(a) ==
  /\ worker[a].step = "preparing"
  /\ worker' = [worker EXCEPT ![a].step = "done"]
  /\ gate' \in {Idle, [state |-> "poisoned", attempt |-> NoAttempt]}
  /\ calls' = calls \cup {[kind |-> "exception", attempt |-> a]}
  /\ OnlyWorker

-----------------------------------------------------------------------------
(* Idle callbacks on the GTK thread.  A late one finds its attempt gone. *)
Called(kind, a) ==
  /\ [kind |-> kind, attempt |-> a] \in calls
  /\ calls' = calls \ {[kind |-> kind, attempt |-> a]}

AfterCalls == UNCHANGED <<signalled, consent, gate, worker, closed, cancelled, late>>

Stale(a) == active # a

CallStale(kind, a) ==
  /\ Called(kind, a) /\ Stale(a)
  /\ AfterCalls /\ UNCHANGED <<trackerVars, event, safeCancel, watcher, watch, launched>>

(* Mutation: the boundary trusts the check of the worker's event. *)
PastBoundary(a) == TRUE

(* after() in join_prepare_and_launch: the attempt's own event is looked at
   again, and the window's at the launch boundary; a launch that cannot be
   submitted ends the attempt too.                                        *)
AtBoundary(a) == event \notin signalled

Launchable(a) == worker[a].ok /\ ~WorkerCancelled(a) /\ AtBoundary(a)

ContinuationFails(a) ==
  /\ Called("continuation", a) /\ ~Stale(a)
  /\ Cleanup
  /\ AfterCalls /\ UNCHANGED <<watcher, watch, launched>>

(* _start_dayz_session_watch starts a watcher unless the flag is up. *)
Launch(a) ==
  /\ Called("continuation", a) /\ ~Stale(a) /\ Launchable(a)
  /\ launched' = launched \cup {a} /\ phase' = "watching"
  /\ watcher' = [watcher EXCEPT ![a] = IF watch.up THEN "refused" ELSE "starting"]
  /\ AfterCalls /\ UNCHANGED <<begun, active, event, safeCancel, watch>>

(* _handle_join_worker_exception and _join_popup_watcher_failure *)
AttemptFails(kind, a) ==
  /\ kind # "continuation" /\ Called(kind, a) /\ ~Stale(a)
  /\ Cleanup
  /\ AfterCalls /\ UNCHANGED <<watcher, watch, launched>>

-----------------------------------------------------------------------------
(* _watch_dayz_session_until_exit on the watcher of attempt a, until it has
   found the game or given up.                                            *)
OnlyWatcher == UNCHANGED <<begun, phase, signalled, consent, gate, worker, closed, history>>
WatcherGoes(a, step) == watcher' = [watcher EXCEPT ![a] = step]
KeepsWindow == UNCHANGED <<active, event, safeCancel>>

WatcherStarts(a) ==
  /\ watcher[a] = "starting"
  /\ IF Stale(a) THEN WatcherGoes(a, "gone") /\ UNCHANGED watch
     ELSE IF watch.up THEN WatcherGoes(a, "refused") /\ UNCHANGED watch
     ELSE WatcherGoes(a, "waiting") /\ watch' = [up |-> TRUE, by |-> a]
  /\ OnlyWatcher /\ KeepsWindow /\ UNCHANGED calls

(* With the launcher enabled its process is waited for first. *)
SeesProcess(a) ==
  /\ watcher[a] \in {"waiting", "launcher"} /\ ~Stale(a)
  /\ \E seen \in {"launcher", "found"} \ {watcher[a]} : WatcherGoes(a, seen)
  /\ OnlyWatcher /\ KeepsWindow /\ UNCHANGED <<calls, watch>>

(* The game does not come in time: the GTK thread is told. *)
WatcherTimesOut(a) ==
  /\ watcher[a] \in {"waiting", "launcher"} /\ ~Stale(a)
  /\ WatcherGoes(a, "leaving")
  /\ calls' = calls \cup {[kind |-> "watcher failure", attempt |-> a]}
  /\ OnlyWatcher /\ KeepsWindow /\ UNCHANGED watch

(* The game runs, or the launcher is gone without it: the watcher's own
   cleanup of the attempt.                                                *)
WatcherCleansTracker(a) ==
  /\ watcher[a] \in {"found", "launcher"} /\ ~Stale(a)
  /\ active' = NoAttempt /\ WatcherGoes(a, "cleared")
  /\ UNCHANGED <<event, safeCancel>> /\ OnlyWatcher /\ UNCHANGED <<calls, watch>>

WatcherCleansWindow(a) ==
  /\ watcher[a] = "cleared" /\ ReplaceEvent
  /\ WatcherGoes(a, "leaving")
  /\ OnlyWatcher /\ UNCHANGED <<active, calls, watch>>

WatcherGivesUp(a) ==
  /\ watcher[a] \in {"waiting", "launcher", "found"} /\ Stale(a)
  /\ WatcherGoes(a, "leaving")
  /\ OnlyWatcher /\ KeepsWindow /\ UNCHANGED <<calls, watch>>

(* The flag is lowered by the watcher that raised it. *)
WatcherLeaves(a) ==
  /\ watcher[a] = "leaving" /\ WatcherGoes(a, "gone")
  /\ watch' = IF watch.by = a THEN [watch EXCEPT !.up = FALSE] ELSE watch
  /\ OnlyWatcher /\ KeepsWindow /\ UNCHANGED calls

-----------------------------------------------------------------------------
(* Background preparation and repairs use the gate; a lost helper exits. *)
OtherTakes ==
  /\ ~closed /\ gate = Idle
  /\ gate' = [state |-> "other", attempt |-> NoAttempt]
  /\ UNCHANGED <<trackerVars, cancelVars, consent, worker, calls, watcher, watch, closed, history>>

OtherEnds ==
  /\ gate.state \in {"other", "poisoned"} /\ gate' = Idle
  /\ UNCHANGED <<trackerVars, cancelVars, consent, worker, calls, watcher, watch, closed, history>>

(* _shutdown_cleanup: the consent loop ends, the tracker closes, the event
   is set and a worker still in the pool's queue is dropped.              *)
Dropped(a) == worker[a].step = "queued"

Quit ==
  /\ ~closed /\ closed' = TRUE
  /\ active' = NoAttempt /\ phase' = "preparing" /\ consent' = NoAttempt
  /\ SetEvent
  /\ worker' = [a \in Attempts |-> IF Dropped(a) THEN [worker[a] EXCEPT !.step = "done"]
                                   ELSE worker[a]]
  /\ gate' = IF consent # NoAttempt \/ \E a \in Attempts : Dropped(a) THEN Idle ELSE gate
  /\ UNCHANGED <<begun, event, safeCancel, calls, watcher, watch, history>>

-----------------------------------------------------------------------------
UserStep ==
  \/ Join \/ JoinFails \/ ConsentGiven \/ ConsentRefused
  \/ CancelClicked \/ CancelConsent \/ StopWaiting \/ CancelAbandoned \/ Quit

WorkerStep(a) ==
  \/ WorkerStarts(a) \/ Prepared(a) \/ PostContinuation(a)
  \/ WorkerReturns(a) \/ WorkerRaises(a)

Continuation(a) == ContinuationFails(a) \/ Launch(a)

CallStep(a) ==
  \/ Continuation(a)
  \/ \E kind \in Kinds : CallStale(kind, a) \/ AttemptFails(kind, a)

WatcherStep(a) ==
  \/ WatcherStarts(a) \/ SeesProcess(a) \/ WatcherTimesOut(a)
  \/ WatcherCleansTracker(a) \/ WatcherCleansWindow(a)
  \/ WatcherGivesUp(a) \/ WatcherLeaves(a)

Next ==
  \/ UserStep \/ ShowDownload \/ OtherTakes \/ OtherEnds
  \/ \E a \in Attempts : WorkerStep(a) \/ CallStep(a) \/ WatcherStep(a)

Spec == Init /\ [][Next]_vars

(* Threads run on, their waits have timeouts, the pool gets round to a
   queued worker and GLib runs every callback posted.  Nobody makes the
   user click.                                                            *)
Fairness ==
  \A a \in Attempts :
    /\ WF_vars(WorkerStep(a)) /\ WF_vars(CallStep(a)) /\ WF_vars(WatcherStep(a))

FairSpec == Spec /\ Fairness

-----------------------------------------------------------------------------
Serving == {"queued", "preparing", "continuing", "posted"}

(* A Join's lease is held exactly as long as its handler waits for consent
   or its worker runs, whatever became of the attempt meanwhile: never by
   an abandoned attempt without a worker, never taken from under a worker
   by the clean-up of its own or another attempt, by a failure or by quit. *)
LeaseServesItsWorker ==
  \A a \in Attempts :
    gate = LeasedTo(a) <=> consent = a \/ worker[a].step \in Serving

(* A Cancel clicked once the worker has taken its event prevents the
   launch, even when the watcher of the previous attempt puts a fresh event
   into the window before or after the click.                             *)
LateCancelPreventsLaunch == late \cap launched = {}

(* An attempt ends unless the user leaves the consent dialog open or the
   flag of an earlier watcher keeps its own from starting.                *)
AttemptEnds ==
  \A a \in Attempts :
    active = a ~> active # a \/ consent = a \/ watcher[a] = "refused"

=============================================================================
