------------------------ MODULE BackgroundPreparation ------------------------
(***************************************************************************)
(* Background preparation as the window runs it: the queue, the gate, one  *)
(* worker thread per dispatched request (SingleServerBackgroundPreparation *)
(* and the window's worker()), and the GTK thread that handles clicks, the *)
(* workers' idle callbacks, the recovery timer and the end of the program. *)
(* A foreground Join and a mod repair contend for the same gate.           *)
(*                                                                         *)
(* A handler of the GTK thread that makes several locked calls takes       *)
(* several steps (main.at says where it is); worker steps come in between. *)
(***************************************************************************)
EXTENDS BackgroundQueue

CONSTANTS Others,         \* other owners of the gate: foreground_join, mod_repair
          MaxGeneration   \* bound: leases the gate hands out

Owners == {"background"} \cup Others
Jobs == 1..MaxRequests

VARIABLES generation, lease, reapFailure, held, running, orphans, poll,
          job,         \* job[n]: the worker of request n
          controller,  \* controller[n]: the state cancel() and run() share
          main,        \* the handler the GTK thread is in
          returns,     \* idle callbacks of workers that finished, oldest first
          source,      \* generation the recovery timer watches, 0 without a timer
          startPoll,   \* an idle callback that starts the recovery timer is queued
          joinActive   \* _join_attempts.active is not None

Gate == INSTANCE PreparationGate WITH active <- lease, Pollers <- {"main"}

ASSUME LeaseAssumption == MaxGeneration \in Nat /\ None \notin Gate!Lease

leaseVars == <<generation, lease, reapFailure, held, running, orphans, poll>>
timerVars == <<source, startPoll>>
workerVars == <<job, controller, returns>>
vars == <<queueVars, leaseVars, workerVars, main, timerVars, joinActive>>

JobSteps == {"none", "submitted", "leased", "published", "consent", "engine",
             "unreaped", "cleanup", "return", "return_blocked", "done"}
MainSteps == {"idle", "start", "action", "cancel_blocked", "close", "signal",
              "set_event", "recover", "resume", "quit_recover", "closed"}

WorkersTypeOK ==
  /\ job \in [Jobs -> [step: JobSteps, request: Request \cup {None},
                       lease: Gate!Lease \cup {None}, outcome: Outcomes,
                       cancelRead: BOOLEAN]]
  /\ controller \in [Jobs -> [requested: BOOLEAN, event: BOOLEAN]]
  /\ main \in [at: MainSteps, request: Request \cup {None}]
  /\ returns \in Seq([dispatch: Request \cup {None}, blocked: BOOLEAN])
  /\ source \in 0..MaxGeneration /\ startPoll \in BOOLEAN
  /\ joinActive \in BOOLEAN

SystemTypeOK == TypeOK /\ Gate!TypeOK /\ WorkersTypeOK

Free == [at |-> "idle", request |-> None]
Handling(step, r) == [at |-> step, request |-> r]

Init ==
  /\ QueueInit /\ Gate!Init
  /\ job = [n \in Jobs |-> [step |-> "none", request |-> None, lease |-> None,
                            outcome |-> "failed", cancelRead |-> FALSE]]
  /\ controller = [n \in Jobs |-> [requested |-> FALSE, event |-> FALSE]]
  /\ main = Free /\ returns = <<>>
  /\ source = 0 /\ startPoll = FALSE /\ joinActive = FALSE

-----------------------------------------------------------------------------
(* The GTK thread starts what a queue transition dispatches. *)
Dispatched == IF active' # None /\ active' # active THEN active' ELSE None
ThenStart(r) == main' = IF r = None THEN Free ELSE Handling("start", r)

OnlyQueue == UNCHANGED <<leaseVars, workerVars, timerVars, joinActive>>

Download(s) ==
  /\ main.at = "idle"
  /\ ~joinActive /\ reapFailure = None
  /\ Enqueue(s)
  /\ ThenStart(Dispatched)
  /\ OnlyQueue

RetryFailed(resolvable) ==
  /\ main.at = "idle"
  /\ Retry(resolvable)
  /\ ThenStart(Dispatched)
  /\ OnlyQueue

(* _background_prepare_start_frozen_request: a dispatch that is no longer
   current is dropped; otherwise a fresh controller is attached and the
   worker submitted.                                                      *)
StartRequest ==
  /\ main.at = "start"
  /\ LET r == main.request
     IN IF IsCurrent(r)
        THEN /\ AttachController(r)
             /\ job' = [job EXCEPT ![r.number].step = "submitted",
                                   ![r.number].request = r]
        ELSE UNCHANGED <<queueVars, job>>
  /\ main' = Free
  /\ UNCHANGED <<leaseVars, controller, returns, timerVars, joinActive>>

(* ... unless setting it up raises: the request fails on the spot. *)
StartRequestFails ==
  /\ main.at = "start"
  /\ IsCurrent(main.request)
  /\ Finish(main.request, "failed")
  /\ ThenStart(Dispatched)
  /\ OnlyQueue

-----------------------------------------------------------------------------
(* SingleServerBackgroundPreparation.run on the worker of request n. *)
OnlyJob == UNCHANGED <<queueVars, main, returns, timerVars, joinActive>>

GateBusy == joinActive \/ lease # None

Acquire(n) ==
  /\ job[n].step = "submitted"
  /\ IF GateBusy
     THEN /\ job' = [job EXCEPT ![n].step = "return", ![n].outcome = "failed"]
          /\ UNCHANGED leaseVars
     ELSE /\ Gate!TryAcquire("background")
          /\ job' = [job EXCEPT ![n].step = "leased", ![n].lease = lease']
  /\ UNCHANGED controller /\ OnlyJob

(* Under _state_lock: cancel() sees the lease from here on. *)
Publish(n) ==
  /\ job[n].step = "leased"
  /\ job' = [job EXCEPT ![n].step = "published",
                        ![n].cancelRead = controller[n].requested]
  /\ UNCHANGED <<leaseVars, controller>> /\ OnlyJob

(* The event is cleared, and set again if a cancel was on record. *)
ClearEvent(n) ==
  /\ job[n].step = "published"
  /\ controller' = [controller EXCEPT ![n].event = job[n].cancelRead]
  /\ job' = IF job[n].cancelRead
            THEN [job EXCEPT ![n].step = "cleanup", ![n].outcome = "cancelled"]
            ELSE [job EXCEPT ![n].step = "consent"]
  /\ UNCHANGED leaseVars /\ OnlyJob

(* The permission to start Steam, asked for on the GTK thread: it cannot be
   given once the event is set; refusals, timeouts and errors can.  A
   server without required mods is done without it.                       *)
Consent(n) ==
  /\ job[n].step = "consent"
  /\ \/ /\ ~controller[n].event
        /\ job' = [job EXCEPT ![n].step = "engine"]
     \/ \E outcome \in {"cancelled", "failed", "no_required_mods"} :
          job' = [job EXCEPT ![n].step = "cleanup", ![n].outcome = outcome]
  /\ UNCHANGED <<leaseVars, controller>> /\ OnlyJob

(* prepare_required_mods starts a helper when there is work for it ... *)
EngineStartsHelper(n) ==
  /\ job[n].step = "engine"
  /\ Gate!StartHelper("background")
  /\ UNCHANGED <<job, controller>> /\ OnlyJob

(* ... and ends with it reaped, or gone, or never started. *)
EngineEnds(n) ==
  /\ job[n].step = "engine"
  /\ \E outcome \in Outcomes :
       /\ outcome = "cancelled" => controller[n].event
       /\ job' = [job EXCEPT ![n].step = "cleanup", ![n].outcome = outcome]
  /\ IF "background" \in running THEN Gate!ReapHelper("background")
     ELSE UNCHANGED leaseVars
  /\ UNCHANGED controller /\ OnlyJob

(* UGCHelperReapError with helper_process_may_be_alive. *)
EngineLosesHelper(n) ==
  /\ job[n].step = "engine"
  /\ "background" \in running
  /\ job' = [job EXCEPT ![n].step = "unreaped", ![n].outcome = "failed"]
  /\ UNCHANGED <<leaseVars, controller>> /\ OnlyJob

MarkUnreaped(n) ==
  /\ job[n].step = "unreaped"
  /\ Gate!MarkReapFailure("background")
  /\ job' = [job EXCEPT ![n].step = "return_blocked"]
  /\ controller' = [controller EXCEPT ![n].event = FALSE]
  /\ OnlyJob

(* The finally block. *)
Cleanup(n) ==
  /\ job[n].step = "cleanup"
  /\ Gate!Release("background")
  /\ job' = [job EXCEPT ![n].step = "return", ![n].lease = None]
  /\ controller' = [controller EXCEPT ![n].event = FALSE]
  /\ OnlyJob

(* Mutation: only a return that dispatches something is posted. *)
PostDispatch(accepted) ==
  returns' = IF accepted /\ Dispatched # None
             THEN Append(returns, [dispatch |-> Dispatched, blocked |-> blocked'])
             ELSE returns

(* The window's worker() reports to the queue, then posts to GTK, where a
   return that the queue refused is ignored: it is left out here.         *)
Post(accepted) ==
  returns' = IF accepted
             THEN Append(returns, [dispatch |-> Dispatched, blocked |-> blocked'])
             ELSE returns

Return(n) ==
  /\ job[n].step = "return"
  /\ IF FinishAccepted(job[n].request)
     THEN Finish(job[n].request, job[n].outcome) /\ Post(TRUE)
     ELSE UNCHANGED queueVars /\ Post(FALSE)
  /\ job' = [job EXCEPT ![n].step = "done"]
  /\ UNCHANGED <<leaseVars, controller, main, timerVars, joinActive>>

ReturnBlocked(n) ==
  /\ job[n].step = "return_blocked"
  /\ IF BlockAccepted(job[n].request)
     THEN FinishBlockedReapFailure(job[n].request) /\ Post(TRUE)
     ELSE UNCHANGED queueVars /\ Post(FALSE)
  /\ job' = [job EXCEPT ![n].step = "done"]
  /\ UNCHANGED <<leaseVars, controller, main, timerVars, joinActive>>

JobStep(n) ==
  \/ Acquire(n) \/ Publish(n) \/ ClearEvent(n) \/ Consent(n)
  \/ EngineStartsHelper(n) \/ EngineEnds(n) \/ EngineLosesHelper(n)
  \/ MarkUnreaped(n) \/ Cleanup(n) \/ Return(n) \/ ReturnBlocked(n)

-----------------------------------------------------------------------------
(* _ensure_preparation_reap_recovery_poll: one timer, for the generation
   the gate is poisoned with.                                             *)
(* Mutation: no timer is armed. *)
EnsureNothing == UNCHANGED source

EnsurePoll ==
  source' = IF reapFailure = None THEN source ELSE reapFailure.generation

(* _background_prepare_worker_returned. *)
WorkerReturned ==
  /\ main.at = "idle" /\ returns # <<>>
  /\ returns' = Tail(returns)
  /\ IF Head(returns).blocked THEN EnsurePoll ELSE UNCHANGED source
  /\ ThenStart(Head(returns).dispatch)
  /\ UNCHANGED <<queueVars, leaseVars, job, controller, startPoll, joinActive>>

(* The action button: what it does depends on a snapshot ... *)
ActionClicked ==
  /\ main.at = "idle"
  /\ main' = Handling(IF blocked THEN IF pending # <<>> THEN "cancel_blocked"
                                                         ELSE "close"
                                 ELSE IF Busy THEN "action" ELSE "close", None)
  /\ UNCHANGED queueVars /\ OnlyQueue

(* ... and is done in a later call, accepted by the queue or not. *)
ActionCancels ==
  /\ main.at = "action"
  /\ IF ~shutdown /\ ~cancelling /\ Busy
     THEN /\ CancelAll
          /\ main' = IF attached THEN Handling("signal", active) ELSE Free
     ELSE UNCHANGED queueVars /\ main' = Free
  /\ OnlyQueue

ActionCancelsBlocked ==
  /\ main.at = "cancel_blocked"
  /\ IF blocked THEN CancelBlockedPending ELSE UNCHANGED queueVars
  /\ main' = Free
  /\ OnlyQueue

ActionCloses ==
  /\ main.at = "close"
  /\ IF ~Busy THEN ClearCompletedBatch ELSE UNCHANGED queueVars
  /\ main' = Free
  /\ OnlyQueue

(* controller.cancel(): without a lease the request is left on record; with
   one it goes to the event.                                              *)
LeasePublished(n) ==
  job[n].step \in {"published", "consent", "engine", "unreaped", "cleanup",
                   "return_blocked"}

AfterSignal == main' = IF shutdown THEN Handling("quit_recover", None) ELSE Free

Signal ==
  /\ main.at = "signal"
  /\ LET n == main.request.number
     IN IF LeasePublished(n)
        THEN /\ main' = [main EXCEPT !.at = "set_event"]
             /\ UNCHANGED controller
        ELSE /\ controller' = [controller EXCEPT ![n].requested = TRUE]
             /\ AfterSignal
  /\ UNCHANGED <<queueVars, leaseVars, job, returns, timerVars, joinActive>>

SetEvent ==
  /\ main.at = "set_event"
  /\ LET n == main.request.number
     IN IF job[n].lease # None /\ lease = job[n].lease
        THEN controller' = [controller EXCEPT ![n].event = TRUE]
        ELSE UNCHANGED controller
  /\ AfterSignal
  /\ UNCHANGED <<queueVars, leaseVars, job, returns, timerVars, joinActive>>

-----------------------------------------------------------------------------
(* The recovery timer: a stale one is dropped or re-armed; one that matches
   asks the gate.                                                         *)
PollTick ==
  /\ main.at = "idle" /\ source # 0
  /\ IF reapFailure = None
     THEN source' = 0 /\ UNCHANGED <<main, leaseVars>>
     ELSE IF reapFailure.generation # source
     THEN source' = reapFailure.generation /\ UNCHANGED <<main, leaseVars>>
     ELSE /\ Gate!RecoverRead("main")
          /\ main' = Handling("recover", None)
          /\ UNCHANGED source
  /\ UNCHANGED <<queueVars, workerVars, startPoll, joinActive>>

Quitting == IF shutdown THEN Handling("closed", None) ELSE Free

RecoverConfirm ==
  /\ main.at = "recover" /\ Gate!RecoverConfirm("main")
  /\ main' = IF poll'["main"].step = "idle" THEN Quitting ELSE main
  /\ UNCHANGED <<queueVars, workerVars, timerVars, joinActive>>

RecoverClear ==
  /\ main.at = "recover" /\ Gate!RecoverClear("main")
  /\ IF reapFailure' # reapFailure
     THEN main' = Handling("resume", None) /\ source' = 0
     ELSE main' = Quitting /\ UNCHANGED source
  /\ UNCHANGED <<queueVars, workerVars, startPoll, joinActive>>

(* The gate recovered: the queue resumes with whatever still waits. *)
Resume ==
  /\ main.at = "resume"
  /\ IF blocked THEN ClearReapBlock ELSE UNCHANGED queueVars
  /\ IF shutdown THEN main' = Quitting ELSE ThenStart(Dispatched)
  /\ OnlyQueue

StartPoll ==
  /\ main.at = "idle" /\ startPoll
  /\ startPoll' = FALSE /\ EnsurePoll
  /\ UNCHANGED <<queueVars, leaseVars, workerVars, main, joinActive>>

(* _shutdown_cleanup: the timer goes, the queue shuts down, the attached
   controller is cancelled, the gate is asked once more.  Callbacks that
   were already posted return without effect.                             *)
Quit ==
  /\ main.at = "idle"
  /\ Shutdown
  /\ source' = 0 /\ startPoll' = FALSE /\ joinActive' = FALSE /\ returns' = <<>>
  /\ main' = IF attached THEN Handling("signal", active)
                         ELSE Handling("quit_recover", None)
  /\ UNCHANGED <<leaseVars, job, controller>>

QuitRecover ==
  /\ main.at = "quit_recover"
  /\ IF reapFailure # None
     THEN Gate!RecoverRead("main") /\ main' = Handling("recover", None)
     ELSE main' = Handling("closed", None) /\ UNCHANGED leaseVars
  /\ UNCHANGED <<queueVars, workerVars, timerVars, joinActive>>

-----------------------------------------------------------------------------
(* The other users of the gate.  A Join looks at the queue before it takes
   the lease, a repair does not.                                          *)
SharedBusy == joinActive \/ lease # None \/ Busy

StartJoin ==
  /\ main.at = "idle" /\ "foreground_join" \in Others
  /\ ~SharedBusy
  /\ Gate!TryAcquire("foreground_join")
  /\ joinActive' = TRUE
  /\ UNCHANGED <<queueVars, workerVars, main, timerVars>>

(* The attempt ends on the GTK thread, before or after its worker. *)
CleanupJoinAttempt ==
  /\ main.at = "idle" /\ joinActive
  /\ joinActive' = FALSE
  /\ UNCHANGED <<queueVars, leaseVars, workerVars, main, timerVars>>

StartRepair ==
  /\ main.at = "idle" /\ "mod_repair" \in Others
  /\ Gate!TryAcquire("mod_repair")
  /\ UNCHANGED <<queueVars, workerVars, main, timerVars, joinActive>>

OtherHelper(o) ==
  /\ Gate!StartHelper(o) \/ Gate!ReapHelper(o)
  /\ UNCHANGED <<queueVars, workerVars, main, timerVars, joinActive>>

(* A Join's lease is settled by its worker's done callback, a repair's on
   the GTK thread; an unreaped helper schedules the recovery timer.       *)
OnRightThread(o) == o = "mod_repair" => main.at = "idle"

OtherReleases(o) ==
  /\ OnRightThread(o) /\ Gate!Release(o)
  /\ UNCHANGED <<queueVars, workerVars, main, timerVars, joinActive>>

OtherLosesHelper(o) ==
  /\ OnRightThread(o) /\ Gate!MarkReapFailure(o)
  /\ startPoll' = ~shutdown
  /\ UNCHANGED <<queueVars, workerVars, main, source, joinActive>>

OrphanExits ==
  /\ Gate!OrphanExits
  /\ UNCHANGED <<queueVars, workerVars, main, timerVars, joinActive>>

-----------------------------------------------------------------------------
UserStep ==
  \/ \E s \in Servers : Download(s)
  \/ \E resolvable \in SUBSET Servers : RetryFailed(resolvable)
  \/ ActionClicked \/ StartJoin \/ StartRepair \/ Quit

MainStep ==
  \/ StartRequest \/ StartRequestFails \/ WorkerReturned
  \/ ActionCancels \/ ActionCancelsBlocked \/ ActionCloses \/ Signal \/ SetEvent
  \/ PollTick \/ RecoverConfirm \/ RecoverClear \/ Resume \/ StartPoll \/ QuitRecover
  \/ CleanupJoinAttempt

OtherStep(o) == OtherHelper(o) \/ OtherReleases(o) \/ OtherLosesHelper(o)

Next ==
  \/ UserStep \/ MainStep \/ OrphanExits
  \/ \E n \in Jobs : JobStep(n)
  \/ \E o \in Others : OtherStep(o)

Spec == Init /\ [][Next]_vars

(* A handler the GTK thread is in runs to its end, a worker thread goes on
   (its waits all have timeouts), and the main loop comes back to every
   source that is ready again and again, whatever the user clicks in
   between.  That an abandoned helper exits is an assumption on Steam.    *)
HandlerStep ==
  \/ StartRequest \/ StartRequestFails
  \/ ActionCancels \/ ActionCancelsBlocked \/ ActionCloses \/ Signal \/ SetEvent
  \/ RecoverConfirm \/ RecoverClear \/ Resume \/ QuitRecover

Fairness ==
  /\ WF_vars(HandlerStep)
  /\ SF_vars(WorkerReturned) /\ SF_vars(PollTick) /\ SF_vars(StartPoll)
  /\ \A n \in Jobs : WF_vars(JobStep(n))
  /\ WF_vars(OrphanExits)

FairSpec == Spec /\ Fairness

-----------------------------------------------------------------------------
(* A worker that has not returned works for the queue's active request, so
   two workers never prepare at the same time: a cancel before the worker
   starts, a dropped dispatch and a shutdown included.                    *)
WorkerServesActive ==
  \A n \in Jobs :
    job[n].step \notin {"none", "done"} => active # None /\ active.number = n

(* A blocked queue is never forgotten: the gate is poisoned and a recovery
   timer watches that very failure or is about to, or the GTK thread is
   just resuming the queue.                                               *)
BlockedQueueIsWatched ==
  blocked /\ ~shutdown =>
    \/ main.at = "resume"
    \/ /\ reapFailure # None
       /\ \/ source = reapFailure.generation
          \/ startPoll
          \/ \E i \in DOMAIN returns : returns[i].blocked

(* The inductive invariants behind the two, proved in PreparationQueueProofs
   beside the queue's and the gate's own.                                 *)

(* The dispatches the GTK thread has still to start: in the handler it is
   in, and in the returns it has not come to.                             *)
Tickets ==
  ((IF main.at = "start" THEN {main.request} ELSE {})
     \cup {returns[i].dispatch : i \in DOMAIN returns}) \ {None}

(* One dispatch is started once: nobody else is about to start it, it has
   left the deque, and until then the active request has no controller.   *)
TicketsAreSpent ==
  /\ main.at = "start" => main.request # None
  /\ \A i, j \in DOMAIN returns :
       returns[i].dispatch # None /\ i # j => returns[i].dispatch # returns[j].dispatch
  /\ \A i \in DOMAIN returns :
       returns[i].dispatch # None /\ main.at = "start"
         => main.request # returns[i].dispatch
  /\ \A r \in Tickets :
       /\ r.number <= nextRequest
       /\ \A i \in DOMAIN pending : pending[i] # r
       /\ r = active => ~attached

(* A worker that has not returned was started with the active request, whose
   controller is attached.                                                *)
WorkerHasItsRequest ==
  \A n \in Jobs : job[n].step \notin {"none", "done"} =>
    active # None /\ attached /\ job[n].request = active /\ active.number = n

BlockedReturns == {i \in DOMAIN returns : returns[i].blocked}

(* The news of a lost helper is in one place at a time: in the worker that
   marked it, in a return, in an idle callback, or with the timer; and the
   recovery that lifts the poison is run by the timer alone.              *)
NewsIsInOnePlace ==
  /\ \A n \in Jobs : job[n].step = "return_blocked" =>
       reapFailure # None /\ source = 0 /\ ~startPoll /\ BlockedReturns = {}
  /\ reapFailure = None => source = 0 /\ ~startPoll /\ BlockedReturns = {}
  /\ source # 0 => ~startPoll /\ BlockedReturns = {}
  /\ startPoll => BlockedReturns = {}
  /\ \A i, j \in BlockedReturns : i = j
  /\ main.at = "recover" => source # 0
  /\ main.at # "quit_recover"

WatchInv == ~shutdown => NewsIsInOnePlace

SystemInv ==
  /\ SystemTypeOK /\ TicketsAreSpent /\ WorkerHasItsRequest
  /\ WatchInv /\ BlockedQueueIsWatched

(* No request waits for ever, a blocked queue's included, and one that is
   dispatched is prepared to its end, whatever happens; cancelling one that
   is still to return ends as well.                                       *)
EveryRequestEnds ==
  /\ \A n \in Jobs :
       LET Waits == \E i \in DOMAIN pending : pending[i].number = n
           IsPrepared == active # None /\ active.number = n /\ Owns(active)
       IN (Waits \/ IsPrepared) ~> (~Waits /\ ~IsPrepared)
  /\ cancelling /\ active # None /\ Owns(active) ~> ~cancelling

=============================================================================
