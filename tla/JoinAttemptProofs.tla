------------------------- MODULE JoinAttemptProofs -------------------------
(***************************************************************************)
(* Safety of JoinAttempt for any number of attempts: the lease of a Join   *)
(* serves its worker, and a late Cancel prevents the launch.               *)
(*                                                                         *)
(* The second is far from inductive.  JoinInv adds who may still replace   *)
(* the window's event: only one watcher at a time, and only if the event   *)
(* is still the one the worker took.                                       *)
(***************************************************************************)
EXTENDS JoinAttempt, TLAPS

(* What has not begun has no thread and no history. *)
NothingAhead ==
  \A a \in Attempts : a > begun =>
    /\ worker[a].step = "none" /\ watcher[a] = "none"
    /\ a \notin launched /\ a \notin late

(* The consent dialog comes before the worker. *)
ConsentFirst ==
  consent # NoAttempt => active = consent /\ worker[consent].step = "none"

(* Callbacks, launch and watcher come after the worker. *)
Returned(a) == worker[a].step \in {"posted", "done"}
ThreadsInOrder ==
  /\ \A call \in calls : Returned(call.attempt)
  /\ \A a \in Attempts : watcher[a] # "none" \/ a \in launched => Returned(a)

(* A launched attempt is past its continuation and its Cancel button. *)
Continuing(a) == [kind |-> "continuation", attempt |-> a] \in calls
LaunchIsFinal == \A a \in launched : ~Continuing(a)
ButtonIsSealed ==
  \A a \in Attempts : active = a => (phase = "watching" <=> a \in launched)

(* The flag belongs to the one watcher that has not left yet. *)
Watching == {"waiting", "launcher", "found", "cleared", "leaving"}
OneWatcher ==
  \A a \in Attempts : watcher[a] \in Watching => watch.up /\ watch.by = a

(* Every event is accounted for: an attempt has one when it begins and one
   more when it has been cleaned up, which its watcher may still have to do. *)
Clearing == \E a \in Attempts : watcher[a] = "cleared"
Owed == (IF active # NoAttempt THEN 1 ELSE 0) + (IF Clearing THEN 1 ELSE 0)
EventsAreCounted == event + Owed =< 2 * begun

(* As long as an older watcher is still to replace the event, the window's
   event is the one the worker took.                                      *)
Taken(a) == worker[a].step \notin {"none", "queued"}
EventIsTheWorkers ==
  Clearing /\ active # NoAttempt /\ Taken(active) => worker[active].event = event

(* A late Cancel can be seen in the worker's event or in the window's. *)
Heard(a) == event \in signalled \/ worker[a].event \in signalled
LateIsSeen ==
  \A a \in late : Taken(a) /\ (active = a /\ phase = "preparing" => Heard(a))

JoinInv ==
  /\ TypeOK /\ NothingAhead /\ ConsentFirst /\ ThreadsInOrder
  /\ LaunchIsFinal /\ ButtonIsSealed /\ OneWatcher /\ EventsAreCounted
  /\ EventIsTheWorkers /\ LateIsSeen
  /\ LeaseServesItsWorker /\ LateCancelPreventsLaunch

-----------------------------------------------------------------------------
(* A window that has just been built. *)
LEMMA JoinInvInit == Init => JoinInv
<1> SUFFICES ASSUME Init PROVE JoinInv
  OBVIOUS
<1> USE AttemptsAssumption DEF Init, Attempts, NoAttempt
<1>1. TypeOK
  <2>1. 0 \in 0..MaxAttempts /\ 0 \in 0..MaxEvent
    BY DEF MaxEvent
  <2>2. worker \in [Attempts -> [step: WorkerSteps, event: 0..MaxEvent, ok: BOOLEAN]]
    BY <2>1 DEF WorkerSteps
  <2>3. gate \in Gates /\ watcher \in [Attempts -> WatcherSteps]
    BY DEF Gates, Idle, WatcherSteps
  <2>4. watch \in [up: BOOLEAN, by: 0..MaxAttempts]
    BY <2>1
  <2>5. /\ begun \in 0..MaxAttempts /\ active \in 0..begun /\ consent \in 0..begun
        /\ event \in 0..MaxEvent /\ signalled \subseteq 0..event
    BY <2>1
  <2>6. QED
    BY <2>2, <2>3, <2>4, <2>5 DEF TypeOK
<1>2. NothingAhead /\ ConsentFirst /\ OneWatcher /\ EventIsTheWorkers
  BY DEF NothingAhead, ConsentFirst, OneWatcher, Watching, EventIsTheWorkers
<1>3. ThreadsInOrder /\ LaunchIsFinal /\ ButtonIsSealed
  BY DEF ThreadsInOrder, LaunchIsFinal, ButtonIsSealed
<1>4. EventsAreCounted
  BY DEF EventsAreCounted, Owed, Clearing
<1>5. LateIsSeen /\ LateCancelPreventsLaunch
  BY DEF LateIsSeen, LateCancelPreventsLaunch
<1>6. LeaseServesItsWorker
  BY DEF LeaseServesItsWorker, Serving, Idle, LeasedTo
<1>7. QED
  BY <1>1, <1>2, <1>3, <1>4, <1>5, <1>6 DEF JoinInv

(* The lease is taken and given back with the handler and the worker. *)
LEMMA LeaseStep ==
  ASSUME TypeOK, NothingAhead, ConsentFirst, LeaseServesItsWorker, [Next]_vars
  PROVE  LeaseServesItsWorker'
<1> USE AttemptsAssumption DEF TypeOK, Attempts, NoAttempt, trackerVars, cancelVars,
        history, NothingAhead, ConsentFirst, LeaseServesItsWorker, Serving, Idle,
        LeasedTo
<1>1. CASE Join
  BY <1>1 DEF Join, SharedBusy, Submit, OnlyGtk
<1>2. CASE ConsentGiven
  BY <1>2 DEF ConsentGiven, Submit, OnlyGtk
<1>3. CASE ConsentRefused
  BY <1>3 DEF ConsentRefused, Cleanup, OnlyGtk
<1>4. CASE CancelConsent
  BY <1>4 DEF CancelConsent, Cancellable, SetEvent, Cleanup, Noted, OnlyGtk
<1>5. CASE Quit
  BY <1>5 DEF Quit, SetEvent, Dropped
<1>6. CASE OtherTakes
  BY <1>6 DEF OtherTakes
<1>7. CASE OtherEnds
  BY <1>7 DEF OtherEnds
<1>8. ASSUME NEW a \in Attempts, WorkerStarts(a) PROVE LeaseServesItsWorker'
  BY <1>8 DEF WorkerStarts, Take, OnlyWorker
<1>9. ASSUME NEW a \in Attempts, Prepared(a) PROVE LeaseServesItsWorker'
  BY <1>9 DEF Prepared, OnlyWorker
<1>10. ASSUME NEW a \in Attempts, PostContinuation(a) PROVE LeaseServesItsWorker'
  BY <1>10 DEF PostContinuation, OnlyWorker
<1>11. ASSUME NEW a \in Attempts, WorkerReturns(a) PROVE LeaseServesItsWorker'
  BY <1>11 DEF WorkerReturns, OnlyWorker
<1>12. ASSUME NEW a \in Attempts, WorkerRaises(a) PROVE LeaseServesItsWorker'
  BY <1>12 DEF WorkerRaises, OnlyWorker
<1>13. CASE UNCHANGED <<gate, consent, worker>>
  BY <1>13
<1>14. QED
  BY <1>1, <1>2, <1>3, <1>4, <1>5, <1>6, <1>7, <1>8, <1>9, <1>10, <1>11, <1>12,
     <1>13 DEF Next, UserStep, WorkerStep, CallStep, Continuation, WatcherStep,
     JoinFails, OnlyGtk, CancelClicked, SetEvent, Noted, StopWaiting, Cleanup,
     CancelAbandoned, ShowDownload, ContinuationFails, AfterCalls, Launch,
     CallStale, AttemptFails, WatcherStarts, WatcherGoes, OnlyWatcher, KeepsWindow,
     SeesProcess, WatcherTimesOut, WatcherCleansTracker, WatcherCleansWindow,
     ReplaceEvent, WatcherGivesUp, WatcherLeaves, trackerVars, cancelVars, history,
     vars

(* Only an attempt that has begun moves. *)
LEMMA AheadStep ==
  ASSUME TypeOK, NothingAhead, ConsentFirst, ThreadsInOrder, [Next]_vars
  PROVE  NothingAhead'
<1> USE AttemptsAssumption DEF TypeOK, Attempts, NoAttempt, trackerVars, cancelVars,
        history, NothingAhead, ConsentFirst, ThreadsInOrder, Returned
<1>1. CASE Join
  <2>1. begun' = begun + 1 /\ begun' \in Attempts /\ UNCHANGED <<watcher, launched, late>>
    BY <1>1 DEF Join, OnlyGtk
  <2>2. ASSUME NEW b \in Attempts, b > begun' PROVE worker'[b] = worker[b]
    BY <1>1, <2>1, <2>2 DEF Join, Submit
  <2>3. QED
    BY <2>1, <2>2
<1>2. CASE JoinFails
  BY <1>2 DEF JoinFails, SharedBusy, OnlyGtk
<1>3. CASE ConsentGiven
  BY <1>3 DEF ConsentGiven, Submit, OnlyGtk
<1>4. CASE CancelClicked
  BY <1>4 DEF CancelClicked, Cancellable, SetEvent, Noted, OnlyGtk
<1>5. CASE CancelConsent
  BY <1>5 DEF CancelConsent, Cancellable, SetEvent, Cleanup, Noted, OnlyGtk
<1>6. CASE StopWaiting
  BY <1>6 DEF StopWaiting, Cancellable, SetEvent, Cleanup, Noted, OnlyGtk
<1>7. CASE Quit
  BY <1>7 DEF Quit, SetEvent, Dropped
<1>8. ASSUME NEW a \in Attempts, WorkerStarts(a) PROVE NothingAhead'
  BY <1>8 DEF WorkerStarts, Take, OnlyWorker
<1>9. ASSUME NEW a \in Attempts, Prepared(a) PROVE NothingAhead'
  BY <1>9 DEF Prepared, OnlyWorker
<1>10. ASSUME NEW a \in Attempts, PostContinuation(a) PROVE NothingAhead'
  BY <1>10 DEF PostContinuation, OnlyWorker
<1>11. ASSUME NEW a \in Attempts, WorkerReturns(a) PROVE NothingAhead'
  BY <1>11 DEF WorkerReturns, OnlyWorker
<1>12. ASSUME NEW a \in Attempts, WorkerRaises(a) PROVE NothingAhead'
  BY <1>12 DEF WorkerRaises, OnlyWorker
<1>13. ASSUME NEW a \in Attempts, Launch(a) PROVE NothingAhead'
  BY <1>13 DEF Launch, Called, Stale, Launchable, WorkerCancelled, AtBoundary,
     AfterCalls
<1>14. ASSUME NEW a \in Attempts, WatcherStarts(a) PROVE NothingAhead'
  BY <1>14 DEF WatcherStarts, WatcherGoes, OnlyWatcher, KeepsWindow
<1>15. ASSUME NEW a \in Attempts, SeesProcess(a) PROVE NothingAhead'
  BY <1>15 DEF SeesProcess, WatcherGoes, OnlyWatcher, KeepsWindow
<1>16. ASSUME NEW a \in Attempts, WatcherTimesOut(a) PROVE NothingAhead'
  BY <1>16 DEF WatcherTimesOut, WatcherGoes, OnlyWatcher, KeepsWindow
<1>17. ASSUME NEW a \in Attempts, WatcherCleansTracker(a) PROVE NothingAhead'
  BY <1>17 DEF WatcherCleansTracker, Stale, WatcherGoes, OnlyWatcher
<1>18. ASSUME NEW a \in Attempts, WatcherCleansWindow(a) PROVE NothingAhead'
  BY <1>18 DEF WatcherCleansWindow, ReplaceEvent, WatcherGoes, OnlyWatcher
<1>19. ASSUME NEW a \in Attempts, WatcherGivesUp(a) PROVE NothingAhead'
  BY <1>19 DEF WatcherGivesUp, WatcherGoes, OnlyWatcher, KeepsWindow
<1>20. ASSUME NEW a \in Attempts, WatcherLeaves(a) PROVE NothingAhead'
  BY <1>20 DEF WatcherLeaves, WatcherGoes, OnlyWatcher, KeepsWindow
<1>21. CASE UNCHANGED <<begun, worker, watcher, launched, late>>
  BY <1>21
<1>22. QED
  BY <1>1, <1>2, <1>3, <1>4, <1>5, <1>6, <1>7, <1>8, <1>9, <1>10, <1>11, <1>12,
     <1>13, <1>14, <1>15, <1>16, <1>17, <1>18, <1>19, <1>20, <1>21 DEF Next,
     UserStep, WorkerStep, CallStep, Continuation, WatcherStep, ConsentRefused,
     Cleanup, OnlyGtk, CancelAbandoned, SetEvent, ShowDownload, OtherTakes,
     OtherEnds, ContinuationFails, AfterCalls, CallStale, AttemptFails, trackerVars,
     cancelVars, history, vars

(* Nothing but its answer, Cancel or quit ends a consent dialog. *)
LEMMA ConsentStep ==
  ASSUME TypeOK, NothingAhead, ConsentFirst, ThreadsInOrder, [Next]_vars
  PROVE  ConsentFirst'
<1> USE AttemptsAssumption DEF TypeOK, Attempts, NoAttempt, trackerVars, cancelVars,
        history, NothingAhead, ConsentFirst, ThreadsInOrder, Returned
<1>1. CASE Join
  BY <1>1 DEF Join, SharedBusy, Submit, OnlyGtk
<1>2. CASE JoinFails
  BY <1>2 DEF JoinFails, SharedBusy, OnlyGtk
<1>3. CASE ConsentGiven
  BY <1>3 DEF ConsentGiven, Submit, OnlyGtk
<1>4. CASE ConsentRefused
  BY <1>4 DEF ConsentRefused, Cleanup, OnlyGtk
<1>5. CASE CancelConsent
  BY <1>5 DEF CancelConsent, Cancellable, SetEvent, Cleanup, Noted, OnlyGtk
<1>6. CASE StopWaiting
  BY <1>6 DEF StopWaiting, Cancellable, SetEvent, Cleanup, Noted, OnlyGtk
<1>7. CASE Quit
  BY <1>7 DEF Quit, SetEvent, Dropped
<1>8. ASSUME NEW a \in Attempts, WorkerStarts(a) PROVE ConsentFirst'
  BY <1>8 DEF WorkerStarts, Take, OnlyWorker
<1>9. ASSUME NEW a \in Attempts, Prepared(a) PROVE ConsentFirst'
  BY <1>9 DEF Prepared, OnlyWorker
<1>10. ASSUME NEW a \in Attempts, PostContinuation(a) PROVE ConsentFirst'
  BY <1>10 DEF PostContinuation, OnlyWorker
<1>11. ASSUME NEW a \in Attempts, WorkerReturns(a) PROVE ConsentFirst'
  BY <1>11 DEF WorkerReturns, OnlyWorker
<1>12. ASSUME NEW a \in Attempts, WorkerRaises(a) PROVE ConsentFirst'
  BY <1>12 DEF WorkerRaises, OnlyWorker
<1>13. ASSUME NEW a \in Attempts, ContinuationFails(a) PROVE ConsentFirst'
  BY <1>13 DEF ContinuationFails, Called, Stale, Cleanup, AfterCalls
<1>14. ASSUME NEW a \in Attempts, NEW kind \in Kinds, AttemptFails(kind, a)
       PROVE  ConsentFirst'
  BY <1>14 DEF AttemptFails, Called, Stale, Cleanup, AfterCalls
<1>15. ASSUME NEW a \in Attempts, WatcherCleansTracker(a) PROVE ConsentFirst'
  BY SMTT(30), <1>15 DEF WatcherCleansTracker, Stale, WatcherGoes, OnlyWatcher
<1>16. CASE UNCHANGED <<consent, active, worker>>
  BY <1>16
<1>17. QED
  BY <1>1, <1>2, <1>3, <1>4, <1>5, <1>6, <1>7, <1>8, <1>9, <1>10, <1>11, <1>12,
     <1>13, <1>14, <1>15, <1>16 DEF Next, UserStep, WorkerStep, CallStep,
     Continuation, WatcherStep, CancelClicked, SetEvent, Noted, OnlyGtk,
     CancelAbandoned, ShowDownload, OtherTakes, OtherEnds, Launch, AfterCalls,
     CallStale, WatcherStarts, WatcherGoes, OnlyWatcher, KeepsWindow, SeesProcess,
     WatcherTimesOut, WatcherCleansWindow, ReplaceEvent, WatcherGivesUp,
     WatcherLeaves, trackerVars, cancelVars, history, vars

(* No step goes before the worker. *)
LEMMA OrderStep ==
  ASSUME TypeOK, NothingAhead, ConsentFirst, ThreadsInOrder, [Next]_vars
  PROVE  ThreadsInOrder'
<1> USE AttemptsAssumption DEF TypeOK, Attempts, NoAttempt, trackerVars, cancelVars,
        history, NothingAhead, ConsentFirst, ThreadsInOrder, Returned
<1>1. CASE Join
  <2>1. begun' = begun + 1 /\ begun' \in Attempts /\ UNCHANGED <<calls, watcher, launched>>
    BY <1>1 DEF Join, OnlyGtk
  <2>2. ~Returned(begun')
    BY <2>1
  <2>3. ASSUME NEW b \in Attempts, Returned(b) PROVE Returned(b)'
    <3>1. b # begun'
      BY <2>2, <2>3
    <3>2. worker'[b] = worker[b]
      BY <1>1, <2>1, <3>1 DEF Join, Submit
    <3>3. QED
      BY <2>3, <3>2
  <2>4. ASSUME NEW call \in calls PROVE call.attempt \in Attempts
    OBVIOUS
  <2>5. QED
    BY <2>1, <2>3, <2>4
<1>2. CASE ConsentGiven
  BY <1>2 DEF ConsentGiven, Submit, OnlyGtk
<1>3. CASE Quit
  BY <1>3 DEF Quit, SetEvent, Dropped
<1>4. ASSUME NEW a \in Attempts, WorkerStarts(a) PROVE ThreadsInOrder'
  BY <1>4 DEF WorkerStarts, Take, OnlyWorker
<1>5. ASSUME NEW a \in Attempts, Prepared(a) PROVE ThreadsInOrder'
  BY <1>5 DEF Prepared, OnlyWorker
<1>6. ASSUME NEW a \in Attempts, PostContinuation(a) PROVE ThreadsInOrder'
  BY <1>6 DEF PostContinuation, OnlyWorker
<1>7. ASSUME NEW a \in Attempts, WorkerReturns(a) PROVE ThreadsInOrder'
  BY <1>7 DEF WorkerReturns, OnlyWorker
<1>8. ASSUME NEW a \in Attempts, WorkerRaises(a) PROVE ThreadsInOrder'
  BY <1>8 DEF WorkerRaises, OnlyWorker
<1>9. ASSUME NEW a \in Attempts, NEW kind \in Kinds, CallStale(kind, a)
       PROVE  ThreadsInOrder'
  BY <1>9 DEF CallStale, Called, AfterCalls
<1>10. ASSUME NEW a \in Attempts, ContinuationFails(a) PROVE ThreadsInOrder'
  BY <1>10 DEF ContinuationFails, Called, Stale, Cleanup, AfterCalls
<1>11. ASSUME NEW a \in Attempts, Launch(a) PROVE ThreadsInOrder'
  BY <1>11 DEF Launch, Called, Stale, Launchable, WorkerCancelled, AtBoundary,
     AfterCalls
<1>12. ASSUME NEW a \in Attempts, NEW kind \in Kinds, AttemptFails(kind, a)
       PROVE  ThreadsInOrder'
  BY <1>12 DEF AttemptFails, Called, Stale, Cleanup, AfterCalls
<1>13. ASSUME NEW a \in Attempts, WatcherStarts(a) PROVE ThreadsInOrder'
  BY <1>13 DEF WatcherStarts, WatcherGoes, OnlyWatcher, KeepsWindow
<1>14. ASSUME NEW a \in Attempts, SeesProcess(a) PROVE ThreadsInOrder'
  BY <1>14 DEF SeesProcess, WatcherGoes, OnlyWatcher, KeepsWindow
<1>15. ASSUME NEW a \in Attempts, WatcherTimesOut(a) PROVE ThreadsInOrder'
  <2>1. Returned(a) /\ UNCHANGED <<worker, launched>>
    BY <1>15 DEF WatcherTimesOut, OnlyWatcher
  <2>2. calls' = calls \cup {[kind |-> "watcher failure", attempt |-> a]}
    BY <1>15 DEF WatcherTimesOut
  <2>3. ASSUME NEW call \in calls' PROVE Returned(call.attempt)'
    <3>1. CASE call \in calls
      BY <2>1, <3>1
    <3>2. CASE call = [kind |-> "watcher failure", attempt |-> a]
      BY <2>1, <3>2
    <3>3. QED
      BY <2>2, <3>1, <3>2
  <2>4. \A b \in Attempts : watcher'[b] # "none" \/ b \in launched' => Returned(b)'
    BY <1>15, <2>1 DEF WatcherTimesOut, WatcherGoes
  <2>5. QED
    BY <2>3, <2>4
<1>16. ASSUME NEW a \in Attempts, WatcherCleansTracker(a) PROVE ThreadsInOrder'
  BY <1>16 DEF WatcherCleansTracker, Stale, WatcherGoes, OnlyWatcher
<1>17. ASSUME NEW a \in Attempts, WatcherCleansWindow(a) PROVE ThreadsInOrder'
  BY <1>17 DEF WatcherCleansWindow, ReplaceEvent, WatcherGoes, OnlyWatcher
<1>18. ASSUME NEW a \in Attempts, WatcherGivesUp(a) PROVE ThreadsInOrder'
  BY <1>18 DEF WatcherGivesUp, WatcherGoes, OnlyWatcher, KeepsWindow
<1>19. ASSUME NEW a \in Attempts, WatcherLeaves(a) PROVE ThreadsInOrder'
  BY <1>19 DEF WatcherLeaves, WatcherGoes, OnlyWatcher, KeepsWindow
<1>20. CASE UNCHANGED <<calls, worker, watcher, launched>>
  BY <1>20
<1>21. QED
  BY <1>1, <1>2, <1>3, <1>4, <1>5, <1>6, <1>7, <1>8, <1>9, <1>10, <1>11, <1>12,
     <1>13, <1>14, <1>15, <1>16, <1>17, <1>18, <1>19, <1>20 DEF Next, UserStep,
     WorkerStep, CallStep, Continuation, WatcherStep, JoinFails, OnlyGtk,
     ConsentRefused, Cleanup, CancelClicked, SetEvent, Noted, CancelConsent,
     StopWaiting, CancelAbandoned, ShowDownload, OtherTakes, OtherEnds, trackerVars,
     cancelVars, history, vars

(* The launch uses up the continuation. *)
LEMMA LaunchStep ==
  ASSUME TypeOK, NothingAhead, ThreadsInOrder, LaunchIsFinal, [Next]_vars
  PROVE  LaunchIsFinal'
<1> USE AttemptsAssumption DEF TypeOK, Attempts, NoAttempt, trackerVars, cancelVars,
        history, ThreadsInOrder, Returned, LaunchIsFinal, Continuing
<1>1. ASSUME NEW a \in Attempts, PostContinuation(a) PROVE LaunchIsFinal'
  BY <1>1 DEF PostContinuation, OnlyWorker
<1>2. ASSUME NEW a \in Attempts, WorkerRaises(a) PROVE LaunchIsFinal'
  BY <1>2 DEF WorkerRaises, OnlyWorker
<1>3. ASSUME NEW a \in Attempts, NEW kind \in Kinds, CallStale(kind, a)
       PROVE  LaunchIsFinal'
  BY <1>3 DEF CallStale, Called, AfterCalls
<1>4. ASSUME NEW a \in Attempts, ContinuationFails(a) PROVE LaunchIsFinal'
  BY <1>4 DEF ContinuationFails, Called, Stale, Cleanup, AfterCalls
<1>5. ASSUME NEW a \in Attempts, Launch(a) PROVE LaunchIsFinal'
  BY <1>5 DEF Launch, Called, Stale, Launchable, WorkerCancelled, AtBoundary,
     AfterCalls
<1>6. ASSUME NEW a \in Attempts, NEW kind \in Kinds, AttemptFails(kind, a)
       PROVE  LaunchIsFinal'
  BY <1>6 DEF AttemptFails, Called, Stale, Cleanup, AfterCalls
<1>7. ASSUME NEW a \in Attempts, WatcherTimesOut(a) PROVE LaunchIsFinal'
  BY <1>7 DEF WatcherTimesOut, WatcherGoes, OnlyWatcher, KeepsWindow
<1>8. CASE UNCHANGED <<calls, launched>>
  BY <1>8
<1>9. QED
  BY <1>1, <1>2, <1>3, <1>4, <1>5, <1>6, <1>7, <1>8 DEF Next, UserStep, WorkerStep,
     CallStep, Continuation, WatcherStep, Join, Submit, OnlyGtk, JoinFails,
     ConsentGiven, ConsentRefused, Cleanup, CancelClicked, SetEvent, Noted,
     CancelConsent, StopWaiting, CancelAbandoned, ShowDownload, OtherTakes,
     OtherEnds, Quit, Dropped, WorkerStarts, Take, OnlyWorker, Prepared,
     WorkerReturns, WatcherStarts, WatcherGoes, OnlyWatcher, KeepsWindow,
     SeesProcess, WatcherCleansTracker, WatcherCleansWindow, ReplaceEvent,
     WatcherGivesUp, WatcherLeaves, trackerVars, cancelVars, history, vars

(* The launch seals the button. *)
LEMMA SealStep ==
  ASSUME TypeOK, NothingAhead, ButtonIsSealed, [Next]_vars
  PROVE  ButtonIsSealed'
<1> USE AttemptsAssumption DEF TypeOK, Attempts, NoAttempt, trackerVars, cancelVars,
        history, NothingAhead, ButtonIsSealed
<1>1. CASE Join
  BY <1>1 DEF Join, SharedBusy, Submit, OnlyGtk
<1>2. CASE JoinFails
  BY <1>2 DEF JoinFails, SharedBusy, OnlyGtk
<1>3. CASE ConsentRefused
  BY <1>3 DEF ConsentRefused, Cleanup, OnlyGtk
<1>4. CASE CancelConsent
  BY <1>4 DEF CancelConsent, Cancellable, SetEvent, Cleanup, Noted, OnlyGtk
<1>5. CASE StopWaiting
  BY <1>5 DEF StopWaiting, Cancellable, SetEvent, Cleanup, Noted, OnlyGtk
<1>6. CASE Quit
  BY <1>6 DEF Quit, SetEvent, Dropped
<1>7. ASSUME NEW a \in Attempts, ContinuationFails(a) PROVE ButtonIsSealed'
  BY <1>7 DEF ContinuationFails, Called, Stale, Cleanup, AfterCalls
<1>8. ASSUME NEW a \in Attempts, Launch(a) PROVE ButtonIsSealed'
  BY <1>8 DEF Launch, Called, Stale, Launchable, WorkerCancelled, AtBoundary,
     AfterCalls
<1>9. ASSUME NEW a \in Attempts, NEW kind \in Kinds, AttemptFails(kind, a)
       PROVE  ButtonIsSealed'
  BY <1>9 DEF AttemptFails, Called, Stale, Cleanup, AfterCalls
<1>10. ASSUME NEW a \in Attempts, WatcherCleansTracker(a) PROVE ButtonIsSealed'
  BY <1>10 DEF WatcherCleansTracker, Stale, WatcherGoes, OnlyWatcher
<1>11. CASE UNCHANGED <<active, phase, launched>>
  BY <1>11
<1>12. QED
  BY <1>1, <1>2, <1>3, <1>4, <1>5, <1>6, <1>7, <1>8, <1>9, <1>10, <1>11 DEF Next,
     UserStep, WorkerStep, CallStep, Continuation, WatcherStep, ConsentGiven,
     Submit, OnlyGtk, CancelClicked, SetEvent, Noted, CancelAbandoned, ShowDownload,
     OtherTakes, OtherEnds, WorkerStarts, Take, OnlyWorker, Prepared,
     PostContinuation, WorkerReturns, WorkerRaises, CallStale, AfterCalls,
     WatcherStarts, WatcherGoes, OnlyWatcher, KeepsWindow, SeesProcess,
     WatcherTimesOut, WatcherCleansWindow, ReplaceEvent, WatcherGivesUp,
     WatcherLeaves, trackerVars, cancelVars, history, vars

(* The flag admits one watcher. *)
LEMMA FlagStep ==
  ASSUME TypeOK, OneWatcher, [Next]_vars
  PROVE  OneWatcher'
<1> USE AttemptsAssumption DEF TypeOK, Attempts, NoAttempt, trackerVars, cancelVars,
        history, OneWatcher, Watching
<1>1. ASSUME NEW a \in Attempts, Launch(a) PROVE OneWatcher'
  BY <1>1 DEF Launch, Called, Stale, Launchable, WorkerCancelled, AtBoundary,
     AfterCalls
<1>2. ASSUME NEW a \in Attempts, WatcherStarts(a) PROVE OneWatcher'
  BY <1>2 DEF WatcherStarts, WatcherGoes, OnlyWatcher, KeepsWindow
<1>3. ASSUME NEW a \in Attempts, SeesProcess(a) PROVE OneWatcher'
  BY <1>3 DEF SeesProcess, WatcherGoes, OnlyWatcher, KeepsWindow
<1>4. ASSUME NEW a \in Attempts, WatcherTimesOut(a) PROVE OneWatcher'
  BY <1>4 DEF WatcherTimesOut, WatcherGoes, OnlyWatcher, KeepsWindow
<1>5. ASSUME NEW a \in Attempts, WatcherCleansTracker(a) PROVE OneWatcher'
  BY <1>5 DEF WatcherCleansTracker, Stale, WatcherGoes, OnlyWatcher
<1>6. ASSUME NEW a \in Attempts, WatcherCleansWindow(a) PROVE OneWatcher'
  BY <1>6 DEF WatcherCleansWindow, ReplaceEvent, WatcherGoes, OnlyWatcher
<1>7. ASSUME NEW a \in Attempts, WatcherGivesUp(a) PROVE OneWatcher'
  BY <1>7 DEF WatcherGivesUp, WatcherGoes, OnlyWatcher, KeepsWindow
<1>8. ASSUME NEW a \in Attempts, WatcherLeaves(a) PROVE OneWatcher'
  BY <1>8 DEF WatcherLeaves, WatcherGoes, OnlyWatcher, KeepsWindow
<1>9. CASE UNCHANGED <<watcher, watch>>
  BY <1>9
<1>10. QED
  BY <1>1, <1>2, <1>3, <1>4, <1>5, <1>6, <1>7, <1>8, <1>9 DEF Next, UserStep,
     WorkerStep, CallStep, Continuation, WatcherStep, Join, Submit, OnlyGtk,
     JoinFails, ConsentGiven, ConsentRefused, Cleanup, CancelClicked, SetEvent,
     Noted, CancelConsent, StopWaiting, CancelAbandoned, ShowDownload, OtherTakes,
     OtherEnds, Quit, Dropped, WorkerStarts, Take, OnlyWorker, Prepared,
     PostContinuation, WorkerReturns, WorkerRaises, ContinuationFails, AfterCalls,
     CallStale, AttemptFails, trackerVars, cancelVars, history, vars

(* Every new event is paid for. *)
LEMMA CountStep ==
  ASSUME TypeOK, NothingAhead, ConsentFirst, ThreadsInOrder, OneWatcher,
         EventsAreCounted, [Next]_vars
  PROVE  EventsAreCounted'
<1> USE AttemptsAssumption DEF TypeOK, Attempts, NoAttempt, trackerVars, cancelVars,
        history, ConsentFirst, OneWatcher, Watching, EventsAreCounted, Owed,
        Clearing
<1>1. CASE Join
  BY <1>1 DEF Join, SharedBusy, Submit, OnlyGtk
<1>2. CASE JoinFails
  BY <1>2 DEF JoinFails, SharedBusy, OnlyGtk
<1>3. CASE ConsentRefused
  BY <1>3 DEF ConsentRefused, Cleanup, OnlyGtk
<1>4. CASE CancelConsent
  BY <1>4 DEF CancelConsent, Cancellable, SetEvent, Cleanup, Noted, OnlyGtk
<1>5. CASE StopWaiting
  BY <1>5 DEF StopWaiting, Cancellable, SetEvent, Cleanup, Noted, OnlyGtk
<1>6. CASE Quit
  BY <1>6 DEF Quit, SetEvent, Dropped
<1>7. ASSUME NEW a \in Attempts, ContinuationFails(a) PROVE EventsAreCounted'
  BY <1>7 DEF ContinuationFails, Called, Stale, Cleanup, AfterCalls
<1>8. ASSUME NEW a \in Attempts, NEW kind \in Kinds, AttemptFails(kind, a)
       PROVE  EventsAreCounted'
  BY <1>8 DEF AttemptFails, Called, Stale, Cleanup, AfterCalls
<1>9. ASSUME NEW a \in Attempts, Launch(a) PROVE EventsAreCounted'
  BY <1>9 DEF Launch, Called, Stale, Launchable, WorkerCancelled, AtBoundary,
     AfterCalls
<1>10. ASSUME NEW a \in Attempts, WatcherStarts(a) PROVE EventsAreCounted'
  BY <1>10 DEF WatcherStarts, WatcherGoes, OnlyWatcher, KeepsWindow
<1>11. ASSUME NEW a \in Attempts, SeesProcess(a) PROVE EventsAreCounted'
  BY <1>11 DEF SeesProcess, WatcherGoes, OnlyWatcher, KeepsWindow
<1>12. ASSUME NEW a \in Attempts, WatcherTimesOut(a) PROVE EventsAreCounted'
  BY <1>12 DEF WatcherTimesOut, WatcherGoes, OnlyWatcher, KeepsWindow
<1>13. ASSUME NEW a \in Attempts, WatcherCleansTracker(a) PROVE EventsAreCounted'
  BY <1>13 DEF WatcherCleansTracker, Stale, WatcherGoes, OnlyWatcher
<1>14. ASSUME NEW a \in Attempts, WatcherCleansWindow(a) PROVE EventsAreCounted'
  BY <1>14 DEF WatcherCleansWindow, ReplaceEvent, WatcherGoes, OnlyWatcher
<1>15. ASSUME NEW a \in Attempts, WatcherGivesUp(a) PROVE EventsAreCounted'
  BY <1>15 DEF WatcherGivesUp, WatcherGoes, OnlyWatcher, KeepsWindow
<1>16. ASSUME NEW a \in Attempts, WatcherLeaves(a) PROVE EventsAreCounted'
  BY <1>16 DEF WatcherLeaves, WatcherGoes, OnlyWatcher, KeepsWindow
<1>17. CASE UNCHANGED <<event, active, begun, watcher>>
  BY <1>17
<1>18. QED
  BY <1>1, <1>2, <1>3, <1>4, <1>5, <1>6, <1>7, <1>8, <1>9, <1>10, <1>11, <1>12,
     <1>13, <1>14, <1>15, <1>16, <1>17 DEF Next, UserStep, WorkerStep, CallStep,
     Continuation, WatcherStep, ConsentGiven, Submit, OnlyGtk, CancelClicked,
     SetEvent, Noted, CancelAbandoned, ShowDownload, OtherTakes, OtherEnds,
     WorkerStarts, Take, OnlyWorker, Prepared, PostContinuation, WorkerReturns,
     WorkerRaises, CallStale, AfterCalls, trackerVars, cancelVars, history, vars

(* Only one replacement is ever outstanding. *)
LEMMA TakenStep ==
  ASSUME TypeOK, NothingAhead, ConsentFirst, ThreadsInOrder, OneWatcher,
         EventIsTheWorkers, [Next]_vars
  PROVE  EventIsTheWorkers'
<1> USE AttemptsAssumption DEF TypeOK, Attempts, NoAttempt, trackerVars, cancelVars,
        history, NothingAhead, ConsentFirst, OneWatcher, Watching,
        EventIsTheWorkers, Clearing, Taken
<1>1. CASE Join
  BY <1>1 DEF Join, SharedBusy, Submit, OnlyGtk
<1>2. CASE JoinFails
  BY <1>2 DEF JoinFails, SharedBusy, OnlyGtk
<1>3. CASE ConsentGiven
  BY <1>3 DEF ConsentGiven, Submit, OnlyGtk
<1>4. CASE ConsentRefused
  BY <1>4 DEF ConsentRefused, Cleanup, OnlyGtk
<1>5. CASE CancelConsent
  BY <1>5 DEF CancelConsent, Cancellable, SetEvent, Cleanup, Noted, OnlyGtk
<1>6. CASE StopWaiting
  BY <1>6 DEF StopWaiting, Cancellable, SetEvent, Cleanup, Noted, OnlyGtk
<1>7. CASE Quit
  BY <1>7 DEF Quit, SetEvent, Dropped
<1>8. ASSUME NEW a \in Attempts, WorkerStarts(a) PROVE EventIsTheWorkers'
  BY <1>8 DEF WorkerStarts, Take, OnlyWorker
<1>9. ASSUME NEW a \in Attempts, Prepared(a) PROVE EventIsTheWorkers'
  BY <1>9 DEF Prepared, OnlyWorker
<1>10. ASSUME NEW a \in Attempts, PostContinuation(a) PROVE EventIsTheWorkers'
  BY <1>10 DEF PostContinuation, OnlyWorker
<1>11. ASSUME NEW a \in Attempts, WorkerReturns(a) PROVE EventIsTheWorkers'
  BY <1>11 DEF WorkerReturns, OnlyWorker
<1>12. ASSUME NEW a \in Attempts, WorkerRaises(a) PROVE EventIsTheWorkers'
  BY <1>12 DEF WorkerRaises, OnlyWorker
<1>13. ASSUME NEW a \in Attempts, ContinuationFails(a) PROVE EventIsTheWorkers'
  BY <1>13 DEF ContinuationFails, Called, Stale, Cleanup, AfterCalls
<1>14. ASSUME NEW a \in Attempts, NEW kind \in Kinds, AttemptFails(kind, a)
       PROVE  EventIsTheWorkers'
  BY <1>14 DEF AttemptFails, Called, Stale, Cleanup, AfterCalls
<1>15. ASSUME NEW a \in Attempts, Launch(a) PROVE EventIsTheWorkers'
  BY <1>15 DEF Launch, Called, Stale, Launchable, WorkerCancelled, AtBoundary,
     AfterCalls
<1>16. ASSUME NEW a \in Attempts, WatcherStarts(a) PROVE EventIsTheWorkers'
  BY <1>16 DEF WatcherStarts, WatcherGoes, OnlyWatcher, KeepsWindow
<1>17. ASSUME NEW a \in Attempts, SeesProcess(a) PROVE EventIsTheWorkers'
  BY <1>17 DEF SeesProcess, WatcherGoes, OnlyWatcher, KeepsWindow
<1>18. ASSUME NEW a \in Attempts, WatcherTimesOut(a) PROVE EventIsTheWorkers'
  BY <1>18 DEF WatcherTimesOut, WatcherGoes, OnlyWatcher, KeepsWindow
<1>19. ASSUME NEW a \in Attempts, WatcherCleansTracker(a) PROVE EventIsTheWorkers'
  BY <1>19 DEF WatcherCleansTracker, Stale, WatcherGoes, OnlyWatcher
<1>20. ASSUME NEW a \in Attempts, WatcherCleansWindow(a) PROVE EventIsTheWorkers'
  BY <1>20 DEF WatcherCleansWindow, ReplaceEvent, WatcherGoes, OnlyWatcher
<1>21. ASSUME NEW a \in Attempts, WatcherGivesUp(a) PROVE EventIsTheWorkers'
  BY <1>21 DEF WatcherGivesUp, WatcherGoes, OnlyWatcher, KeepsWindow
<1>22. ASSUME NEW a \in Attempts, WatcherLeaves(a) PROVE EventIsTheWorkers'
  BY <1>22 DEF WatcherLeaves, WatcherGoes, OnlyWatcher, KeepsWindow
<1>23. CASE UNCHANGED <<event, active, worker, watcher>>
  BY <1>23
<1>24. QED
  BY <1>1, <1>2, <1>3, <1>4, <1>5, <1>6, <1>7, <1>8, <1>9, <1>10, <1>11, <1>12,
     <1>13, <1>14, <1>15, <1>16, <1>17, <1>18, <1>19, <1>20, <1>21, <1>22, <1>23 DEF
     Next, UserStep, WorkerStep, CallStep, Continuation, WatcherStep, CancelClicked,
     SetEvent, Noted, OnlyGtk, CancelAbandoned, ShowDownload, OtherTakes, OtherEnds,
     CallStale, AfterCalls, trackerVars, cancelVars, history, vars

(* A replaced event leaves the worker's behind. *)
LEMMA SeenStep ==
  ASSUME TypeOK, NothingAhead, ConsentFirst, ThreadsInOrder, ButtonIsSealed,
         EventIsTheWorkers, LateIsSeen, [Next]_vars
  PROVE  LateIsSeen'
<1> USE AttemptsAssumption DEF TypeOK, Attempts, NoAttempt, trackerVars, cancelVars,
        history, NothingAhead, ConsentFirst, EventIsTheWorkers, Clearing,
        LateIsSeen, Taken, Heard
<1>1. CASE Join
  BY <1>1 DEF Join, SharedBusy, Submit, OnlyGtk
<1>2. CASE JoinFails
  BY <1>2 DEF JoinFails, SharedBusy, OnlyGtk
<1>3. CASE ConsentGiven
  BY <1>3 DEF ConsentGiven, Submit, OnlyGtk
<1>4. CASE ConsentRefused
  BY <1>4 DEF ConsentRefused, Cleanup, OnlyGtk
<1>5. CASE CancelClicked
  BY <1>5 DEF CancelClicked, Cancellable, SetEvent, Noted, OnlyGtk
<1>6. CASE CancelConsent
  BY <1>6 DEF CancelConsent, Cancellable, SetEvent, Cleanup, Noted, OnlyGtk
<1>7. CASE StopWaiting
  BY <1>7 DEF StopWaiting, Cancellable, SetEvent, Cleanup, Noted, OnlyGtk
<1>8. CASE CancelAbandoned
  BY <1>8 DEF CancelAbandoned, SetEvent, OnlyGtk
<1>9. CASE Quit
  BY <1>9 DEF Quit, SetEvent, Dropped
<1>10. ASSUME NEW a \in Attempts, WorkerStarts(a) PROVE LateIsSeen'
  BY <1>10 DEF WorkerStarts, Take, OnlyWorker
<1>11. ASSUME NEW a \in Attempts, Prepared(a) PROVE LateIsSeen'
  BY <1>11 DEF Prepared, OnlyWorker
<1>12. ASSUME NEW a \in Attempts, PostContinuation(a) PROVE LateIsSeen'
  BY <1>12 DEF PostContinuation, OnlyWorker
<1>13. ASSUME NEW a \in Attempts, WorkerReturns(a) PROVE LateIsSeen'
  BY <1>13 DEF WorkerReturns, OnlyWorker
<1>14. ASSUME NEW a \in Attempts, WorkerRaises(a) PROVE LateIsSeen'
  BY <1>14 DEF WorkerRaises, OnlyWorker
<1>15. ASSUME NEW a \in Attempts, ContinuationFails(a) PROVE LateIsSeen'
  BY <1>15 DEF ContinuationFails, Called, Stale, Cleanup, AfterCalls
<1>16. ASSUME NEW a \in Attempts, NEW kind \in Kinds, AttemptFails(kind, a)
       PROVE  LateIsSeen'
  BY <1>16 DEF AttemptFails, Called, Stale, Cleanup, AfterCalls
<1>17. ASSUME NEW a \in Attempts, Launch(a) PROVE LateIsSeen'
  BY <1>17 DEF Launch, Called, Stale, Launchable, WorkerCancelled, AtBoundary,
     AfterCalls
<1>18. ASSUME NEW a \in Attempts, WatcherCleansTracker(a) PROVE LateIsSeen'
  BY <1>18 DEF WatcherCleansTracker, Stale, WatcherGoes, OnlyWatcher
<1>19. ASSUME NEW a \in Attempts, WatcherCleansWindow(a) PROVE LateIsSeen'
  BY <1>19 DEF WatcherCleansWindow, ReplaceEvent, WatcherGoes, OnlyWatcher
<1>20. CASE UNCHANGED <<late, worker, active, phase, event, signalled>>
  BY <1>20
<1>21. QED
  BY <1>1, <1>2, <1>3, <1>4, <1>5, <1>6, <1>7, <1>8, <1>9, <1>10, <1>11, <1>12,
     <1>13, <1>14, <1>15, <1>16, <1>17, <1>18, <1>19, <1>20 DEF Next, UserStep,
     WorkerStep, CallStep, Continuation, WatcherStep, ShowDownload, OnlyGtk,
     OtherTakes, OtherEnds, CallStale, AfterCalls, WatcherStarts, WatcherGoes,
     OnlyWatcher, KeepsWindow, SeesProcess, WatcherTimesOut, WatcherGivesUp,
     WatcherLeaves, trackerVars, cancelVars, history, vars

(* The launch looks at both events. *)
LEMMA CancelStep ==
  ASSUME TypeOK, NothingAhead, ConsentFirst, ThreadsInOrder, LaunchIsFinal,
         ButtonIsSealed, LateIsSeen, LateCancelPreventsLaunch, [Next]_vars
  PROVE  LateCancelPreventsLaunch'
<1> USE AttemptsAssumption DEF TypeOK, Attempts, NoAttempt, trackerVars, cancelVars,
        history, ButtonIsSealed, LaunchIsFinal, Continuing, ConsentFirst,
        ThreadsInOrder, Returned, LateIsSeen, Heard, LateCancelPreventsLaunch
<1>1. CASE CancelClicked
  BY <1>1 DEF CancelClicked, Cancellable, SetEvent, Noted, OnlyGtk
<1>2. CASE CancelConsent
  BY <1>2 DEF CancelConsent, Cancellable, SetEvent, Cleanup, Noted, OnlyGtk
<1>3. CASE StopWaiting
  BY <1>3 DEF StopWaiting, Cancellable, SetEvent, Cleanup, Noted, OnlyGtk
<1>4. ASSUME NEW a \in Attempts, Launch(a) PROVE LateCancelPreventsLaunch'
  BY <1>4 DEF Launch, Called, Stale, Launchable, WorkerCancelled, AtBoundary,
     AfterCalls
<1>5. CASE UNCHANGED <<late, launched>>
  BY <1>5
<1>6. QED
  BY <1>1, <1>2, <1>3, <1>4, <1>5 DEF Next, UserStep, WorkerStep, CallStep,
     Continuation, WatcherStep, Join, Submit, OnlyGtk, JoinFails, ConsentGiven,
     ConsentRefused, Cleanup, CancelAbandoned, SetEvent, ShowDownload, OtherTakes,
     OtherEnds, Quit, Dropped, WorkerStarts, Take, OnlyWorker, Prepared,
     PostContinuation, WorkerReturns, WorkerRaises, ContinuationFails, AfterCalls,
     CallStale, AttemptFails, WatcherStarts, WatcherGoes, OnlyWatcher, KeepsWindow,
     SeesProcess, WatcherTimesOut, WatcherCleansTracker, WatcherCleansWindow,
     ReplaceEvent, WatcherGivesUp, WatcherLeaves, trackerVars, cancelVars, history,
     vars

-----------------------------------------------------------------------------
(* Each variable keeps its type. *)
LEMMA TrackerType ==
  ASSUME TypeOK, [Next]_vars
  PROVE  /\ begun' \in 0..MaxAttempts /\ active' \in 0..begun'
         /\ phase' \in {"preparing", "watching"} /\ consent' \in 0..begun'
<1> USE AttemptsAssumption DEF TypeOK, Attempts, NoAttempt, trackerVars, cancelVars, history
<1>1. CASE UserStep
  BY <1>1 DEF UserStep, Join, JoinFails, ConsentGiven, ConsentRefused, CancelClicked,
     CancelConsent, StopWaiting, CancelAbandoned, Quit, OnlyGtk, Cleanup
<1>2. CASE ShowDownload \/ OtherTakes \/ OtherEnds \/ UNCHANGED vars
  BY <1>2 DEF ShowDownload, OtherTakes, OtherEnds, vars, OnlyGtk
<1>3. ASSUME NEW a \in Attempts, WorkerStep(a)
      PROVE  UNCHANGED <<begun, active, phase, consent>>
  BY <1>3 DEF WorkerStep, WorkerStarts, Prepared, PostContinuation, WorkerReturns,
     WorkerRaises, OnlyWorker
<1>4. ASSUME NEW a \in Attempts, CallStep(a)
      PROVE  /\ UNCHANGED <<begun, consent>> /\ active' \in {active, NoAttempt}
             /\ phase' \in {"preparing", "watching"}
  BY <1>4 DEF CallStep, Continuation, ContinuationFails, Launch, CallStale, AttemptFails,
     Cleanup, AfterCalls
<1>5. ASSUME NEW a \in Attempts, WatcherStep(a)
      PROVE  UNCHANGED <<begun, phase, consent>> /\ active' \in {active, NoAttempt}
  BY <1>5 DEF WatcherStep, WatcherStarts, SeesProcess, WatcherTimesOut,
     WatcherCleansTracker, WatcherCleansWindow, WatcherGivesUp, WatcherLeaves,
     OnlyWatcher, KeepsWindow
<1>6. QED
  BY <1>1, <1>2, <1>3, <1>4, <1>5 DEF Next

(* The same of the event, which only ever grows. *)
LEMMA CancelType ==
  ASSUME TypeOK, [Next]_vars
  PROVE  /\ event' \in Nat /\ event =< event' /\ signalled' \subseteq 0..event'
         /\ safeCancel' \in BOOLEAN
<1> USE AttemptsAssumption DEF TypeOK, MaxEvent, trackerVars, cancelVars, history
<1>1. event \in Nat
  OBVIOUS
<1>2. /\ event' \in {event, event + 1, event + 2}
      /\ signalled' \in {signalled, signalled \cup {event}}
      /\ safeCancel' \in {safeCancel, TRUE, FALSE}
  <2>1. CASE UserStep
    BY <2>1 DEF UserStep, Join, JoinFails, ConsentGiven, ConsentRefused, CancelClicked,
       CancelConsent, StopWaiting, CancelAbandoned, Quit, Cleanup, SetEvent
  <2>2. CASE ShowDownload \/ OtherTakes \/ OtherEnds \/ UNCHANGED vars
    BY <2>2 DEF ShowDownload, OtherTakes, OtherEnds, vars
  <2>3. ASSUME NEW a \in Attempts, WorkerStep(a) PROVE UNCHANGED cancelVars
    BY <2>3 DEF WorkerStep, WorkerStarts, Prepared, PostContinuation, WorkerReturns,
       WorkerRaises, OnlyWorker
  <2>4. ASSUME NEW a \in Attempts, CallStep(a)
        PROVE  /\ event' \in {event, event + 1} /\ UNCHANGED signalled
               /\ safeCancel' \in {safeCancel, FALSE}
    BY <2>4 DEF CallStep, Continuation, ContinuationFails, Launch, CallStale,
       AttemptFails, Cleanup, AfterCalls
  <2>5. ASSUME NEW a \in Attempts, WatcherStep(a)
        PROVE  /\ event' \in {event, event + 1} /\ UNCHANGED signalled
               /\ safeCancel' \in {safeCancel, FALSE}
    BY <2>5 DEF WatcherStep, WatcherStarts, SeesProcess, WatcherTimesOut,
       WatcherCleansTracker, WatcherCleansWindow, WatcherGivesUp, WatcherLeaves,
       OnlyWatcher, KeepsWindow, ReplaceEvent
  <2>6. QED
    BY <2>1, <2>2, <2>3, <2>4, <2>5 DEF Next
<1>3. event' \in Nat /\ event =< event'
  BY <1>1, <1>2
<1>4. signalled' \subseteq 0..event'
  BY <1>1, <1>2, <1>3
<1>5. QED
  BY <1>2, <1>3, <1>4

(* The same of the threads and what they leave behind. *)
LEMMA ThreadType ==
  ASSUME TypeOK, [Next]_vars
  PROVE  /\ worker' \in [Attempts -> [step: WorkerSteps, event: 0..MaxEvent, ok: BOOLEAN]]
         /\ gate' \in Gates
<1> USE AttemptsAssumption
    DEF TypeOK, Attempts, NoAttempt, WorkerSteps, Gates, Idle, LeasedTo,
        trackerVars, cancelVars, history
<1>1. CASE Join
  <2>1. begun' \in Attempts
    BY <1>1 DEF Join
  <2>2. gate' \in Gates
    BY <1>1, <2>1 DEF Join
  <2>3. CASE Submit(begun')
    BY <2>1, <2>2, <2>3 DEF Submit
  <2>4. CASE UNCHANGED worker
    BY <2>2, <2>4
  <2>5. QED
    BY <1>1, <2>3, <2>4 DEF Join
<1>2. CASE JoinFails \/ CancelClicked \/ StopWaiting \/ CancelAbandoned
  BY <1>2 DEF JoinFails, CancelClicked, StopWaiting, CancelAbandoned
<1>3. CASE ConsentGiven
  BY ZenonT(60), <1>3 DEF ConsentGiven, Submit
<1>4. CASE ConsentRefused \/ CancelConsent
  BY <1>4 DEF ConsentRefused, CancelConsent
<1>5. CASE Quit
  BY <1>5 DEF Quit, Dropped
<1>6. CASE ShowDownload \/ OtherTakes \/ OtherEnds \/ UNCHANGED vars
  BY <1>6 DEF ShowDownload, OtherTakes, OtherEnds, vars
<1>7. ASSUME NEW a \in Attempts, WorkerStarts(a)
      PROVE  worker' \in [Attempts -> [step: WorkerSteps, event: 0..MaxEvent, ok: BOOLEAN]]
             /\ gate' \in Gates
  BY <1>7 DEF WorkerStarts, Take
<1>8. ASSUME NEW a \in Attempts,
             Prepared(a) \/ PostContinuation(a) \/ WorkerReturns(a) \/ WorkerRaises(a)
      PROVE  worker' \in [Attempts -> [step: WorkerSteps, event: 0..MaxEvent, ok: BOOLEAN]]
             /\ gate' \in Gates
  <2>1. CASE Prepared(a) \/ PostContinuation(a)
    <3>1. PICK step \in WorkerSteps, ok \in BOOLEAN :
            worker' = [worker EXCEPT ![a].step = step, ![a].ok = ok]
      BY <2>1 DEF Prepared, PostContinuation
    <3> DEFINE stepped == [worker EXCEPT ![a].step = step]
    <3>2. stepped \in [Attempts -> [step: WorkerSteps, event: 0..MaxEvent, ok: BOOLEAN]]
      OBVIOUS
    <3>3. worker' = [stepped EXCEPT ![a].ok = ok]
      BY <3>1
    <3>4. UNCHANGED gate
      BY <2>1 DEF Prepared, PostContinuation
    <3> HIDE DEF stepped
    <3>5. QED
      BY ZenonT(60), <3>2, <3>3, <3>4
  <2>2. CASE WorkerReturns(a) \/ WorkerRaises(a)
    <3>1. worker' = [worker EXCEPT ![a].step = "done"]
      BY <2>2 DEF WorkerReturns, WorkerRaises
    <3>2. gate' \in {Idle, [state |-> "poisoned", attempt |-> NoAttempt]}
      BY <2>2 DEF WorkerReturns, WorkerRaises
    <3>3. gate' \in Gates
      BY <3>2
    <3>4. QED
      BY <3>1, <3>3
  <2>3. QED
    BY <1>8, <2>1, <2>2
<1>9. ASSUME NEW a \in Attempts, CallStep(a) \/ WatcherStep(a)
      PROVE  UNCHANGED <<worker, gate>>
  BY <1>9 DEF CallStep, Continuation, ContinuationFails, Launch, CallStale, AttemptFails,
     AfterCalls, WatcherStep, WatcherStarts, SeesProcess, WatcherTimesOut,
     WatcherCleansTracker, WatcherCleansWindow, WatcherGivesUp, WatcherLeaves, OnlyWatcher
<1>10. QED
  BY <1>1, <1>2, <1>3, <1>4, <1>5, <1>6, <1>7, <1>8, <1>9 DEF Next, UserStep, WorkerStep

(* The same of the callbacks and the watchers. *)
LEMMA WatchType ==
  ASSUME TypeOK, [Next]_vars
  PROVE  /\ calls' \subseteq [kind: Kinds, attempt: Attempts]
         /\ watcher' \in [Attempts -> WatcherSteps]
         /\ watch' \in [up: BOOLEAN, by: 0..MaxAttempts]
         /\ closed' \in BOOLEAN
<1> DEFINE Goal == /\ calls' \subseteq [kind: Kinds, attempt: Attempts]
                   /\ watcher' \in [Attempts -> WatcherSteps]
                   /\ watch' \in [up: BOOLEAN, by: 0..MaxAttempts]
                   /\ closed' \in BOOLEAN
<1>1. \A a \in Attempts : a \in 0..MaxAttempts
  BY AttemptsAssumption DEF Attempts
<1> USE AttemptsAssumption
    DEF TypeOK, Attempts, Kinds, WatcherSteps, trackerVars, cancelVars, history
<1>2. CASE UserStep
  BY <1>2 DEF UserStep, Join, JoinFails, ConsentGiven, ConsentRefused, CancelClicked,
     CancelConsent, StopWaiting, CancelAbandoned, Quit, OnlyGtk
<1>3. CASE ShowDownload \/ OtherTakes \/ OtherEnds \/ UNCHANGED vars
  BY <1>3 DEF ShowDownload, OtherTakes, OtherEnds, vars, OnlyGtk
<1>4. ASSUME NEW a \in Attempts, WorkerStep(a) PROVE Goal
  <2>1. UNCHANGED <<watcher, watch, closed>>
    BY <1>4 DEF WorkerStep, WorkerStarts, Prepared, PostContinuation, WorkerReturns,
       WorkerRaises, OnlyWorker
  <2>2. calls' \subseteq calls \cup {[kind |-> "continuation", attempt |-> a],
                                     [kind |-> "exception", attempt |-> a]}
    BY <1>4 DEF WorkerStep, WorkerStarts, Prepared, PostContinuation, WorkerReturns,
       WorkerRaises
  <2>3. /\ [kind |-> "continuation", attempt |-> a] \in [kind: Kinds, attempt: Attempts]
        /\ [kind |-> "exception", attempt |-> a] \in [kind: Kinds, attempt: Attempts]
    OBVIOUS
  <2>4. calls' \subseteq [kind: Kinds, attempt: Attempts]
    BY <2>2, <2>3
  <2>5. QED
    BY <2>1, <2>4
<1>5. ASSUME NEW a \in Attempts, CallStep(a) PROVE Goal
  BY <1>5 DEF CallStep, Continuation, ContinuationFails, Launch, CallStale, AttemptFails,
     Called, AfterCalls
<1>6. ASSUME NEW a \in Attempts, WatcherStep(a) PROVE Goal
  <2>1. UNCHANGED closed
    BY <1>6 DEF WatcherStep, WatcherStarts, SeesProcess, WatcherTimesOut,
       WatcherCleansTracker, WatcherCleansWindow, WatcherGivesUp, WatcherLeaves, OnlyWatcher
  <2>2. watcher' \in [Attempts -> WatcherSteps]
    BY <1>6 DEF WatcherStep, WatcherStarts, SeesProcess, WatcherTimesOut,
       WatcherCleansTracker, WatcherCleansWindow, WatcherGivesUp, WatcherLeaves, WatcherGoes
  <2>3. watch' \in [up: BOOLEAN, by: 0..MaxAttempts]
    <3>1. watch' \in {watch, [up |-> TRUE, by |-> a], [watch EXCEPT !.up = FALSE]}
      BY <1>6 DEF WatcherStep, WatcherStarts, SeesProcess, WatcherTimesOut,
         WatcherCleansTracker, WatcherCleansWindow, WatcherGivesUp, WatcherLeaves
    <3>2. a \in 0..MaxAttempts
      BY <1>1
    <3>3. [watch EXCEPT !.up = FALSE] \in [up: BOOLEAN, by: 0..MaxAttempts]
      OBVIOUS
    <3>4. [up |-> TRUE, by |-> a] \in [up: BOOLEAN, by: 0..MaxAttempts]
      BY <3>2
    <3>5. QED
      BY <3>1, <3>3, <3>4
  <2>4. calls' \subseteq calls \cup {[kind |-> "watcher failure", attempt |-> a]}
    BY <1>6 DEF WatcherStep, WatcherStarts, SeesProcess, WatcherTimesOut,
       WatcherCleansTracker, WatcherCleansWindow, WatcherGivesUp, WatcherLeaves
  <2>5. [kind |-> "watcher failure", attempt |-> a] \in [kind: Kinds, attempt: Attempts]
    OBVIOUS
  <2>6. QED
    BY <2>1, <2>2, <2>3, <2>4, <2>5
<1>7. QED
  BY <1>2, <1>3, <1>4, <1>5, <1>6 DEF Next

(* The same of the history. *)
LEMMA HistoryType ==
  ASSUME TypeOK, [Next]_vars
  PROVE  /\ launched' \subseteq Attempts /\ cancelled' \subseteq Attempts
         /\ late' \subseteq cancelled'
<1> USE AttemptsAssumption
    DEF TypeOK, Attempts, NoAttempt, trackerVars, cancelVars, history
<1>1. CASE UserStep
  BY <1>1 DEF UserStep, Join, JoinFails, ConsentGiven, ConsentRefused, CancelClicked,
     CancelConsent, StopWaiting, CancelAbandoned, Quit, OnlyGtk, Noted, Cancellable
<1>2. CASE ShowDownload \/ OtherTakes \/ OtherEnds \/ UNCHANGED vars
  BY <1>2 DEF ShowDownload, OtherTakes, OtherEnds, vars, OnlyGtk
<1>3. ASSUME NEW a \in Attempts, WorkerStep(a) \/ CallStep(a) \/ WatcherStep(a)
      PROVE  launched' \subseteq Attempts /\ UNCHANGED <<cancelled, late>>
  BY <1>3 DEF WorkerStep, WorkerStarts, Prepared, PostContinuation, WorkerReturns,
     WorkerRaises, OnlyWorker, CallStep, Continuation, ContinuationFails, Launch,
     CallStale, AttemptFails, AfterCalls, WatcherStep, WatcherStarts, SeesProcess,
     WatcherTimesOut, WatcherCleansTracker, WatcherCleansWindow, WatcherGivesUp,
     WatcherLeaves, OnlyWatcher
<1>4. QED
  BY <1>1, <1>2, <1>3 DEF Next

-----------------------------------------------------------------------------
(* n attempts pay for 2n events. *)
LEMMA Accounting ==
  ASSUME NEW made \in Nat, NEW owed \in Nat, NEW n \in Nat, NEW m \in Nat,
         made + owed =< 2 * n, n =< m
  PROVE  made =< 2 * m
OBVIOUS

(* The count of the events bounds them. *)
LEMMA TypeStep ==
  ASSUME TypeOK, EventsAreCounted', [Next]_vars PROVE TypeOK'
<1>1. event' =< MaxEvent
  <2>1. begun' \in Nat /\ begun' =< MaxAttempts /\ event' \in Nat
    BY AttemptsAssumption, TrackerType, CancelType
  <2>2. Owed' \in Nat
    BY DEF Owed
  <2>3. event' + Owed' =< 2 * begun'
    BY DEF EventsAreCounted
  <2>4. QED
    BY <2>1, <2>2, <2>3, AttemptsAssumption, Accounting DEF MaxEvent
<1>2. event' \in 0..MaxEvent
  BY <1>1, CancelType, AttemptsAssumption DEF MaxEvent
<1>3. QED
  BY <1>2, TrackerType, CancelType, ThreadType, WatchType, HistoryType DEF TypeOK

(* Every step of the handlers and threads keeps every part. *)
LEMMA JoinInvStep == JoinInv /\ [Next]_vars => JoinInv'
<1> SUFFICES ASSUME JoinInv, [Next]_vars PROVE JoinInv'
  OBVIOUS
<1> USE DEF JoinInv
<1>1. NothingAhead' /\ ConsentFirst' /\ ThreadsInOrder'
  BY AheadStep, ConsentStep, OrderStep
<1>2. LaunchIsFinal' /\ ButtonIsSealed' /\ OneWatcher'
  BY LaunchStep, SealStep, FlagStep
<1>3. EventsAreCounted' /\ EventIsTheWorkers' /\ LateIsSeen'
  BY CountStep, TakenStep, SeenStep
<1>4. LeaseServesItsWorker' /\ LateCancelPreventsLaunch'
  BY LeaseStep, CancelStep
<1>5. TypeOK'
  BY <1>3, TypeStep
<1>6. QED
  BY <1>1, <1>2, <1>3, <1>4, <1>5

(* JoinInv is an invariant of every number of attempts (window.py,
   join_attempt.py and join_prepare.py as JoinAttempt models them).        *)
THEOREM Invariant == Spec => []JoinInv
<1>1. Init => JoinInv
  BY JoinInvInit
<1>2. JoinInv /\ [Next]_vars => JoinInv'
  BY JoinInvStep
<1>3. QED
  BY <1>1, <1>2, PTL DEF Spec

(* The state of the window, the threads and the gate keeps its type; in
   particular an attempt accounts for at most two events.                  *)
THEOREM TypeCorrect == Spec => []TypeOK
<1>1. JoinInv => TypeOK
  BY DEF JoinInv
<1>2. QED
  BY <1>1, Invariant, PTL

(* A Join's lease is held exactly as long as its consent dialog is open or
   its worker runs (window.py:13479-13638, _join_worker_future_done).      *)
THEOREM LeaseServesWorker == Spec => []LeaseServesItsWorker
<1>1. JoinInv => LeaseServesItsWorker
  BY DEF JoinInv
<1>2. QED
  BY <1>1, Invariant, PTL

(* A Cancel clicked once the worker has taken its event is never lost: its
   attempt is not handed to Steam (the checks of after(),
   join_prepare.py, and of the launch boundary, window.py).                *)
THEOREM LateCancelWorks == Spec => []LateCancelPreventsLaunch
<1>1. JoinInv => LateCancelPreventsLaunch
  BY DEF JoinInv
<1>2. QED
  BY <1>1, Invariant, PTL

=============================================================================
