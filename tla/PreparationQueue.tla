--------------------------- MODULE PreparationQueue ---------------------------
(***************************************************************************)
(* The background queue under every sequence of calls its callers can      *)
(* make: GTK handlers and the callbacks and returns of workers, including  *)
(* those of requests that were cancelled or replaced long ago.             *)
(***************************************************************************)
EXTENDS BackgroundQueue

VARIABLES accepted,   \* history: every request the queue ever accepted
          withdrawn   \* history: those the user cancelled while they waited

callsVars == <<queueVars, accepted, withdrawn>>

Waiting == {pending[i] : i \in DOMAIN pending}
Outstanding == Waiting \cup ({active} \ {None})

CallsInit == QueueInit /\ accepted = {} /\ withdrawn = {}

UserCall ==
  \/ \E s \in Servers : Enqueue(s)
  \/ \E resolvable \in SUBSET Servers : Retry(resolvable)
  \/ ClearCompletedBatch

Withdrawal == CancelBlockedPending \/ CancelAll \/ Shutdown

WorkerStep(r) ==
  \/ AttachController(r) \/ UpdateProgress(r)
  \/ \E outcome \in Outcomes : ObserveTerminal(r, outcome) \/ Finish(r, outcome)
  \/ FinishBlockedReapFailure(r)

CallsNext ==
  /\ \/ /\ UserCall \/ ClearReapBlock \/ \E r \in accepted : WorkerStep(r)
        /\ UNCHANGED withdrawn
     \/ Withdrawal /\ withdrawn' = withdrawn \cup Waiting
  /\ accepted' = accepted \cup {pending'[i] : i \in DOMAIN pending'}
                          \cup ({active'} \ {None})

CallsSpec == CallsInit /\ [][CallsNext]_callsVars

-----------------------------------------------------------------------------
(* One request at a time, in the order the user asked: the waiting ones are
   newer than the active one, and stand in the deque oldest first.        *)
SerialReservation ==
  /\ \A i, j \in DOMAIN pending : i < j => pending[i].number < pending[j].number
  /\ active # None =>
       \A i \in DOMAIN pending : active.number < pending[i].number
  /\ \A r \in Outstanding : r.number <= nextRequest

(* Everything outstanding belongs to the open batch, and nothing but a
   cancel or a shutdown makes the active request stale.                   *)
OutstandingIsCurrent ==
  /\ \A r \in Waiting : r.batch = activeBatch /\ r.epoch = epoch /\ activeBatch # 0
  /\ active # None => active.epoch = epoch \/ cancelling \/ shutdown
  /\ active # None => active.batch = activeBatch /\ activeBatch # 0

(* After an unconfirmed helper exit nothing is active and nothing can be
   accepted, so nothing reaches Steam before the gate recovers.           *)
BlockedIsQuiet == blocked => active = None /\ ~accepting

(* A request is never lost and never reported twice: unless the user withdrew
   it, it waits or is active or has its entry while its batch is open, and
   the report of its batch has one entry for it.                          *)
Reports(all, r) ==
  \E e \in all : /\ e.number = r.number /\ e.id = r.id
                 /\ \A d \in all : d.number = r.number => d = e

EveryRequestIsAccountedFor ==
  ~shutdown => \A r \in accepted \ withdrawn :
    /\ r.batch = activeBatch => r \in Outstanding \/ Reports(entries, r)
    /\ completed # None /\ r.batch = completed.batch => Reports(completed.entries, r)

(* Nothing is dispatched while the queue cancels, is blocked or has shut
   down, by whatever path the dispatch is reached.                        *)
NoDispatchWhenClosed ==
  [][active' # None /\ active' # active
       => ~cancelling' /\ ~blocked' /\ ~shutdown']_callsVars

(* What is finished stays so.  Once the row of a server says ready, failed
   or cancelled, no late progress, outcome or return changes it: only its
   removal or a newer request does.  And a result, once recorded, stays in
   its batch until the batch is reported with it (or the application quits). *)
FinishedStaysFinished ==
  [][/\ \A s \in Servers :
          StateOf(s) \in TerminalStates /\ records'[s] # records[s]
            => records'[s] = None \/ records'[s].number > records[s].number
     /\ ~shutdown' => \A e \in entries :
          e \in entries' \/ (completed' # None /\ e \in completed'.entries)]_callsVars

-----------------------------------------------------------------------------
(* The inductive invariant of PreparationQueueProofs: what the properties
   above need to be preserved by every call.                              *)
ClosedQueueIsEmpty == cancelling \/ shutdown => pending = <<>>

WaitingHaveRows == \A i \in DOMAIN pending : records[pending[i].id] # None

ReportsAreFinite ==
  /\ IsFiniteSet(entries)
  /\ completed # None => IsFiniteSet(completed.entries)

QueueInv ==
  /\ TypeOK
  /\ SerialReservation /\ OutstandingIsCurrent /\ BlockedIsQuiet
  /\ ClosedQueueIsEmpty /\ WaitingHaveRows /\ ReportsAreFinite

=============================================================================
