--------------------------- MODULE BackgroundQueue ---------------------------
(***************************************************************************)
(* BackgroundPreparationQueue (background_prepare_queue.py): the in-memory *)
(* FIFO of servers whose mods are prepared in the background, one at a     *)
(* time.  Every method holds one lock, so each is one action; GTK calls    *)
(* enqueue, retry, cancel and shutdown, the worker that runs a request     *)
(* calls finish, and the calls of both arrive in any order.                *)
(*                                                                         *)
(* A request is named by its number (request_id).  The frozen server       *)
(* snapshot, display names and error texts are left out.                   *)
(***************************************************************************)
EXTENDS Integers, Sequences, FiniteSets

CONSTANTS Servers,      \* server identities ("ip:game port")
          MaxRequests,  \* bound: request numbers the queue hands out
          None          \* Python's None

ASSUME QueueAssumption == MaxRequests \in Nat

Outcomes == {"ready", "no_required_mods", "failed", "cancelled"}
TerminalStates == {"ready", "failed", "cancelled"}
OpenStates == {"queued", "preparing"}

Request == [number: Nat, batch: Nat, epoch: Nat, id: Servers, order: Nat]
Record == [number: Nat, batch: Nat, order: Nat,
           state: OpenStates \cup TerminalStates,
           progress: BOOLEAN, outcome: Outcomes \cup {None}]
Entry == [id: Servers, number: Nat, batch: Nat, order: Nat, state: TerminalStates]
Batch == [batch: Nat, entries: SUBSET Entry, cancelledByUser: BOOLEAN]

ASSUME NoneAssumption == None \notin Request \cup Record \cup Batch \cup Outcomes

VARIABLES
  nextRequest, nextBatch, nextOrder,  \* _next_request_id, _next_batch_id, _next_batch_order
  activeBatch,  \* _active_batch_id, 0 between batches
  epoch,        \* _epoch: dispatches of an older epoch are stale
  active,       \* _active: the request being prepared, or None
  attached,     \* _active_controller is not None
  pending,      \* _pending, a deque
  records,      \* _records[id], or None when the dict has no such key
  entries,      \* _batch_entries.values()
  completed,    \* _completed_batch, or None
  accepting, cancelling, shutdown, blocked

batchVars == <<nextBatch, nextOrder, activeBatch, entries, completed>>
workVars == <<active, attached, pending, records>>
modeVars == <<accepting, cancelling, shutdown, blocked>>
queueVars == <<nextRequest, epoch, batchVars, workVars, modeVars>>

TypeOK ==
  /\ nextRequest \in Nat /\ nextBatch \in Nat /\ nextOrder \in Nat
  /\ activeBatch \in Nat /\ epoch \in Nat
  /\ active \in Request \cup {None}
  /\ attached \in BOOLEAN
  /\ pending \in Seq(Request)
  /\ records \in [Servers -> Record \cup {None}]
  /\ entries \subseteq Entry
  /\ completed \in Batch \cup {None}
  /\ accepting \in BOOLEAN /\ cancelling \in BOOLEAN
  /\ shutdown \in BOOLEAN /\ blocked \in BOOLEAN

QueueInit ==
  /\ nextRequest = 0 /\ nextBatch = 0 /\ nextOrder = 0
  /\ activeBatch = 0 /\ epoch = 0
  /\ active = None /\ attached = FALSE /\ pending = <<>>
  /\ records = [s \in Servers |-> None]
  /\ entries = {} /\ completed = None
  /\ accepting = TRUE /\ cancelling = FALSE
  /\ shutdown = FALSE /\ blocked = FALSE

-----------------------------------------------------------------------------
(* Snapshot predicates. *)
Busy == active # None \/ pending # <<>> \/ cancelling

StateOf(s) == IF records[s] = None THEN "idle" ELSE records[s].state

(* What enqueue and enqueue_retry_batch refuse first. *)
Accepts == accepting /\ ~shutdown /\ ~cancelling

(* Mutation: an attached request counts as reserved. *)
AnyActive == active # None

(* The active request is reserved: no controller is attached to it yet. *)
Reserved == active # None /\ ~attached

(* The record of r's server still speaks of r, not of a later request. *)
Owns(r) == records[r.id] # None /\ records[r.id].number = r.number

(* Mutation: callbacks are told from each other by their epoch alone. *)
IsOfThisEpoch(r) == ~shutdown /\ ~cancelling /\ r.epoch = epoch

IsCurrent(r) == ~shutdown /\ ~cancelling /\ active = r /\ r.epoch = epoch

TerminalState(outcome) ==
  CASE outcome \in {"ready", "no_required_mods"} -> "ready"
    [] outcome = "cancelled" -> "cancelled"
    [] OTHER -> "failed"

(* The row of a request, or a row rewritten. *)
Row(rec, state, progress, outcome) ==
  [number |-> rec.number, batch |-> rec.batch, order |-> rec.order,
   state |-> state, progress |-> progress, outcome |-> outcome]

QueuedRecord(r) == Row(r, "queued", FALSE, None)

FinishedRecord(rec, outcome) == Row(rec, TerminalState(outcome), FALSE, outcome)

EntryOf(s, rec) ==
  [id |-> s, number |-> rec.number, batch |-> rec.batch, order |-> rec.order,
   state |-> rec.state]

(* _clear_completed_locked: forget the finished rows of the last batch,
   unless a newer request of the same server took the row over.           *)
Reported(s) ==
  /\ completed # None
  /\ \E e \in completed.entries :
       /\ e.id = s /\ e.number = records[s].number /\ e.batch = records[s].batch
  /\ records[s].state \in TerminalStates

ClearedRecords ==
  [s \in Servers |-> IF records[s] # None /\ Reported(s) THEN None ELSE records[s]]

(* The rows of the servers still waiting are dropped with the deque. *)
RecordsWithoutPending ==
  [s \in Servers |->
     IF \E i \in DOMAIN pending : pending[i].id = s /\ Owns(pending[i])
     THEN None ELSE records[s]]

(* _promote_locked, on the fields its caller has just written: the oldest
   request becomes the active one, reserved until a controller attaches.  *)
Promotion(act, att, queue, recs, cancels) ==
  IF act # None \/ cancels \/ shutdown \/ queue = <<>>
  THEN [active |-> act, attached |-> att, pending |-> queue, records |-> recs]
  ELSE [active |-> Head(queue), attached |-> FALSE, pending |-> Tail(queue),
        records |-> [recs EXCEPT ![Head(queue).id] =
          Row(recs[Head(queue).id], "preparing", FALSE, None)]]

Install(work) ==
  /\ active' = work.active /\ attached' = work.attached
  /\ pending' = work.pending /\ records' = work.records

(* Mutation: the result that completes the batch is not in the report. *)
FinalizeWithoutLast(all, byUser) ==
  /\ completed' = [batch |-> activeBatch, entries |-> entries, cancelledByUser |-> byUser]
  /\ activeBatch' = 0 /\ nextOrder' = 0 /\ entries' = {}

(* _finalize_batch_locked, for a batch whose entries are all in. *)
Finalize(all, byUser) ==
  /\ completed' = [batch |-> activeBatch, entries |-> all, cancelledByUser |-> byUser]
  /\ activeBatch' = 0 /\ nextOrder' = 0 /\ entries' = {}

KeepBatch == UNCHANGED <<completed, activeBatch, nextOrder, entries>>

-----------------------------------------------------------------------------
(* GTK: a server's download button. *)
Enqueue(s) ==
  /\ Accepts
  /\ StateOf(s) \notin OpenStates
  /\ nextRequest < MaxRequests
  /\ LET first == activeBatch = 0
         request == [number |-> nextRequest + 1, id |-> s,
                     batch |-> IF first THEN nextBatch + 1 ELSE activeBatch,
                     epoch |-> IF first THEN epoch + 1 ELSE epoch,
                     order |-> IF first THEN 0 ELSE nextOrder]
         kept == IF first THEN ClearedRecords ELSE records
     IN /\ activeBatch' = request.batch
        /\ nextBatch' = IF first THEN nextBatch + 1 ELSE nextBatch
        /\ epoch' = request.epoch
        /\ nextOrder' = request.order + 1
        /\ entries' = IF first THEN {} ELSE entries
        /\ completed' = IF first THEN None ELSE completed
        /\ Install(Promotion(active, attached, Append(pending, request),
                             [kept EXCEPT ![s] = QueuedRecord(request)], cancelling))
  /\ nextRequest' = nextRequest + 1
  /\ UNCHANGED modeVars

(* Sorting by batch_order keeps a retried item before a setup failure of
   the same order; request numbers are then handed out in that order.     *)
ItemNumber(items, failures, i) ==
  nextRequest + i
    + Cardinality({k \in DOMAIN failures : failures[k].order < items[i].order})

FailureNumber(items, failures, k) ==
  nextRequest + k
    + Cardinality({i \in DOMAIN items : items[i].order <= failures[k].order})

LastOf(list, s) ==
  CHOOSE i \in DOMAIN list :
    list[i].id = s /\ \A j \in DOMAIN list : list[j].id = s => j <= i

(* GTK: retry the failed servers of the last batch as a new batch.  items
   are those that still resolve, failures those that no longer do; the
   callers pass both in batch order.                                      *)
EnqueueRetryBatch(items, failures) ==
  /\ Accepts
  /\ active = None /\ pending = <<>>
  /\ nextRequest + Len(items) + Len(failures) <= MaxRequests
  /\ LET batch == nextBatch + 1
         requests == [i \in DOMAIN items |->
           [number |-> ItemNumber(items, failures, i), batch |-> batch,
            epoch |-> epoch + 1, id |-> items[i].id, order |-> items[i].order]]
         rejected == [k \in DOMAIN failures |->
           [number |-> FailureNumber(items, failures, k), batch |-> batch,
            order |-> failures[k].order, state |-> "failed",
            progress |-> FALSE, outcome |-> "failed"]]
         rows == [s \in Servers |->
           IF \E i \in DOMAIN items : items[i].id = s
           THEN QueuedRecord(requests[LastOf(items, s)])
           ELSE IF \E k \in DOMAIN failures : failures[k].id = s
           THEN rejected[LastOf(failures, s)]
           ELSE ClearedRecords[s]]
         setup == {EntryOf(failures[k].id, rejected[k]) : k \in DOMAIN failures}
     IN /\ nextBatch' = batch
        /\ Install(Promotion(None, attached, requests, rows, cancelling))
        /\ IF items = <<>>
           THEN /\ completed' = [batch |-> batch, entries |-> setup,
                                 cancelledByUser |-> FALSE]
                /\ activeBatch' = 0 /\ nextOrder' = 0 /\ entries' = {}
           ELSE /\ completed' = None /\ activeBatch' = batch
                /\ nextOrder' = items[Len(items)].order + 1
                /\ entries' = setup
  /\ epoch' = epoch + 1
  /\ nextRequest' = nextRequest + Len(items) + Len(failures)
  /\ UNCHANGED modeVars

(* GTK: the dispatched request gets its controller. *)
AttachController(r) ==
  /\ IsCurrent(r)
  /\ attached' = TRUE
  /\ UNCHANGED <<nextRequest, epoch, batchVars, active, pending, records, modeVars>>

(* GTK callbacks posted by the worker's presenter. *)
UpdateProgress(r) ==
  /\ IsCurrent(r) /\ Owns(r)
  /\ LET rec == records[r.id]
     IN records' = [records EXCEPT ![r.id] = Row(rec, rec.state, TRUE, rec.outcome)]
  /\ UNCHANGED <<nextRequest, epoch, batchVars, active, attached, pending, modeVars>>

ObserveTerminal(r, outcome) ==
  /\ IsCurrent(r) /\ Owns(r)
  /\ LET rec == records[r.id]
     IN records' = [records EXCEPT ![r.id] = Row(rec, rec.state, rec.progress, outcome)]
  /\ UNCHANGED <<nextRequest, epoch, batchVars, active, attached, pending, modeVars>>

-----------------------------------------------------------------------------
FinishAccepted(r) ==
  active = r /\ (r.epoch = epoch \/ cancelling \/ shutdown) /\ Owns(r)

(* The worker returned.  While the queue cancels or shuts down, whatever it
   returned counts as cancelled.                                          *)
Finish(r, outcome) ==
  /\ FinishAccepted(r)
  /\ LET final == IF cancelling \/ shutdown THEN "cancelled" ELSE outcome
         record == FinishedRecord(records[r.id], final)
         rows == [records EXCEPT ![r.id] = record]
         all == entries \cup {EntryOf(r.id, record)}
     IN \/ /\ cancelling
           /\ Install([active |-> None, attached |-> FALSE,
                       pending |-> pending, records |-> rows])
           /\ Finalize(all, TRUE)
           /\ cancelling' = FALSE /\ accepting' = TRUE
        \/ /\ ~cancelling /\ shutdown
           /\ Install([active |-> None, attached |-> FALSE,
                       pending |-> pending, records |-> rows])
           /\ activeBatch' = 0 /\ entries' = {}
           /\ UNCHANGED <<completed, nextOrder, cancelling, accepting>>
        \/ /\ ~cancelling /\ ~shutdown
           /\ Install(Promotion(None, FALSE, pending, rows, cancelling))
           /\ IF pending = <<>> THEN Finalize(all, FALSE)
              ELSE entries' = all /\ UNCHANGED <<completed, activeBatch, nextOrder>>
           /\ UNCHANGED <<cancelling, accepting>>
  /\ UNCHANGED <<nextRequest, nextBatch, epoch, shutdown, blocked>>

EnterBlock == accepting' = FALSE /\ cancelling' = FALSE /\ blocked' = TRUE

BlockAccepted(r) == active = r /\ Owns(r)

(* The worker could not confirm that its Steam helper exited: the request
   fails and nothing is dispatched until the gate recovers.               *)
FinishBlockedReapFailure(r) ==
  /\ BlockAccepted(r)
  /\ LET record == FinishedRecord(records[r.id], "failed")
         all == entries \cup {EntryOf(r.id, record)}
     IN /\ Install([active |-> None, attached |-> FALSE, pending |-> pending,
                    records |-> [records EXCEPT ![r.id] = record]])
        /\ IF pending = <<>> THEN Finalize(all, FALSE)
           ELSE entries' = all /\ UNCHANGED <<completed, activeBatch, nextOrder>>
  /\ EnterBlock
  /\ UNCHANGED <<nextRequest, nextBatch, epoch, shutdown>>

(* GTK: the gate recovered. *)
ClearReapBlock ==
  /\ blocked
  /\ blocked' = FALSE /\ accepting' = ~shutdown
  /\ Install(Promotion(active, attached, pending, records, cancelling))
  /\ IF ~shutdown /\ activeBatch # 0 /\ pending = <<>>
     THEN Finalize(entries, FALSE) ELSE KeepBatch
  /\ UNCHANGED <<nextRequest, nextBatch, epoch, cancelling, shutdown>>

(* GTK: "Cancel Queue" while blocked. *)
CancelBlockedPending ==
  /\ blocked
  /\ pending' = <<>> /\ records' = RecordsWithoutPending
  /\ IF activeBatch # 0 THEN Finalize(entries, TRUE) ELSE KeepBatch
  /\ UNCHANGED <<nextRequest, nextBatch, epoch, active, attached, modeVars>>

(* GTK: "Cancel".  The waiting requests go; a request whose controller is
   not attached yet ends here, an attached one when its worker returns.
   The lookup of a reserved request's row raises KeyError when the row was
   dropped with a waiting request of the same server.                     *)
CancelAll ==
  /\ ~shutdown /\ ~cancelling /\ Busy
  /\ epoch' = epoch + 1
  /\ pending' = <<>>
  /\ LET rows == RecordsWithoutPending
     IN \/ /\ Reserved /\ rows[active.id] # None
           /\ LET record == Row(rows[active.id], "cancelled",
                               rows[active.id].progress, "cancelled")
              IN /\ records' = [rows EXCEPT ![active.id] = record]
                 /\ Finalize(entries \cup {EntryOf(active.id, record)}, TRUE)
           /\ active' = None
           /\ accepting' = TRUE
           /\ UNCHANGED cancelling
        \/ /\ ~(Reserved /\ rows[active.id] # None)
           /\ records' = rows
           /\ cancelling' = TRUE /\ accepting' = FALSE
           /\ KeepBatch
           /\ UNCHANGED active
  /\ UNCHANGED <<nextRequest, nextBatch, attached, shutdown, blocked>>

(* GTK: the window closes. *)
Shutdown ==
  /\ ~shutdown
  /\ shutdown' = TRUE /\ accepting' = FALSE /\ cancelling' = FALSE
  /\ epoch' = epoch + 1
  /\ pending' = <<>>
  /\ completed' = None
  /\ IF Reserved
     THEN /\ active' = None /\ activeBatch' = 0 /\ entries' = {}
          /\ records' = [RecordsWithoutPending EXCEPT ![active.id] = None]
     ELSE /\ records' = RecordsWithoutPending
          /\ UNCHANGED <<active, activeBatch, entries>>
  /\ UNCHANGED <<nextRequest, nextBatch, nextOrder, attached, blocked>>

(* GTK: the summary of the last batch is closed. *)
ClearCompletedBatch ==
  /\ active = None /\ pending = <<>> /\ ~cancelling
  /\ records' = ClearedRecords
  /\ completed' = None
  /\ UNCHANGED <<nextRequest, epoch, nextBatch, nextOrder, activeBatch, entries,
                 active, attached, pending, modeVars>>

-----------------------------------------------------------------------------
(* What the window makes of the last batch's failed entries. *)
FailedEntries ==
  IF completed = None THEN {} ELSE {e \in completed.entries : e.state = "failed"}

Before(a, b) == a.order < b.order \/ (a.order = b.order /\ a.number < b.number)

Orderings(S) ==
  {list \in [1..Cardinality(S) -> S] :
     \A i, j \in 1..Cardinality(S) : i < j => Before(list[i], list[j])}

Retry(resolvable) ==
  /\ FailedEntries # {}
  /\ \E items \in Orderings({e \in FailedEntries : e.id \in resolvable}),
        failures \in Orderings({e \in FailedEntries : e.id \notin resolvable}) :
       EnqueueRetryBatch(items, failures)

=============================================================================
