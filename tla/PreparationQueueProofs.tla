------------------------ MODULE PreparationQueueProofs ------------------------
(***************************************************************************)
(* The queue's safety for any servers and any number of requests, and then *)
(* that of the system which composes the queue with the gate, the workers  *)
(* and the GTK thread (BackgroundPreparation).                             *)
(***************************************************************************)
EXTENDS PreparationQueue, BackgroundPreparation, FiniteSetTheorems, SequenceTheorems, TLAPS

(* The part of the invariant that a promotion touches, of any active
   request, deque and rows: top bounds the numbers handed out, and stale
   says that the active request may be of an older epoch.                 *)
Shape(act, queue, recs, batch, ep, top, stale) ==
  /\ act \in Request \cup {None}
  /\ queue \in Seq(Request)
  /\ recs \in [Servers -> Record \cup {None}]
  /\ \A i \in 1..Len(queue) : recs[queue[i].id] # None
  /\ \A i, j \in 1..Len(queue) : i < j => queue[i].number < queue[j].number
  /\ \A i \in 1..Len(queue) :
       /\ queue[i].number <= top
       /\ queue[i].batch = batch /\ batch # 0
       /\ queue[i].epoch = ep
  /\ act # None =>
       /\ act.number <= top
       /\ act.batch = batch /\ batch # 0
       /\ act.epoch = ep \/ stale
       /\ \A i \in 1..Len(queue) : act.number < queue[i].number

Stale == cancelling \/ shutdown

(* The rest of it. *)
Frame ==
  /\ nextRequest \in Nat /\ nextBatch \in Nat /\ nextOrder \in Nat
  /\ activeBatch \in Nat /\ epoch \in Nat
  /\ attached \in BOOLEAN
  /\ entries \subseteq Entry /\ completed \in Batch \cup {None}
  /\ accepting \in BOOLEAN /\ cancelling \in BOOLEAN
  /\ shutdown \in BOOLEAN /\ blocked \in BOOLEAN
  /\ BlockedIsQuiet /\ ClosedQueueIsEmpty /\ ReportsAreFinite

LEMMA NoneIsNothing ==
  /\ \A r \in Request : r # None
  /\ \A rec \in Record : rec # None
  /\ \A b \in Batch : b # None
  /\ None \notin Outcomes
BY NoneAssumption

LEMMA InvIsShapeAndFrame ==
  QueueInv <=>
    Frame /\ Shape(active, pending, records, activeBatch, epoch, nextRequest,
                   Stale)
<1>1. ASSUME QueueInv
      PROVE  Frame /\ Shape(active, pending, records, activeBatch, epoch, nextRequest,
                            Stale)
  <2>1. pending \in Seq(Request) /\ DOMAIN pending = 1..Len(pending)
    BY <1>1, LenProperties DEF QueueInv, TypeOK
  <2>2. \A i \in 1..Len(pending) : pending[i] \in Waiting
    BY <2>1 DEF Waiting
  <2>3. \A i \in 1..Len(pending) : pending[i] \in Outstanding
    BY <2>2 DEF Outstanding
  <2>4. active # None => active \in Outstanding
    BY DEF Outstanding
  <2>5. Frame
    BY <1>1 DEF QueueInv, TypeOK, Frame
  <2>6. Shape(active, pending, records, activeBatch, epoch, nextRequest,
              Stale)
    BY <1>1, <2>1, <2>2, <2>3, <2>4
       DEF QueueInv, TypeOK, Shape, SerialReservation, OutstandingIsCurrent, WaitingHaveRows, Stale
  <2>7. QED BY <2>5, <2>6
<1>2. ASSUME Frame, Shape(active, pending, records, activeBatch, epoch, nextRequest,
                          Stale)
      PROVE  QueueInv
  <2>1. DOMAIN pending = 1..Len(pending)
    BY <1>2, LenProperties DEF Shape
  <2>2. TypeOK
    BY <1>2 DEF Frame, Shape, TypeOK
  <2>3. SerialReservation
    BY <1>2, <2>1 DEF Shape, SerialReservation, Outstanding, Waiting
  <2>4. OutstandingIsCurrent
    BY <1>2, <2>1 DEF Shape, OutstandingIsCurrent, Waiting, Stale
  <2>5. WaitingHaveRows
    BY <1>2, <2>1 DEF Shape, WaitingHaveRows
  <2>6. QED BY <1>2, <2>2, <2>3, <2>4, <2>5 DEF QueueInv, Frame
<1>3. QED BY <1>1, <1>2

LEMMA RowOfRequest ==
  ASSUME NEW r \in Request
  PROVE  QueuedRecord(r) \in Record /\ QueuedRecord(r) # None
<1>1. QueuedRecord(r) \in Record
  BY DEF QueuedRecord, Row, Request, Record, OpenStates
<1>2. QED BY <1>1, NoneIsNothing

LEMMA RowOfRecord ==
  ASSUME NEW rec \in Record, NEW state \in OpenStates \cup TerminalStates,
         NEW progress \in BOOLEAN, NEW outcome \in Outcomes \cup {None}
  PROVE  /\ Row(rec, state, progress, outcome) \in Record
         /\ Row(rec, state, progress, outcome) # None
         /\ Row(rec, state, progress, outcome).state = state
<1>1. Row(rec, state, progress, outcome) \in Record
  BY DEF Row, Record
<1>2. Row(rec, state, progress, outcome).state = state
  BY DEF Row
<1>3. QED BY <1>1, <1>2, NoneIsNothing

LEMMA EntryOfRecord ==
  ASSUME NEW rec \in Record, rec.state \in TerminalStates, NEW s \in Servers
  PROVE  EntryOf(s, rec) \in Entry
BY DEF EntryOf, Entry, Record

LEMMA PromotionAttaches ==
  ASSUME NEW act, NEW att \in BOOLEAN, NEW queue, NEW recs, NEW cancels
  PROVE  Promotion(act, att, queue, recs, cancels).attached \in BOOLEAN
BY DEF Promotion

(* Promoting the head of a well-formed queue leaves it well-formed. *)
LEMMA PromotionKeepsShape ==
  ASSUME NEW act, NEW att, NEW queue, NEW recs, NEW cancels,
         NEW batch, NEW ep, NEW top \in Nat, NEW stale, NEW work,
         Shape(act, queue, recs, batch, ep, top, stale),
         work = Promotion(act, att, queue, recs, cancels)
  PROVE  /\ Shape(work.active, work.pending, work.records, batch, ep, top, stale)
         /\ queue = <<>> => work.active = act /\ work.pending = <<>>
<1>1. CASE act # None \/ cancels \/ shutdown \/ queue = <<>>
  <2>1. work = [active |-> act, attached |-> att, pending |-> queue, records |-> recs]
    BY <1>1 DEF Promotion
  <2>2. QED BY <2>1
<1>2. CASE ~(act # None \/ cancels \/ shutdown \/ queue = <<>>)
  <2> DEFINE head == Head(queue)
             row == Row(recs[head.id], "preparing", FALSE, None)
             rows == [recs EXCEPT ![head.id] = row]
  <2>1. work = [active |-> head, attached |-> FALSE, pending |-> Tail(queue), records |-> rows]
    BY <1>2 DEF Promotion
  <2>2. queue \in Seq(Request) /\ queue # <<>> /\ Len(queue) \in Nat \ {0}
    BY <1>2, EmptySeq DEF Shape
  <2>3. /\ head \in Request /\ head = queue[1] /\ 1 \in 1..Len(queue)
        /\ Tail(queue) \in Seq(Request) /\ Len(Tail(queue)) = Len(queue) - 1
        /\ \A i \in 1..Len(Tail(queue)) : Tail(queue)[i] = queue[i+1] /\ i+1 \in 1..Len(queue)
    BY <2>2, HeadTailProperties
  <2>4. head.id \in Servers /\ recs[head.id] \in Record
    BY <2>3 DEF Shape, Request
  <2>5. row \in Record /\ row # None
    <3>1. "preparing" \in OpenStates \cup TerminalStates
      BY DEF OpenStates
    <3>2. None \in Outcomes \cup {None} /\ FALSE \in BOOLEAN
      OBVIOUS
    <3>3. QED BY <2>4, <3>1, <3>2, RowOfRecord
  <2>6. rows \in [Servers -> Record \cup {None}]
    BY <2>4, <2>5 DEF Shape
  <2>7. \A s \in Servers : recs[s] # None => rows[s] # None
    BY <2>4, <2>5 DEF Shape
  <2>8. \A i \in 1..Len(queue) : queue[i] \in Request /\ queue[i].id \in Servers
                                 /\ queue[i].number \in Nat
    <3>1. \A i \in 1..Len(queue) : queue[i] \in Request
      BY <2>2, ElementOfSeq
    <3>2. QED BY <3>1 DEF Request
  <2> HIDE DEF rows, row, head
  <2>9. Shape(head, Tail(queue), rows, batch, ep, top, stale)
    <3>1. \A i \in 1..Len(Tail(queue)) : rows[Tail(queue)[i].id] # None
      BY <2>3, <2>7, <2>8 DEF Shape
    <3>2. \A i, j \in 1..Len(Tail(queue)) :
            i < j => Tail(queue)[i].number < Tail(queue)[j].number
      BY <2>2, <2>3 DEF Shape
    <3>3. \A i \in 1..Len(Tail(queue)) : head.number < Tail(queue)[i].number
      BY <2>2, <2>3 DEF Shape
    <3>4. \A i \in 1..Len(Tail(queue)) :
            /\ Tail(queue)[i].number <= top
            /\ Tail(queue)[i].batch = batch /\ batch # 0
            /\ Tail(queue)[i].epoch = ep
      BY <2>3 DEF Shape
    <3>5. head.number <= top /\ head.batch = batch /\ batch # 0 /\ head.epoch = ep
      BY <2>3 DEF Shape
    <3>6. QED BY <2>3, <2>6, <3>1, <3>2, <3>3, <3>4, <3>5 DEF Shape
  <2>10. QED BY <1>2, <2>1, <2>9 DEF head
<1>3. QED BY <1>1, <1>2

-----------------------------------------------------------------------------
LEMMA InvIsShapeAndFrameNext ==
  QueueInv' <=>
    Frame' /\ Shape(active', pending', records', activeBatch', epoch', nextRequest',
                    Stale')
<1>1. (QueueInv <=>
         Frame /\ Shape(active, pending, records, activeBatch, epoch, nextRequest,
                        Stale))'
  BY InvIsShapeAndFrame, PTL
<1>2. QED BY <1>1

(* A batch that is finalised or kept is well-formed and finite. *)
LEMMA FinalizeKeepsFrame ==
  ASSUME NEW all \in SUBSET Entry, IsFiniteSet(all), activeBatch \in Nat,
         Finalize(all, TRUE) \/ Finalize(all, FALSE)
  PROVE  /\ completed' \in Batch \cup {None} /\ entries' \subseteq Entry
         /\ activeBatch' = 0 /\ nextOrder' = 0
         /\ ReportsAreFinite'
<1>1. completed' \in Batch /\ completed'.entries = all
  <2>1. CASE Finalize(all, TRUE)
    BY <2>1 DEF Finalize, Batch
  <2>2. CASE Finalize(all, FALSE)
    BY <2>2 DEF Finalize, Batch
  <2>3. QED BY <2>1, <2>2
<1>2. activeBatch' = 0 /\ nextOrder' = 0 /\ entries' = {}
  BY DEF Finalize
<1>3. QED BY <1>1, <1>2, FS_EmptySet DEF ReportsAreFinite

LEMMA KeepBatchKeepsFrame ==
  ASSUME Frame, KeepBatch
  PROVE  /\ completed' \in Batch \cup {None} /\ entries' \subseteq Entry
         /\ activeBatch' = activeBatch /\ nextOrder' = nextOrder
         /\ ReportsAreFinite'
BY DEF Frame, KeepBatch, ReportsAreFinite

LEMMA RowsStayTyped ==
  ASSUME records \in [Servers -> Record \cup {None}]
  PROVE  /\ RecordsWithoutPending \in [Servers -> Record \cup {None}]
         /\ ClearedRecords \in [Servers -> Record \cup {None}]
BY DEF RecordsWithoutPending, ClearedRecords

(* An empty deque is well-formed whatever else has happened. *)
LEMMA EmptyShape ==
  ASSUME NEW act, NEW recs \in [Servers -> Record \cup {None}],
         NEW batch, NEW ep, NEW top, NEW stale,
         act = None \/ /\ act \in Request /\ act.number <= top
                       /\ act.batch = batch /\ batch # 0 /\ (act.epoch = ep \/ stale)
  PROVE  Shape(act, <<>>, recs, batch, ep, top, stale)
<1>1. <<>> \in Seq(Request) /\ Len(<<>>) = 0 /\ 1..0 = {}
  BY EmptySeq
<1>2. QED BY <1>1 DEF Shape

(* A change of the row of the active request. *)
LEMMA RowChangeKeepsShape ==
  ASSUME QueueInv, NEW s \in Servers, NEW row \in Record,
         NEW act, act = active \/ act = None
  PROVE  Shape(act, pending, [records EXCEPT ![s] = row], activeBatch, epoch, nextRequest,
               Stale)
<1>1. Shape(active, pending, records, activeBatch, epoch, nextRequest, Stale)
  BY InvIsShapeAndFrame
<1> DEFINE rows == [records EXCEPT ![s] = row]
<1>2. rows \in [Servers -> Record \cup {None}]
  BY <1>1 DEF Shape
<1>3. \A t \in Servers : records[t] # None => rows[t] # None
  BY <1>1, NoneIsNothing DEF Shape
<1>4. \A i \in 1..Len(pending) : pending[i].id \in Servers
  <2>1. \A i \in 1..Len(pending) : pending[i] \in Request
    BY <1>1, ElementOfSeq DEF Shape
  <2>2. QED BY <2>1 DEF Request
<1> HIDE DEF rows
<1>5. QED BY <1>1, <1>2, <1>3, <1>4 DEF Shape, rows

-----------------------------------------------------------------------------
(* One lemma per call. *)
LEMMA AttachControllerStep ==
  ASSUME QueueInv, NEW r, AttachController(r) PROVE QueueInv'
<1>1. Frame'
  BY InvIsShapeAndFrame DEF AttachController, Frame, batchVars, modeVars,
     BlockedIsQuiet, ClosedQueueIsEmpty, ReportsAreFinite
<1>2. Shape(active', pending', records', activeBatch', epoch', nextRequest', Stale')
  BY InvIsShapeAndFrame DEF AttachController, batchVars, modeVars, Stale
<1>3. QED BY <1>1, <1>2, InvIsShapeAndFrameNext

LEMMA UpdateProgressStep ==
  ASSUME QueueInv, NEW r \in Request, UpdateProgress(r) PROVE QueueInv'
<1> DEFINE rec == records[r.id]
           row == Row(rec, rec.state, TRUE, rec.outcome)
<1>1. r.id \in Servers
  BY DEF Request
<1>2. rec \in Record
  BY <1>1 DEF UpdateProgress, Owns, QueueInv, TypeOK
<1>3. row \in Record
  <2>1. rec.state \in OpenStates \cup TerminalStates /\ rec.outcome \in Outcomes \cup {None}
        /\ TRUE \in BOOLEAN
    BY <1>2 DEF Record
  <2>2. QED BY <1>2, <2>1, RowOfRecord
<1>4. records' = [records EXCEPT ![r.id] = row]
  BY DEF UpdateProgress
<1> HIDE DEF row
<1>5. Shape(active', pending', records', activeBatch', epoch', nextRequest', Stale')
  <2>1. Shape(active, pending, [records EXCEPT ![r.id] = row], activeBatch, epoch,
              nextRequest, Stale)
    BY <1>1, <1>3, RowChangeKeepsShape
  <2>2. QED BY <1>4, <2>1 DEF UpdateProgress, batchVars, modeVars, Stale
<1>6. Frame'
  BY InvIsShapeAndFrame DEF UpdateProgress, Frame, batchVars, modeVars,
     BlockedIsQuiet, ClosedQueueIsEmpty, ReportsAreFinite
<1>7. QED BY <1>5, <1>6, InvIsShapeAndFrameNext

LEMMA ObserveTerminalStep ==
  ASSUME QueueInv, NEW r \in Request, NEW outcome \in Outcomes, ObserveTerminal(r, outcome)
  PROVE  QueueInv'
<1> DEFINE rec == records[r.id]
           row == Row(rec, rec.state, rec.progress, outcome)
<1>1. r.id \in Servers
  BY DEF Request
<1>2. rec \in Record
  BY <1>1 DEF ObserveTerminal, Owns, QueueInv, TypeOK
<1>3. row \in Record
  <2>1. rec.state \in OpenStates \cup TerminalStates /\ rec.progress \in BOOLEAN
        /\ outcome \in Outcomes \cup {None}
    BY <1>2 DEF Record
  <2>2. QED BY <1>2, <2>1, RowOfRecord
<1>4. records' = [records EXCEPT ![r.id] = row]
  BY DEF ObserveTerminal
<1> HIDE DEF row
<1>5. Shape(active', pending', records', activeBatch', epoch', nextRequest', Stale')
  <2>1. Shape(active, pending, [records EXCEPT ![r.id] = row], activeBatch, epoch,
              nextRequest, Stale)
    BY <1>1, <1>3, RowChangeKeepsShape
  <2>2. QED BY <1>4, <2>1 DEF ObserveTerminal, batchVars, modeVars, Stale
<1>6. Frame'
  BY InvIsShapeAndFrame DEF ObserveTerminal, Frame, batchVars, modeVars,
     BlockedIsQuiet, ClosedQueueIsEmpty, ReportsAreFinite
<1>7. QED BY <1>5, <1>6, InvIsShapeAndFrameNext

LEMMA ClearCompletedBatchStep ==
  ASSUME QueueInv, ClearCompletedBatch PROVE QueueInv'
<1>1. records' \in [Servers -> Record \cup {None}]
  BY RowsStayTyped DEF ClearCompletedBatch, QueueInv, TypeOK
<1>2. Shape(active', pending', records', activeBatch', epoch', nextRequest', Stale')
  BY <1>1, EmptyShape DEF ClearCompletedBatch
<1>3. Frame'
  BY InvIsShapeAndFrame DEF ClearCompletedBatch, Frame, modeVars,
     BlockedIsQuiet, ClosedQueueIsEmpty, ReportsAreFinite
<1>4. QED BY <1>2, <1>3, InvIsShapeAndFrameNext

LEMMA CancelBlockedPendingStep ==
  ASSUME QueueInv, CancelBlockedPending PROVE QueueInv'
<1>1. Frame /\ active = None
  BY InvIsShapeAndFrame DEF CancelBlockedPending, QueueInv, BlockedIsQuiet
<1>2. /\ completed' \in Batch \cup {None} /\ entries' \subseteq Entry
      /\ activeBatch' \in Nat /\ nextOrder' \in Nat /\ ReportsAreFinite'
  <2>1. CASE activeBatch # 0
    <3>1. Finalize(entries, TRUE)
      BY <2>1 DEF CancelBlockedPending
    <3>2. entries \in SUBSET Entry /\ IsFiniteSet(entries) /\ activeBatch \in Nat
      BY <1>1 DEF Frame, ReportsAreFinite
    <3>3. /\ completed' \in Batch \cup {None} /\ entries' \subseteq Entry
          /\ activeBatch' = 0 /\ nextOrder' = 0 /\ ReportsAreFinite'
      BY <3>1, <3>2, FinalizeKeepsFrame
    <3>4. QED BY <3>3
  <2>2. CASE ~(activeBatch # 0)
    BY <1>1, <2>2, KeepBatchKeepsFrame DEF CancelBlockedPending, Frame
  <2>3. QED BY <2>1, <2>2
<1>3. records' \in [Servers -> Record \cup {None}]
  BY RowsStayTyped DEF CancelBlockedPending, QueueInv, TypeOK
<1>4. Shape(active', pending', records', activeBatch', epoch', nextRequest', Stale')
  BY <1>1, <1>3, EmptyShape DEF CancelBlockedPending
<1>5. Frame'
  BY <1>1, <1>2 DEF CancelBlockedPending, Frame, modeVars, BlockedIsQuiet, ClosedQueueIsEmpty
<1>6. QED BY <1>4, <1>5, InvIsShapeAndFrameNext

LEMMA FinishedIsRecord ==
  ASSUME NEW rec \in Record, NEW outcome \in Outcomes
  PROVE  /\ FinishedRecord(rec, outcome) \in Record
         /\ FinishedRecord(rec, outcome).state \in TerminalStates
<1>1. TerminalState(outcome) \in TerminalStates
  BY DEF TerminalState, TerminalStates, Outcomes
<1>2. TerminalState(outcome) \in OpenStates \cup TerminalStates
      /\ FALSE \in BOOLEAN /\ outcome \in Outcomes \cup {None}
  BY <1>1
<1>3. QED BY <1>1, <1>2, RowOfRecord DEF FinishedRecord

(* What a return of r changes: its row, and one more entry. *)
LEMMA ReturnedRow ==
  ASSUME QueueInv, NEW r \in Request, Owns(r), NEW outcome \in Outcomes
  PROVE  /\ r.id \in Servers
         /\ FinishedRecord(records[r.id], outcome) \in Record
         /\ entries \cup {EntryOf(r.id, FinishedRecord(records[r.id], outcome))} \in SUBSET Entry
         /\ IsFiniteSet(entries \cup {EntryOf(r.id, FinishedRecord(records[r.id], outcome))})
<1> DEFINE record == FinishedRecord(records[r.id], outcome)
<1>1. r.id \in Servers
  BY DEF Request
<1>2. records[r.id] \in Record
  BY <1>1 DEF Owns, QueueInv, TypeOK
<1>3. record \in Record /\ record.state \in TerminalStates
  BY <1>2, FinishedIsRecord
<1>4. entries \subseteq Entry /\ IsFiniteSet(entries)
  BY DEF QueueInv, TypeOK, ReportsAreFinite
<1> HIDE DEF record
<1>5. EntryOf(r.id, record) \in Entry
  BY <1>1, <1>3, EntryOfRecord
<1>6. IsFiniteSet(entries \cup {EntryOf(r.id, record)})
  BY <1>4, FS_AddElement
<1>7. QED BY <1>1, <1>3, <1>4, <1>5, <1>6 DEF record

LEMMA FinishBlockedStep ==
  ASSUME QueueInv, NEW r \in Request, FinishBlockedReapFailure(r) PROVE QueueInv'
<1> DEFINE record == FinishedRecord(records[r.id], "failed")
           rows == [records EXCEPT ![r.id] = record]
           all == entries \cup {EntryOf(r.id, record)}
<1>1. active = r /\ Owns(r) /\ "failed" \in Outcomes
  BY DEF FinishBlockedReapFailure, BlockAccepted, Outcomes
<1>2. /\ r.id \in Servers /\ record \in Record
      /\ all \in SUBSET Entry /\ IsFiniteSet(all)
  BY <1>1, ReturnedRow
<1>3. /\ active' = None /\ attached' = FALSE /\ pending' = pending /\ records' = rows
      /\ IF pending = <<>> THEN Finalize(all, FALSE)
         ELSE entries' = all /\ UNCHANGED <<completed, activeBatch, nextOrder>>
      /\ accepting' = FALSE /\ cancelling' = FALSE /\ blocked' = TRUE
      /\ UNCHANGED <<nextRequest, nextBatch, epoch, shutdown>>
  BY DEF FinishBlockedReapFailure, Install, EnterBlock
<1> HIDE DEF record, rows, all
<1>4. Frame
  BY InvIsShapeAndFrame
<1>5. Shape(None, pending, rows, activeBatch, epoch, nextRequest, Stale)
  BY <1>2, RowChangeKeepsShape DEF rows
<1>6. CASE pending = <<>>
  <2>1. /\ completed' \in Batch \cup {None} /\ entries' \subseteq Entry
        /\ activeBatch' = 0 /\ nextOrder' = 0 /\ ReportsAreFinite'
    BY <1>2, <1>3, <1>4, <1>6, FinalizeKeepsFrame DEF Frame
  <2>2. Frame'
    BY <1>3, <1>4, <1>6, <2>1 DEF Frame, BlockedIsQuiet, ClosedQueueIsEmpty
  <2>3. rows \in [Servers -> Record \cup {None}]
    BY <1>5 DEF Shape
  <2>4. Shape(active', pending', records', activeBatch', epoch', nextRequest',
              Stale')
    BY <1>3, <1>6, <2>3, EmptyShape
  <2>5. QED BY <2>2, <2>4, InvIsShapeAndFrameNext
<1>7. CASE pending # <<>>
  <2>1. ReportsAreFinite'
    BY <1>2, <1>3, <1>4, <1>7 DEF ReportsAreFinite, Frame
  <2>2. Frame'
    BY <1>2, <1>3, <1>4, <1>7, <2>1 DEF Frame, BlockedIsQuiet, ClosedQueueIsEmpty
  <2>3. Shape(active', pending', records', activeBatch', epoch', nextRequest',
              Stale')
    BY <1>3, <1>5, <1>7 DEF Shape
  <2>4. QED BY <2>2, <2>3, InvIsShapeAndFrameNext
<1>8. QED BY <1>6, <1>7

LEMMA FinishStep ==
  ASSUME QueueInv, NEW r \in Request, NEW outcome \in Outcomes, Finish(r, outcome)
  PROVE  QueueInv'
<1> DEFINE final == IF cancelling \/ shutdown THEN "cancelled" ELSE outcome
           record == FinishedRecord(records[r.id], final)
           rows == [records EXCEPT ![r.id] = record]
           all == entries \cup {EntryOf(r.id, record)}
<1>1. active = r /\ Owns(r) /\ active # None
  BY NoneIsNothing DEF Finish, FinishAccepted
<1>2. final \in Outcomes
  BY DEF Outcomes
<1>3. /\ \/ /\ cancelling
            /\ Install([active |-> None, attached |-> FALSE, pending |-> pending, records |-> rows])
            /\ Finalize(all, TRUE)
            /\ cancelling' = FALSE /\ accepting' = TRUE
         \/ /\ ~cancelling /\ shutdown
            /\ Install([active |-> None, attached |-> FALSE, pending |-> pending, records |-> rows])
            /\ activeBatch' = 0 /\ entries' = {}
            /\ UNCHANGED <<completed, nextOrder, cancelling, accepting>>
         \/ /\ ~cancelling /\ ~shutdown
            /\ Install(Promotion(None, FALSE, pending, rows, cancelling))
            /\ IF pending = <<>> THEN Finalize(all, FALSE)
               ELSE entries' = all /\ UNCHANGED <<completed, activeBatch, nextOrder>>
            /\ UNCHANGED <<cancelling, accepting>>
      /\ UNCHANGED <<nextRequest, nextBatch, epoch, shutdown, blocked>>
  BY DEF Finish
<1> HIDE DEF final
<1>4. /\ r.id \in Servers /\ record \in Record
      /\ all \in SUBSET Entry /\ IsFiniteSet(all)
  BY <1>1, <1>2, ReturnedRow
<1> HIDE DEF record, rows, all
<1>5. Frame /\ ~blocked
  BY <1>1, InvIsShapeAndFrame DEF Frame, BlockedIsQuiet
<1>6. Shape(None, pending, rows, activeBatch, epoch, nextRequest, Stale)
  BY <1>4, RowChangeKeepsShape DEF rows
<1>7. rows \in [Servers -> Record \cup {None}]
  BY <1>6 DEF Shape
<1>8. CASE cancelling
  <2>1. /\ active' = None /\ attached' = FALSE /\ pending' = <<>> /\ records' = rows
        /\ Finalize(all, TRUE) /\ cancelling' = FALSE /\ accepting' = TRUE
    BY <1>3, <1>5, <1>8 DEF Install, Frame, ClosedQueueIsEmpty
  <2>2. /\ completed' \in Batch \cup {None} /\ entries' \subseteq Entry
        /\ activeBatch' = 0 /\ nextOrder' = 0 /\ ReportsAreFinite'
    BY <1>4, <1>5, <2>1, FinalizeKeepsFrame DEF Frame
  <2>3. Frame'
    BY <1>3, <1>5, <2>1, <2>2 DEF Frame, BlockedIsQuiet, ClosedQueueIsEmpty
  <2>4. Shape(active', pending', records', activeBatch', epoch', nextRequest',
              Stale')
    BY <1>7, <2>1, EmptyShape
  <2>5. QED BY <2>3, <2>4, InvIsShapeAndFrameNext
<1>9. CASE ~cancelling /\ shutdown
  <2>1. /\ active' = None /\ attached' = FALSE /\ pending' = <<>> /\ records' = rows
        /\ activeBatch' = 0 /\ entries' = {}
        /\ UNCHANGED <<completed, nextOrder, cancelling, accepting>>
    BY <1>3, <1>5, <1>9 DEF Install, Frame, ClosedQueueIsEmpty
  <2>2. ReportsAreFinite'
    BY <1>5, <2>1, FS_EmptySet DEF Frame, ReportsAreFinite
  <2>3. Frame'
    BY <1>3, <1>5, <2>1, <2>2 DEF Frame, BlockedIsQuiet, ClosedQueueIsEmpty
  <2>4. Shape(active', pending', records', activeBatch', epoch', nextRequest',
              Stale')
    BY <1>7, <2>1, EmptyShape
  <2>5. QED BY <2>3, <2>4, InvIsShapeAndFrameNext
<1>10. CASE ~cancelling /\ ~shutdown
  <2> DEFINE unattached == FALSE
             work == Promotion(None, unattached, pending, rows, cancelling)
  <2>1. /\ active' = work.active /\ attached' = work.attached
        /\ pending' = work.pending /\ records' = work.records
        /\ IF pending = <<>> THEN Finalize(all, FALSE)
           ELSE entries' = all /\ UNCHANGED <<completed, activeBatch, nextOrder>>
        /\ UNCHANGED <<cancelling, accepting>>
    BY <1>3, <1>10 DEF Install
  <2>2. unattached \in BOOLEAN /\ nextRequest \in Nat
    BY <1>5 DEF Frame
  <2>a. work = Promotion(None, unattached, pending, rows, cancelling)
    OBVIOUS
  <2> HIDE DEF unattached, work
  <2>3. /\ Shape(work.active, work.pending, work.records, activeBatch, epoch, nextRequest,
                 Stale)
        /\ pending = <<>> => work.active = None /\ work.pending = <<>>
    BY <1>6, <2>2, <2>a, PromotionKeepsShape
  <2>b. work.attached \in BOOLEAN
    BY <2>2, <2>a, PromotionAttaches
  <2>4. CASE pending = <<>>
    <3>1. /\ completed' \in Batch \cup {None} /\ entries' \subseteq Entry
          /\ activeBatch' = 0 /\ nextOrder' = 0 /\ ReportsAreFinite'
      BY <1>4, <1>5, <2>1, <2>4, FinalizeKeepsFrame DEF Frame
    <3>2. Frame'
      BY <1>3, <1>5, <1>10, <2>1, <2>3, <2>b, <3>1 DEF Frame, BlockedIsQuiet, ClosedQueueIsEmpty
    <3>3. work.records \in [Servers -> Record \cup {None}]
      BY <2>3 DEF Shape
    <3>4. Shape(active', pending', records', activeBatch', epoch', nextRequest',
                Stale')
      BY <2>1, <2>3, <2>4, <3>3, EmptyShape
    <3>5. QED BY <3>2, <3>4, InvIsShapeAndFrameNext
  <2>5. CASE pending # <<>>
    <3>1. ReportsAreFinite'
      BY <1>4, <1>5, <2>1, <2>5 DEF ReportsAreFinite, Frame
    <3>2. Frame'
      BY <1>3, <1>4, <1>5, <1>10, <2>1, <2>3, <2>5, <2>b, <3>1
         DEF Frame, BlockedIsQuiet, ClosedQueueIsEmpty
    <3>3. Shape(active', pending', records', activeBatch', epoch', nextRequest',
                Stale')
      BY <1>3, <2>1, <2>3, <2>5 DEF Stale
    <3>4. QED BY <3>2, <3>3, InvIsShapeAndFrameNext
  <2>6. QED BY <2>4, <2>5
<1>11. QED BY <1>8, <1>9, <1>10

LEMMA ClearReapBlockStep ==
  ASSUME QueueInv, ClearReapBlock PROVE QueueInv'
<1> DEFINE work == Promotion(active, attached, pending, records, cancelling)
<1>1. /\ active' = work.active /\ attached' = work.attached
      /\ pending' = work.pending /\ records' = work.records
      /\ blocked /\ blocked' = FALSE /\ accepting' = ~shutdown
      /\ IF ~shutdown /\ activeBatch # 0 /\ pending = <<>>
         THEN Finalize(entries, FALSE) ELSE KeepBatch
      /\ UNCHANGED <<nextRequest, nextBatch, epoch, cancelling, shutdown>>
  BY DEF ClearReapBlock, Install
<1>2. work = Promotion(active, attached, pending, records, cancelling)
  OBVIOUS
<1> HIDE DEF work
<1>3. Frame /\ nextRequest \in Nat /\ attached \in BOOLEAN /\ active = None
  BY <1>1, InvIsShapeAndFrame DEF Frame, BlockedIsQuiet
<1>4. Shape(active, pending, records, activeBatch, epoch, nextRequest, Stale)
  BY InvIsShapeAndFrame
<1>5. /\ Shape(work.active, work.pending, work.records, activeBatch, epoch, nextRequest, Stale)
      /\ pending = <<>> => work.active = active /\ work.pending = <<>>
  BY <1>2, <1>3, <1>4, PromotionKeepsShape
<1>6. work.attached \in BOOLEAN
  BY <1>2, <1>3, PromotionAttaches
<1>7. CASE ~shutdown /\ activeBatch # 0 /\ pending = <<>>
  <2>1. Finalize(entries, FALSE)
    BY <1>1, <1>7
  <2>2. entries \in SUBSET Entry /\ IsFiniteSet(entries) /\ activeBatch \in Nat
    BY <1>3 DEF Frame, ReportsAreFinite
  <2>3. /\ completed' \in Batch \cup {None} /\ entries' \subseteq Entry
        /\ activeBatch' = 0 /\ nextOrder' = 0 /\ ReportsAreFinite'
    BY <2>1, <2>2, FinalizeKeepsFrame
  <2>4. Frame'
    BY <1>1, <1>3, <1>5, <1>6, <1>7, <2>3 DEF Frame, BlockedIsQuiet, ClosedQueueIsEmpty
  <2>5. work.records \in [Servers -> Record \cup {None}]
    BY <1>5 DEF Shape
  <2>6. Shape(active', pending', records', activeBatch', epoch', nextRequest', Stale')
    BY <1>1, <1>3, <1>5, <1>7, <2>5, EmptyShape
  <2>7. QED BY <2>4, <2>6, InvIsShapeAndFrameNext
<1>8. CASE ~(~shutdown /\ activeBatch # 0 /\ pending = <<>>)
  <2>1. /\ completed' \in Batch \cup {None} /\ entries' \subseteq Entry
        /\ activeBatch' = activeBatch /\ nextOrder' = nextOrder /\ ReportsAreFinite'
    BY <1>1, <1>3, <1>8, KeepBatchKeepsFrame
  <2>2. Frame'
    BY <1>1, <1>3, <1>5, <1>6, <1>8, <2>1 DEF Frame, BlockedIsQuiet, ClosedQueueIsEmpty
  <2>3. Shape(active', pending', records', activeBatch', epoch', nextRequest', Stale')
    BY <1>1, <1>5, <2>1 DEF Stale
  <2>4. QED BY <2>2, <2>3, InvIsShapeAndFrameNext
<1>9. QED BY <1>7, <1>8

LEMMA CancelAllStep ==
  ASSUME QueueInv, CancelAll PROVE QueueInv'
<1>1. /\ ~shutdown /\ ~cancelling /\ epoch' = epoch + 1 /\ pending' = <<>>
      /\ UNCHANGED <<nextRequest, nextBatch, attached, shutdown, blocked>>
  BY DEF CancelAll
<1>2. Frame
  BY InvIsShapeAndFrame
<1>3. RecordsWithoutPending \in [Servers -> Record \cup {None}]
  BY RowsStayTyped DEF QueueInv, TypeOK
<1>4. Shape(active, pending, records, activeBatch, epoch, nextRequest, Stale)
  BY InvIsShapeAndFrame
<1>5. CASE Reserved /\ RecordsWithoutPending[active.id] # None
  <2> DEFINE row == RecordsWithoutPending[active.id]
             record == Row(row, "cancelled", row.progress, "cancelled")
             all == entries \cup {EntryOf(active.id, record)}
  <2>1. /\ records' = [RecordsWithoutPending EXCEPT ![active.id] = record]
        /\ Finalize(all, TRUE)
        /\ active' = None /\ accepting' = TRUE /\ cancelling' = cancelling
    BY <1>5 DEF CancelAll
  <2>2. active # None /\ active \in Request /\ active.id \in Servers
    BY <1>4, <1>5 DEF Shape, Reserved, Request
  <2>3. row \in Record /\ row.progress \in BOOLEAN
    BY <1>3, <1>5, <2>2 DEF Record
  <2>4. "cancelled" \in TerminalStates /\ "cancelled" \in OpenStates \cup TerminalStates
        /\ "cancelled" \in Outcomes \cup {None}
    BY DEF TerminalStates, Outcomes
  <2> HIDE DEF row
  <2>5. record \in Record /\ record.state = "cancelled"
    BY <2>3, <2>4, RowOfRecord
  <2> HIDE DEF record
  <2>6. EntryOf(active.id, record) \in Entry
    BY <2>2, <2>4, <2>5, EntryOfRecord
  <2>7. all \in SUBSET Entry /\ IsFiniteSet(all) /\ activeBatch \in Nat
    BY <1>2, <2>6, FS_AddElement DEF Frame, ReportsAreFinite
  <2> HIDE DEF all
  <2>8. /\ completed' \in Batch \cup {None} /\ entries' \subseteq Entry
        /\ activeBatch' = 0 /\ nextOrder' = 0 /\ ReportsAreFinite'
    BY <2>1, <2>7, FinalizeKeepsFrame
  <2>9. Frame'
    BY <1>1, <1>2, <2>1, <2>2, <2>8 DEF Frame, BlockedIsQuiet, ClosedQueueIsEmpty
  <2>10. records' \in [Servers -> Record \cup {None}]
    BY <1>3, <2>1, <2>2, <2>5
  <2>11. Shape(active', pending', records', activeBatch', epoch', nextRequest', Stale')
    BY <1>1, <2>1, <2>10, EmptyShape
  <2>12. QED BY <2>9, <2>11, InvIsShapeAndFrameNext
<1>6. CASE ~(Reserved /\ RecordsWithoutPending[active.id] # None)
  <2>1. /\ records' = RecordsWithoutPending /\ cancelling' = TRUE /\ accepting' = FALSE
        /\ KeepBatch /\ active' = active
    BY <1>6 DEF CancelAll
  <2>2. /\ completed' \in Batch \cup {None} /\ entries' \subseteq Entry
        /\ activeBatch' = activeBatch /\ nextOrder' = nextOrder /\ ReportsAreFinite'
    BY <1>2, <2>1, KeepBatchKeepsFrame
  <2>3. Frame'
    <3>1. epoch' \in Nat
      BY <1>1, <1>2 DEF Frame
    <3>2. BlockedIsQuiet' /\ ClosedQueueIsEmpty'
      BY <1>1, <1>2, <2>1 DEF Frame, BlockedIsQuiet, ClosedQueueIsEmpty
    <3>3. cancelling' \in BOOLEAN /\ accepting' \in BOOLEAN
      BY <2>1
    <3>4. QED BY <1>1, <1>2, <2>2, <3>1, <3>2, <3>3 DEF Frame
  <2>4. Stale' /\ (active # None => active \in Request /\ active.number <= nextRequest
                                   /\ active.batch = activeBatch /\ activeBatch # 0)
    BY <1>4, <2>1 DEF Stale, Shape
  <2>5. Shape(active', pending', records', activeBatch', epoch', nextRequest', Stale')
    BY <1>1, <1>3, <2>1, <2>2, <2>4, EmptyShape
  <2>6. QED BY <2>3, <2>5, InvIsShapeAndFrameNext
<1>7. QED BY <1>5, <1>6

LEMMA ShutdownStep ==
  ASSUME QueueInv, Shutdown PROVE QueueInv'
<1>1. /\ shutdown' = TRUE /\ accepting' = FALSE /\ cancelling' = FALSE
      /\ epoch' = epoch + 1 /\ pending' = <<>> /\ completed' = None
      /\ UNCHANGED <<nextRequest, nextBatch, nextOrder, attached, blocked>>
  BY DEF Shutdown
<1>2. Frame
  BY InvIsShapeAndFrame
<1>3. RecordsWithoutPending \in [Servers -> Record \cup {None}]
  BY RowsStayTyped DEF QueueInv, TypeOK
<1>4. Shape(active, pending, records, activeBatch, epoch, nextRequest, Stale)
  BY InvIsShapeAndFrame
<1>5. Stale'
  BY <1>1 DEF Stale
<1>6. epoch' \in Nat /\ shutdown' \in BOOLEAN /\ accepting' \in BOOLEAN /\ cancelling' \in BOOLEAN
  <2>1. epoch' \in Nat
    BY <1>1, <1>2 DEF Frame
  <2>2. QED BY <1>1, <2>1
<1>7. completed' \in Batch \cup {None} /\ ClosedQueueIsEmpty'
  BY <1>1 DEF ClosedQueueIsEmpty
<1>8. records' \in [Servers -> Record \cup {None}]
  BY <1>3 DEF Shutdown
<1>9. CASE Reserved
  <2>1. active' = None /\ activeBatch' = 0 /\ entries' = {}
    BY <1>9 DEF Shutdown
  <2>2. Frame'
    <3>1. ReportsAreFinite' /\ BlockedIsQuiet'
      BY <1>1, <1>2, <2>1, FS_EmptySet DEF Frame, BlockedIsQuiet, ReportsAreFinite
    <3>2. QED BY <1>1, <1>2, <1>6, <1>7, <2>1, <3>1 DEF Frame
  <2>3. Shape(active', pending', records', activeBatch', epoch', nextRequest', Stale')
    BY <1>1, <1>8, <2>1, EmptyShape
  <2>4. QED BY <2>2, <2>3, InvIsShapeAndFrameNext
<1>10. CASE ~Reserved
  <2>1. active' = active /\ activeBatch' = activeBatch /\ entries' = entries
    BY <1>10 DEF Shutdown
  <2>2. Frame'
    <3>1. ReportsAreFinite' /\ BlockedIsQuiet'
      BY <1>1, <1>2, <2>1 DEF Frame, BlockedIsQuiet, ReportsAreFinite
    <3>2. QED BY <1>1, <1>2, <1>6, <1>7, <2>1, <3>1 DEF Frame
  <2>3. active # None => active \in Request /\ active.number <= nextRequest
                          /\ active.batch = activeBatch /\ activeBatch # 0
    BY <1>4 DEF Shape
  <2>4. Shape(active', pending', records', activeBatch', epoch', nextRequest', Stale')
    BY <1>1, <1>5, <1>8, <2>1, <2>3, EmptyShape
  <2>5. QED BY <2>2, <2>4, InvIsShapeAndFrameNext
<1>11. QED BY <1>9, <1>10

LEMMA EnqueueStep ==
  ASSUME QueueInv, NEW s \in Servers, Enqueue(s) PROVE QueueInv'
<1> DEFINE first == activeBatch = 0
           request == [number |-> nextRequest + 1, id |-> s,
                       batch |-> IF first THEN nextBatch + 1 ELSE activeBatch,
                       epoch |-> IF first THEN epoch + 1 ELSE epoch,
                       order |-> IF first THEN 0 ELSE nextOrder]
           kept == IF first THEN ClearedRecords ELSE records
           row == QueuedRecord(request)
           rows == [kept EXCEPT ![s] = row]
           queue == Append(pending, request)
           work == Promotion(active, attached, queue, rows, cancelling)
<1>1. /\ ~shutdown /\ ~cancelling /\ accepting
      /\ activeBatch' = request.batch /\ epoch' = request.epoch
      /\ nextBatch' = (IF first THEN nextBatch + 1 ELSE nextBatch)
      /\ nextOrder' = request.order + 1
      /\ entries' = (IF first THEN {} ELSE entries)
      /\ completed' = (IF first THEN None ELSE completed)
      /\ Install(work)
      /\ nextRequest' = nextRequest + 1
      /\ UNCHANGED modeVars
  BY DEF Enqueue, Accepts
<1>2. Frame
  BY InvIsShapeAndFrame
<1>3. Shape(active, pending, records, activeBatch, epoch, nextRequest, Stale)
  BY InvIsShapeAndFrame
<1>4. /\ request \in Request /\ request.number = nextRequest + 1 /\ request.batch # 0
      /\ request.id = s /\ request.batch \in Nat /\ request.epoch \in Nat /\ request.order \in Nat
  BY <1>2 DEF Frame, Request
<1>5. row \in Record /\ row # None
  BY <1>4, RowOfRequest
<1>6. kept \in [Servers -> Record \cup {None}]
  BY <1>3, RowsStayTyped DEF Shape
<1>7. /\ pending \in Seq(Request) /\ Len(pending) \in Nat
      /\ \A i \in 1..Len(pending) : /\ pending[i] \in Request /\ pending[i].id \in Servers
                                    /\ pending[i].number \in Nat
  <2>1. pending \in Seq(Request) /\ Len(pending) \in Nat
    BY <1>3, LenProperties DEF Shape
  <2>2. \A i \in 1..Len(pending) : pending[i] \in Request
    BY <2>1, ElementOfSeq
  <2>3. QED BY <2>1, <2>2 DEF Request
<1>8. first => Len(pending) = 0 /\ active = None
  BY <1>3, <1>7 DEF Shape
<1>9. ~first => kept = records /\ request.batch = activeBatch /\ request.epoch = epoch
  OBVIOUS
<1> HIDE DEF kept, row, request, first
<1>10. rows \in [Servers -> Record \cup {None}] /\ rows[s] # None
  BY <1>5, <1>6
<1>11. \A i \in 1..Len(pending) : rows[pending[i].id] # None
  <2>1. \A i \in 1..Len(pending) : kept[pending[i].id] # None
    BY <1>3, <1>8, <1>9 DEF Shape
  <2>2. QED BY <1>5, <1>6, <1>7, <2>1
<1>12. /\ queue \in Seq(Request) /\ Len(queue) = Len(pending) + 1
       /\ \A i \in 1..Len(pending) : queue[i] = pending[i]
       /\ queue[Len(pending) + 1] = request
  BY <1>4, <1>7, AppendProperties
<1>13. active # None => ~first /\ active \in Request /\ active.number \in Nat
                        /\ active.number <= nextRequest
                        /\ active.batch = activeBatch /\ active.epoch = epoch
                        /\ \A i \in 1..Len(pending) : active.number < pending[i].number
  BY <1>1, <1>3, <1>8 DEF Shape, Stale, Request
<1>14. nextRequest \in Nat
  BY <1>2 DEF Frame
<1> HIDE DEF rows, queue
<1>15. Shape(active, queue, rows, activeBatch', epoch', nextRequest', Stale')
  <2>1. \A i \in 1..Len(queue) : rows[queue[i].id] # None
    BY SMTT(30), <1>4, <1>7, <1>10, <1>11, <1>12
  <2>2. \A i, j \in 1..Len(queue) : i < j => queue[i].number < queue[j].number
    <3>1. SUFFICES ASSUME NEW i \in 1..Len(queue), NEW j \in 1..Len(queue), i < j
                   PROVE  queue[i].number < queue[j].number
      OBVIOUS
    <3>2. i \in 1..Len(pending) /\ queue[i] = pending[i] /\ queue[i].number <= nextRequest
      BY <1>3, <1>7, <1>12, <3>1 DEF Shape
    <3>3. CASE j \in 1..Len(pending)
      BY <1>3, <1>12, <3>1, <3>2, <3>3 DEF Shape
    <3>4. CASE j = Len(pending) + 1
      BY <1>4, <1>7, <1>12, <1>14, <3>2, <3>4
    <3>5. QED BY <1>7, <1>12, <3>3, <3>4
  <2>3. \A i \in 1..Len(queue) :
          /\ queue[i].number <= nextRequest'
          /\ queue[i].batch = activeBatch' /\ activeBatch' # 0
          /\ queue[i].epoch = epoch'
    <3>1. SUFFICES ASSUME NEW i \in 1..Len(queue)
                   PROVE  /\ queue[i].number <= nextRequest'
                          /\ queue[i].batch = activeBatch' /\ activeBatch' # 0
                          /\ queue[i].epoch = epoch'
      OBVIOUS
    <3>2. CASE i \in 1..Len(pending)
      BY <1>1, <1>3, <1>4, <1>7, <1>8, <1>9, <1>12, <1>14, <3>2 DEF Shape
    <3>3. CASE i = Len(pending) + 1
      BY <1>1, <1>4, <1>12, <1>14, <3>3
    <3>4. QED BY <1>7, <1>12, <3>2, <3>3
  <2>4. active # None => /\ active.number <= nextRequest'
                         /\ active.batch = activeBatch' /\ activeBatch' # 0
                         /\ active.epoch = epoch'
                         /\ \A i \in 1..Len(queue) : active.number < queue[i].number
    <3>1. SUFFICES ASSUME active # None
                   PROVE  /\ active.number <= nextRequest'
                          /\ active.batch = activeBatch' /\ activeBatch' # 0
                          /\ active.epoch = epoch'
                          /\ \A i \in 1..Len(queue) : active.number < queue[i].number
      OBVIOUS
    <3>2. active.number <= nextRequest' /\ active.number < request.number
      BY <1>1, <1>4, <1>13, <1>14, <3>1
    <3>3. active.batch = activeBatch' /\ activeBatch' # 0 /\ active.epoch = epoch'
      BY <1>1, <1>4, <1>9, <1>13, <3>1
    <3>4. \A i \in 1..Len(queue) : active.number < queue[i].number
      BY <1>7, <1>12, <1>13, <3>1, <3>2
    <3>5. QED BY <3>2, <3>3, <3>4
  <2>5. active \in Request \cup {None}
    BY <1>3 DEF Shape
  <2>6. QED BY <1>10, <1>12, <2>1, <2>2, <2>3, <2>4, <2>5 DEF Shape
<1>16. nextRequest' \in Nat
  BY <1>1, <1>14
<1>17. Shape(active', pending', records', activeBatch', epoch', nextRequest', Stale')
  <2>1. Shape(work.active, work.pending, work.records, activeBatch', epoch', nextRequest', Stale')
    BY <1>15, <1>16, PromotionKeepsShape
  <2>2. active' = work.active /\ pending' = work.pending /\ records' = work.records
    BY <1>1 DEF Install
  <2>3. QED BY <2>1, <2>2
<1>18. attached' \in BOOLEAN
  BY <1>1, <1>2, PromotionAttaches DEF Install, Frame
<1> HIDE DEF work
<1>19. /\ entries' \subseteq Entry /\ completed' \in Batch \cup {None} /\ ReportsAreFinite'
  BY <1>1, <1>2, FS_EmptySet DEF Frame, ReportsAreFinite
<1>20. nextBatch' \in Nat /\ nextOrder' \in Nat /\ activeBatch' \in Nat /\ epoch' \in Nat
  BY <1>1, <1>2, <1>4 DEF Frame
<1>21. BlockedIsQuiet' /\ ClosedQueueIsEmpty'
  BY <1>1, <1>2 DEF Frame, modeVars, BlockedIsQuiet, ClosedQueueIsEmpty
<1>22. Frame'
  BY <1>1, <1>2, <1>16, <1>18, <1>19, <1>20, <1>21 DEF Frame, modeVars
<1>23. QED BY <1>17, <1>22, InvIsShapeAndFrameNext

-----------------------------------------------------------------------------
LEMMA FunctionIsSeq ==
  ASSUME NEW S, NEW n \in Nat, NEW f \in [1..n -> S]
  PROVE  f \in Seq(S) /\ Len(f) = n /\ DOMAIN f = 1..n
OBVIOUS

(* A list that names a server names it a last time. *)
LEMMA LastOfIsInList ==
  ASSUME NEW n \in Nat, NEW list, DOMAIN list = 1..n, NEW s,
         \E i \in 1..n : list[i].id = s
  PROVE  /\ LastOf(list, s) \in 1..n /\ list[LastOf(list, s)].id = s
         /\ \A j \in 1..n : list[j].id = s => j <= LastOf(list, s)
<1> DEFINE gaps == {m \in 0..n : \E i \in 1..n : list[i].id = s /\ m = n - i}
<1>1. \A m : m \in gaps <=> m \in 0..n /\ \E i \in 1..n : list[i].id = s /\ m = n - i
  OBVIOUS
<1> HIDE DEF gaps
<1>2. \A i \in 1..n : list[i].id = s => n - i \in gaps
  BY <1>1
<1>3. gaps \subseteq Nat /\ gaps # {}
  <2>1. gaps \subseteq Nat
    BY <1>1
  <2>2. QED BY <1>2, <2>1
<1>4. PICK x \in gaps : \A y \in gaps : ~(<<y, x>> \in OpToRel(<, Nat))
  BY <1>3, NatLessThanWellFounded, WFMin
<1>5. \A y \in gaps : x <= y
  <2>1. SUFFICES ASSUME NEW y \in gaps, y < x PROVE FALSE
    BY <1>3
  <2>2. y \in Nat /\ x \in Nat
    BY <1>3
  <2>3. <<y, x>> \in OpToRel(<, Nat)
    BY <2>1, <2>2 DEF OpToRel
  <2>4. QED BY <1>4, <2>3
<1>6. PICK i \in 1..n : list[i].id = s /\ x = n - i
  BY <1>1
<1>7. \A j \in 1..n : list[j].id = s => j <= i
  BY <1>2, <1>5, <1>6
<1>8. QED BY <1>6, <1>7 DEF LastOf

(* The lists a retry is called with are in batch order. *)
LEMMA OrderingsAreLists ==
  ASSUME NEW S \in SUBSET Entry, IsFiniteSet(S), NEW list \in Orderings(S)
  PROVE  /\ Len(list) \in Nat /\ DOMAIN list = 1..Len(list) /\ list \in Seq(Entry)
         /\ \A i \in 1..Len(list) : list[i] \in Entry
         /\ \A i, j \in 1..Len(list) : i < j => list[i].order <= list[j].order
<1>1. Cardinality(S) \in Nat
  BY FS_CardinalityType
<1>2. list \in [1..Cardinality(S) -> S]
  BY DEF Orderings
<1>3. Len(list) = Cardinality(S) /\ DOMAIN list = 1..Cardinality(S) /\ list \in Seq(S)
  BY <1>1, <1>2, FunctionIsSeq
<1>4. \A i \in 1..Len(list) : list[i] \in Entry
  BY <1>2, <1>3
<1>5. list \in Seq(Entry)
  <2>1. list \in [1..Cardinality(S) -> Entry]
    BY <1>2
  <2>2. QED BY <1>1, <2>1, FunctionIsSeq
<1>6. \A i, j \in 1..Len(list) : i < j => list[i].order <= list[j].order
  <2>1. \A i, j \in 1..Len(list) : i < j => Before(list[i], list[j])
    BY <1>3 DEF Orderings
  <2>2. \A i \in 1..Len(list) : list[i].order \in Nat
    BY <1>4 DEF Entry
  <2>3. QED BY <2>1, <2>2 DEF Before
<1>7. QED BY <1>1, <1>3, <1>4, <1>5, <1>6

(* The numbers a retry gives out grow along the list and stay below the
   new bound.                                                             *)
LEMMA RetryNumbers ==
  ASSUME NEW items, NEW failures, NEW n \in Nat, NEW m \in Nat, nextRequest \in Nat,
         DOMAIN items = 1..n, DOMAIN failures = 1..m,
         \A i \in 1..n : items[i].order \in Nat,
         \A k \in 1..m : failures[k].order \in Nat,
         \A i, j \in 1..n : i < j => items[i].order <= items[j].order
  PROVE  /\ \A i \in 1..n : /\ ItemNumber(items, failures, i) \in Nat
                            /\ ItemNumber(items, failures, i) <= nextRequest + n + m
         /\ \A i, j \in 1..n :
              i < j => ItemNumber(items, failures, i) < ItemNumber(items, failures, j)
         /\ \A k \in 1..m : FailureNumber(items, failures, k) \in Nat
<1> DEFINE below(i) == {k \in DOMAIN failures : failures[k].order < items[i].order}
           upto(k) == {i \in DOMAIN items : items[i].order <= failures[k].order}
<1>1. IsFiniteSet(1..m) /\ Cardinality(1..m) = m /\ IsFiniteSet(1..n)
  BY FS_Interval
<1>2. \A i \in 1..n : IsFiniteSet(below(i)) /\ Cardinality(below(i)) \in Nat
                      /\ Cardinality(below(i)) <= m
  <2>1. \A i \in 1..n : below(i) \in SUBSET (1..m)
    OBVIOUS
  <2> HIDE DEF below
  <2>2. \A i \in 1..n : IsFiniteSet(below(i)) /\ Cardinality(below(i)) <= m
    BY <1>1, <2>1, FS_Subset
  <2>3. QED BY <2>2, FS_CardinalityType
<1>3. \A i, j \in 1..n : i < j => below(i) \in SUBSET below(j)
  OBVIOUS
<1>4. \A k \in 1..m : Cardinality(upto(k)) \in Nat
  <2>1. \A k \in 1..m : upto(k) \in SUBSET (1..n)
    OBVIOUS
  <2> HIDE DEF upto
  <2>2. \A k \in 1..m : IsFiniteSet(upto(k))
    BY <1>1, <2>1, FS_Subset
  <2>3. QED BY <2>2, FS_CardinalityType
<1>5. \A i : ItemNumber(items, failures, i) = nextRequest + i + Cardinality(below(i))
  BY DEF ItemNumber
<1>6. \A k : FailureNumber(items, failures, k) = nextRequest + k + Cardinality(upto(k))
  BY DEF FailureNumber
<1> HIDE DEF below, upto
<1>7. \A i, j \in 1..n : i < j => Cardinality(below(i)) <= Cardinality(below(j))
  BY <1>2, <1>3, FS_Subset
<1>8. \A i \in 1..n : /\ ItemNumber(items, failures, i) \in Nat
                     /\ ItemNumber(items, failures, i) <= nextRequest + n + m
  BY <1>2, <1>5
<1>9. \A i, j \in 1..n :
        i < j => ItemNumber(items, failures, i) < ItemNumber(items, failures, j)
  BY <1>2, <1>5, <1>7
<1>10. \A k \in 1..m : FailureNumber(items, failures, k) \in Nat
  BY <1>4, <1>6
<1>11. QED BY <1>8, <1>9, <1>10

LEMMA FailedEntriesAreFinite ==
  ASSUME QueueInv, NEW S \in SUBSET FailedEntries
  PROVE  S \in SUBSET Entry /\ IsFiniteSet(S)
<1>1. FailedEntries \in SUBSET Entry /\ IsFiniteSet(FailedEntries)
  <2>1. CASE completed = None
    BY <2>1, FS_EmptySet DEF FailedEntries
  <2>2. CASE completed # None
    <3>1. completed.entries \in SUBSET Entry /\ IsFiniteSet(completed.entries)
      BY <2>2 DEF QueueInv, TypeOK, Batch, ReportsAreFinite
    <3>2. FailedEntries \in SUBSET completed.entries
      BY <2>2 DEF FailedEntries
    <3>3. QED BY <3>1, <3>2, FS_Subset
  <2>3. QED BY <2>1, <2>2
<1>2. QED BY <1>1, FS_Subset

LEMMA RetryBatchStep ==
  ASSUME QueueInv, NEW items, NEW failures, EnqueueRetryBatch(items, failures),
         NEW n \in Nat, NEW m \in Nat, n = Len(items), m = Len(failures),
         items \in Seq(Entry), DOMAIN items = 1..n, DOMAIN failures = 1..m,
         \A i \in 1..n : items[i] \in Entry, \A k \in 1..m : failures[k] \in Entry,
         \A i, j \in 1..n : i < j => items[i].order <= items[j].order
  PROVE  QueueInv'
<1> DEFINE batch == nextBatch + 1
           request(i) == [number |-> ItemNumber(items, failures, i), batch |-> batch,
                          epoch |-> epoch + 1, id |-> items[i].id, order |-> items[i].order]
           failure(k) == [number |-> FailureNumber(items, failures, k), batch |-> batch,
                          order |-> failures[k].order, state |-> "failed",
                          progress |-> FALSE, outcome |-> "failed"]
           requests == [i \in DOMAIN items |-> request(i)]
           rejected == [k \in DOMAIN failures |-> failure(k)]
           rows == [s \in Servers |->
                      IF \E i \in DOMAIN items : items[i].id = s
                      THEN QueuedRecord(requests[LastOf(items, s)])
                      ELSE IF \E k \in DOMAIN failures : failures[k].id = s
                      THEN rejected[LastOf(failures, s)]
                      ELSE ClearedRecords[s]]
           setup == {EntryOf(failures[k].id, rejected[k]) : k \in DOMAIN failures}
           work == Promotion(None, attached, requests, rows, cancelling)
<1>1. /\ accepting /\ ~shutdown /\ ~cancelling
      /\ nextBatch' = batch /\ epoch' = epoch + 1 /\ nextRequest' = nextRequest + n + m
      /\ Install(work)
      /\ UNCHANGED modeVars
  BY DEF EnqueueRetryBatch, Accepts
<1>2. IF items = <<>>
      THEN /\ completed' = [batch |-> batch, entries |-> setup, cancelledByUser |-> FALSE]
           /\ activeBatch' = 0 /\ nextOrder' = 0 /\ entries' = {}
      ELSE /\ completed' = None /\ activeBatch' = batch
           /\ nextOrder' = items[Len(items)].order + 1
           /\ entries' = setup
  BY DEF EnqueueRetryBatch
<1>3. Frame
  BY InvIsShapeAndFrame
<1>4. Shape(active, pending, records, activeBatch, epoch, nextRequest, Stale)
  BY InvIsShapeAndFrame
<1>5. /\ batch \in Nat /\ batch # 0 /\ epoch + 1 \in Nat /\ nextRequest \in Nat
      /\ nextRequest + n + m \in Nat
  BY <1>3 DEF Frame
<1>6. /\ \A i \in 1..n : items[i].order \in Nat /\ items[i].id \in Servers
      /\ \A k \in 1..m : failures[k].order \in Nat /\ failures[k].id \in Servers
  BY DEF Entry
<1>7. /\ \A i \in 1..n : /\ ItemNumber(items, failures, i) \in Nat
                         /\ ItemNumber(items, failures, i) <= nextRequest + n + m
      /\ \A i, j \in 1..n :
           i < j => ItemNumber(items, failures, i) < ItemNumber(items, failures, j)
      /\ \A k \in 1..m : FailureNumber(items, failures, k) \in Nat
  BY <1>5, <1>6, RetryNumbers
<1> HIDE DEF batch
<1>8. \A i \in 1..n : request(i) \in Request
  BY <1>5, <1>6, <1>7 DEF Request
<1>9. \A k \in 1..m : failure(k) \in Record /\ failure(k).state \in TerminalStates
  BY <1>5, <1>6, <1>7 DEF Record, TerminalStates, OpenStates, Outcomes
<1>10. \A i \in 1..n : requests[i] = request(i)
  OBVIOUS
<1>11. \A k \in 1..m : rejected[k] = failure(k)
  OBVIOUS
<1>12. requests \in Seq(Request) /\ Len(requests) = n
  <2> HIDE DEF request
  <2>1. requests \in [1..n -> Request]
    BY <1>8
  <2> HIDE DEF requests
  <2>2. QED BY <2>1, FunctionIsSeq
<1>13. /\ \A i \in 1..n : /\ requests[i].number <= nextRequest + n + m
                          /\ requests[i].batch = batch /\ requests[i].epoch = epoch + 1
                          /\ requests[i].id = items[i].id
       /\ \A i, j \in 1..n : i < j => requests[i].number < requests[j].number
  BY <1>7, <1>10
<1> HIDE DEF request, failure, requests, rejected
<1>14. /\ \A i \in 1..n : requests[i] \in Request
       /\ \A k \in 1..m : rejected[k] \in Record /\ rejected[k].state \in TerminalStates
  BY <1>8, <1>9, <1>10, <1>11
<1>15. \A s \in Servers :
         /\ rows[s] \in Record \cup {None}
         /\ (\E i \in 1..n : items[i].id = s) => rows[s] # None
  <2>1. SUFFICES ASSUME NEW s \in Servers
                 PROVE  /\ rows[s] \in Record \cup {None}
                        /\ (\E i \in 1..n : items[i].id = s) => rows[s] # None
    OBVIOUS
  <2>2. CASE \E i \in 1..n : items[i].id = s
    <3>1. LastOf(items, s) \in 1..n
      BY <2>2, LastOfIsInList
    <3>2. rows[s] = QueuedRecord(requests[LastOf(items, s)])
      BY <2>2
    <3> HIDE DEF rows
    <3>3. QED BY <1>14, <3>1, <3>2, RowOfRequest
  <2>3. CASE ~(\E i \in 1..n : items[i].id = s) /\ \E k \in 1..m : failures[k].id = s
    <3>1. LastOf(failures, s) \in 1..m
      BY <2>3, LastOfIsInList
    <3>2. rows[s] = rejected[LastOf(failures, s)]
      BY <2>3
    <3> HIDE DEF rows
    <3>3. QED BY <1>14, <2>3, <3>1, <3>2
  <2>4. CASE ~(\E i \in 1..n : items[i].id = s) /\ ~(\E k \in 1..m : failures[k].id = s)
    <3>1. rows[s] = ClearedRecords[s]
      BY <2>4
    <3>2. ClearedRecords \in [Servers -> Record \cup {None}]
      BY <1>4, RowsStayTyped DEF Shape
    <3> HIDE DEF rows
    <3>3. QED BY <2>4, <3>1, <3>2
  <2>5. QED BY <2>2, <2>3, <2>4
<1>16. rows \in [Servers -> Record \cup {None}]
  <2>1. rows = [s \in Servers |-> rows[s]]
    OBVIOUS
  <2> HIDE DEF rows
  <2>2. QED BY <1>15, <2>1
<1>17. setup \in SUBSET Entry /\ IsFiniteSet(setup)
  <2> DEFINE image == [k \in 1..m |-> EntryOf(failures[k].id, rejected[k])]
  <2>1. \A k \in 1..m : EntryOf(failures[k].id, rejected[k]) \in Entry
    BY <1>6, <1>14, EntryOfRecord
  <2>2. setup \in SUBSET Entry
    BY <2>1
  <2>3. image \in Surjection(1..m, setup)
    BY DEF Surjection
  <2>4. IsFiniteSet(1..m)
    BY FS_Interval
  <2> HIDE DEF image, setup
  <2>5. QED BY <2>2, <2>3, <2>4, FS_Surjection
<1> HIDE DEF rows, setup
<1>18. Shape(None, requests, rows, batch, epoch', nextRequest', Stale')
  <2>1. \A i \in 1..Len(requests) : rows[requests[i].id] # None
    BY <1>6, <1>12, <1>13, <1>15
  <2>2. /\ \A i, j \in 1..Len(requests) : i < j => requests[i].number < requests[j].number
        /\ \A i \in 1..Len(requests) : /\ requests[i].number <= nextRequest'
                                       /\ requests[i].batch = batch /\ batch # 0
                                       /\ requests[i].epoch = epoch'
    BY <1>1, <1>5, <1>12, <1>13
  <2>3. QED BY <1>12, <1>16, <2>1, <2>2 DEF Shape
<1>19. /\ Shape(work.active, work.pending, work.records, batch, epoch', nextRequest', Stale')
       /\ requests = <<>> => work.active = None /\ work.pending = <<>>
  <2>1. nextRequest' \in Nat
    BY <1>1, <1>5
  <2>2. QED BY <1>18, <2>1, PromotionKeepsShape
<1>20. active' = work.active /\ attached' = work.attached
       /\ pending' = work.pending /\ records' = work.records
  BY <1>1 DEF Install
<1>21. work.attached \in BOOLEAN
  BY <1>3, PromotionAttaches DEF Frame
<1> HIDE DEF work
<1>22. /\ nextRequest' \in Nat /\ nextBatch' \in Nat /\ epoch' \in Nat /\ attached' \in BOOLEAN
  BY <1>1, <1>5, <1>20, <1>21
<1>23. BlockedIsQuiet' /\ ClosedQueueIsEmpty'
  BY <1>1, <1>3 DEF Frame, modeVars, BlockedIsQuiet, ClosedQueueIsEmpty
<1>24. CASE items = <<>>
  <2>1. n = 0 /\ requests = <<>>
    BY <1>12, <1>24, EmptySeq
  <2>2. active' = None /\ pending' = <<>> /\ records' \in [Servers -> Record \cup {None}]
    BY <1>19, <1>20, <2>1 DEF Shape
  <2>3. Shape(active', pending', records', activeBatch', epoch', nextRequest', Stale')
    BY <2>2, EmptyShape
  <2>4. /\ completed' \in Batch /\ completed'.entries = setup
        /\ activeBatch' \in Nat /\ nextOrder' \in Nat /\ entries' = {}
    <3>1. /\ completed' = [batch |-> batch, entries |-> setup, cancelledByUser |-> FALSE]
          /\ activeBatch' = 0 /\ nextOrder' = 0 /\ entries' = {}
      BY <1>2, <1>24
    <3>2. completed' \in Batch /\ completed'.entries = setup
      BY <1>5, <1>17, <3>1 DEF Batch
    <3>3. QED BY <3>1, <3>2
  <2>5. ReportsAreFinite' /\ entries' \subseteq Entry
    BY <1>17, <2>4, FS_EmptySet DEF ReportsAreFinite
  <2>6. Frame'
    BY <1>1, <1>3, <1>22, <1>23, <2>4, <2>5 DEF Frame, modeVars
  <2>7. QED BY <2>3, <2>6, InvIsShapeAndFrameNext
<1>25. CASE items # <<>>
  <2>1. n \in 1..n /\ items[n].order \in Nat
    BY <1>6, <1>25, EmptySeq
  <2>2. completed' = None /\ activeBatch' = batch /\ entries' = setup /\ nextOrder' \in Nat
    BY <1>2, <1>25, <2>1
  <2>3. Shape(active', pending', records', activeBatch', epoch', nextRequest', Stale')
    BY <1>19, <1>20, <2>2
  <2>4. ReportsAreFinite'
    BY <1>17, <2>2 DEF ReportsAreFinite
  <2>5. Frame'
    BY <1>1, <1>3, <1>5, <1>17, <1>22, <1>23, <2>2, <2>4 DEF Frame, modeVars
  <2>6. QED BY <2>3, <2>5, InvIsShapeAndFrameNext
<1>26. QED BY <1>24, <1>25

LEMMA RetryStep ==
  ASSUME QueueInv, NEW resolvable, Retry(resolvable) PROVE QueueInv'
<1> DEFINE kept == {e \in FailedEntries : e.id \in resolvable}
           lost == {e \in FailedEntries : e.id \notin resolvable}
<1>1. PICK items \in Orderings(kept), failures \in Orderings(lost) :
        EnqueueRetryBatch(items, failures)
  BY DEF Retry
<1>2. kept \in SUBSET FailedEntries /\ lost \in SUBSET FailedEntries
  OBVIOUS
<1> HIDE DEF kept, lost
<1>3. /\ kept \in SUBSET Entry /\ IsFiniteSet(kept)
      /\ lost \in SUBSET Entry /\ IsFiniteSet(lost)
  BY <1>2, FailedEntriesAreFinite
<1>4. /\ Len(items) \in Nat /\ DOMAIN items = 1..Len(items) /\ items \in Seq(Entry)
      /\ \A i \in 1..Len(items) : items[i] \in Entry
      /\ \A i, j \in 1..Len(items) : i < j => items[i].order <= items[j].order
  BY <1>3, OrderingsAreLists
<1>5. /\ Len(failures) \in Nat /\ DOMAIN failures = 1..Len(failures)
      /\ \A k \in 1..Len(failures) : failures[k] \in Entry
  BY <1>3, OrderingsAreLists
<1>6. QED BY <1>1, <1>4, <1>5, RetryBatchStep

-----------------------------------------------------------------------------
(* Worker callbacks come from requests the queue accepted. *)
AcceptedAreRequests == accepted \subseteq Request

LEMMA QueueInvInit ==
  ASSUME CallsInit PROVE QueueInv /\ AcceptedAreRequests
<1> USE DEF CallsInit, QueueInit
<1>1. Frame
  BY FS_EmptySet DEF Frame, BlockedIsQuiet, ClosedQueueIsEmpty, ReportsAreFinite
<1>2. Shape(active, pending, records, activeBatch, epoch, nextRequest, Stale)
  BY EmptyShape
<1>3. QED BY <1>1, <1>2, InvIsShapeAndFrame DEF AcceptedAreRequests

LEMMA WorkerKeepsQueueInv ==
  ASSUME QueueInv, NEW r \in Request, WorkerStep(r) PROVE QueueInv'
<1>1. CASE AttachController(r)
  BY <1>1, AttachControllerStep
<1>2. CASE UpdateProgress(r)
  BY <1>2, UpdateProgressStep
<1>3. ASSUME NEW outcome \in Outcomes, ObserveTerminal(r, outcome) PROVE QueueInv'
  BY <1>3, ObserveTerminalStep
<1>4. ASSUME NEW outcome \in Outcomes, Finish(r, outcome) PROVE QueueInv'
  BY <1>4, FinishStep
<1>5. CASE FinishBlockedReapFailure(r)
  BY <1>5, FinishBlockedStep
<1>6. QED BY <1>1, <1>2, <1>3, <1>4, <1>5 DEF WorkerStep

LEMMA QueueInvStep ==
  ASSUME QueueInv, AcceptedAreRequests, [CallsNext]_callsVars
  PROVE  QueueInv' /\ AcceptedAreRequests'
<1>1. QueueInv'
  <2>1. ASSUME NEW s \in Servers, Enqueue(s) PROVE QueueInv'
    BY <2>1, EnqueueStep
  <2>2. ASSUME NEW resolvable \in SUBSET Servers, Retry(resolvable) PROVE QueueInv'
    BY <2>2, RetryStep
  <2>3. CASE ClearCompletedBatch
    BY <2>3, ClearCompletedBatchStep
  <2>4. CASE ClearReapBlock
    BY <2>4, ClearReapBlockStep
  <2>5. ASSUME NEW r \in accepted, WorkerStep(r) PROVE QueueInv'
    BY <2>5, WorkerKeepsQueueInv DEF AcceptedAreRequests
  <2>6. CASE CancelBlockedPending
    BY <2>6, CancelBlockedPendingStep
  <2>7. CASE CancelAll
    BY <2>7, CancelAllStep
  <2>8. CASE Shutdown
    BY <2>8, ShutdownStep
  <2>9. CASE UNCHANGED callsVars
    <3>1. UNCHANGED queueVars
      BY <2>9 DEF callsVars
    <3>2. Frame'
      BY <3>1, InvIsShapeAndFrame DEF queueVars, batchVars, workVars, modeVars, Frame,
         BlockedIsQuiet, ClosedQueueIsEmpty, ReportsAreFinite
    <3>3. Shape(active', pending', records', activeBatch', epoch', nextRequest', Stale')
      BY <3>1, InvIsShapeAndFrame DEF queueVars, batchVars, workVars, modeVars, Stale
    <3>4. QED BY <3>2, <3>3, InvIsShapeAndFrameNext
  <2>10. QED
    BY <2>1, <2>2, <2>3, <2>4, <2>5, <2>6, <2>7, <2>8, <2>9 DEF CallsNext, UserCall, Withdrawal
<1>2. AcceptedAreRequests'
  <2>1. pending' \in Seq(Request) /\ active' \in Request \cup {None}
    BY <1>1 DEF QueueInv, TypeOK
  <2>2. \A i \in DOMAIN pending' : pending'[i] \in Request
    BY <2>1
  <2>3. CASE UNCHANGED callsVars
    BY <2>3 DEF callsVars, AcceptedAreRequests
  <2>4. CASE CallsNext
    BY <2>1, <2>2, <2>4 DEF CallsNext, AcceptedAreRequests
  <2>5. QED BY <2>3, <2>4
<1>3. QED BY <1>1, <1>2

(* The queue keeps its types, one request at a time in the order of the
   clicks, one open batch that everything outstanding belongs to, and stays
   quiet while a helper may still be alive: for any servers, any number of
   requests, and any order of the calls.                                  *)
THEOREM QueueInvariant == CallsSpec => [](QueueInv /\ AcceptedAreRequests)
BY QueueInvInit, QueueInvStep, PTL DEF CallsSpec

(* enqueue, finish and clear_reap_block promote the oldest waiting request
   and only when none is active: requests run one by one, in order.       *)
THEOREM RequestsAreSerial == CallsSpec => []SerialReservation
<1>1. QueueInv => SerialReservation
  BY DEF QueueInv
<1>2. QED BY <1>1, QueueInvariant, PTL

(* Everything waiting belongs to the open batch and the current epoch, so
   the return of the active request is accepted unless a cancel or a
   shutdown came between.                                                 *)
THEOREM RequestsAreCurrent == CallsSpec => []OutstandingIsCurrent
<1>1. QueueInv => OutstandingIsCurrent
  BY DEF QueueInv
<1>2. QED BY <1>1, QueueInvariant, PTL

(* finish_blocked_reap_failure leaves nothing active and nothing acceptable. *)
THEOREM BlockedQueueIsQuiet == CallsSpec => []BlockedIsQuiet
<1>1. QueueInv => BlockedIsQuiet
  BY DEF QueueInv
<1>2. QED BY <1>1, QueueInvariant, PTL

-----------------------------------------------------------------------------
Dispatches == active' # None /\ active' # active

LEMMA WorkerDispatchIsOpen ==
  ASSUME QueueInv, NEW r \in Request, WorkerStep(r), Dispatches
  PROVE  ~cancelling' /\ ~blocked' /\ ~shutdown'
<1>1. ASSUME NEW outcome \in Outcomes, Finish(r, outcome)
      PROVE  ~cancelling' /\ ~blocked' /\ ~shutdown'
  <2>1. active = r /\ r # None /\ shutdown' = shutdown /\ blocked' = blocked
    BY <1>1, NoneIsNothing DEF Finish, FinishAccepted
  <2>2. ~blocked
    BY <2>1 DEF QueueInv, BlockedIsQuiet
  <2>3. CASE cancelling \/ shutdown
    BY <1>1, <2>3 DEF Finish, Install, Dispatches
  <2>4. CASE ~cancelling /\ ~shutdown
    <3>1. cancelling' = cancelling
      BY <1>1, <2>4 DEF Finish
    <3>2. QED BY <2>1, <2>2, <2>4, <3>1
  <2>5. QED BY <2>3, <2>4
<1>2. ASSUME \/ AttachController(r) \/ UpdateProgress(r) \/ FinishBlockedReapFailure(r)
             \/ \E outcome \in Outcomes : ObserveTerminal(r, outcome)
      PROVE  FALSE
  BY <1>2 DEF AttachController, UpdateProgress, ObserveTerminal, FinishBlockedReapFailure,
     Install, Dispatches
<1>3. QED BY <1>1, <1>2 DEF WorkerStep

LEMMA UserDispatchIsOpen ==
  ASSUME QueueInv, UserCall, Dispatches
  PROVE  ~cancelling' /\ ~blocked' /\ ~shutdown'
<1>1. ASSUME Accepts, UNCHANGED modeVars PROVE ~cancelling' /\ ~blocked' /\ ~shutdown'
  BY <1>1 DEF Accepts, modeVars, QueueInv, BlockedIsQuiet
<1>2. ASSUME NEW s \in Servers, Enqueue(s) PROVE Accepts /\ UNCHANGED modeVars
  BY <1>2 DEF Enqueue
<1>3. ASSUME NEW resolvable \in SUBSET Servers, Retry(resolvable)
      PROVE  Accepts /\ UNCHANGED modeVars
  BY <1>3 DEF Retry, EnqueueRetryBatch
<1>4. CASE ClearCompletedBatch
  BY <1>4 DEF ClearCompletedBatch, Dispatches
<1>5. QED BY <1>1, <1>2, <1>3, <1>4 DEF UserCall

LEMMA DispatchIsOpen ==
  ASSUME QueueInv, AcceptedAreRequests, [CallsNext]_callsVars, Dispatches
  PROVE  ~cancelling' /\ ~blocked' /\ ~shutdown'
<1>1. CASE UserCall
  BY <1>1, UserDispatchIsOpen
<1>2. ASSUME NEW r \in accepted, WorkerStep(r) PROVE ~cancelling' /\ ~blocked' /\ ~shutdown'
  BY <1>2, WorkerDispatchIsOpen DEF AcceptedAreRequests
<1>3. CASE ClearReapBlock
  <2>1. /\ active' = Promotion(active, attached, pending, records, cancelling).active
        /\ ~blocked' /\ cancelling' = cancelling /\ shutdown' = shutdown
    BY <1>3 DEF ClearReapBlock, Install
  <2>2. ASSUME cancelling \/ shutdown PROVE FALSE
    <3>1. active # None \/ cancelling \/ shutdown \/ pending = <<>>
      BY <2>2
    <3>2. Promotion(active, attached, pending, records, cancelling)
            = [active |-> active, attached |-> attached, pending |-> pending, records |-> records]
      BY <3>1 DEF Promotion
    <3>3. QED BY <2>1, <3>2 DEF Dispatches
  <2>3. QED BY <2>1, <2>2
<1>4. CASE Withdrawal
  BY <1>4 DEF Withdrawal, CancelBlockedPending, CancelAll, Shutdown, Dispatches
<1>5. CASE UNCHANGED callsVars
  BY <1>5 DEF callsVars, queueVars, workVars, Dispatches
<1>6. QED BY <1>1, <1>2, <1>3, <1>4, <1>5 DEF CallsNext

(* No path of the queue makes a request active while it cancels, is blocked
   behind an unconfirmed helper exit or has shut down.                    *)
THEOREM ClosedQueueDispatchesNothing == CallsSpec => NoDispatchWhenClosed
<1>1. QueueInv /\ AcceptedAreRequests /\ [CallsNext]_callsVars
        => [active' # None /\ active' # active
              => ~cancelling' /\ ~blocked' /\ ~shutdown']_callsVars
  BY DispatchIsOpen DEF Dispatches
<1>2. QED BY <1>1, QueueInvariant, PTL DEF CallsSpec, NoDispatchWhenClosed

-----------------------------------------------------------------------------
(* Every request is accounted for.  What that needs to be inductive: nothing
   but accepted requests is outstanding, and they belong to batches that were
   begun; *)
AcceptedAreKnown ==
  /\ Outstanding \subseteq accepted
  /\ \A r \in accepted : r.batch \in 1..nextBatch
  /\ activeBatch \in 0..nextBatch

(* a batch is reported only when none is open; *)
OneBatchAtATime == activeBatch # 0 => completed = None

(* an entry is one request's, and not one that is still outstanding; *)
EntriesAreDistinct ==
  /\ \A d, e \in entries : d.number = e.number => d = e
  /\ \A e \in entries : e.number <= nextRequest
  /\ \A e \in entries : \A r \in Outstanding : e.number # r.number

(* and the row of a server with outstanding requests is that of one of them,
   no older one than any of the others. *)
RowsHaveOwners ==
  \A r \in Outstanding : records[r.id] # None =>
    \E q \in Outstanding : q.id = r.id /\ Owns(q) /\ r.number <= q.number

Accounted ==
  \A r \in accepted \ withdrawn :
    /\ r.batch = activeBatch => r \in Outstanding \/ Reports(entries, r)
    /\ completed # None /\ r.batch = completed.batch => Reports(completed.entries, r)

Accounts ==
  /\ AcceptedAreKnown /\ OneBatchAtATime /\ EntriesAreDistinct /\ RowsHaveOwners
  /\ Accounted

AccountInv == ~shutdown => Accounts

(* What CallsNext adds to the history in every step. *)
Recalls == accepted' = accepted \cup Outstanding' /\ withdrawn \subseteq withdrawn'

(* A row is still there, and still of the same request. *)
KeepsNumber(old, new) ==
  /\ old = None => new = None
  /\ old # None => new # None /\ new.number = old.number

Elements(queue) == {queue[i] : i \in DOMAIN queue}

LEMMA OutstandingIs ==
  Outstanding = Elements(pending) \cup ({active} \ {None})
BY DEF Outstanding, Waiting, Elements

LEMMA OutstandingIsNext ==
  Outstanding' = Elements(pending') \cup ({active'} \ {None})
BY DEF Outstanding, Waiting, Elements

LEMMA NobodyOutstanding ==
  ASSUME pending' = <<>>, active' = None
  PROVE  Outstanding' = {}
<1>1. DOMAIN pending' = {} OBVIOUS
<1>2. QED BY <1>1 DEF Outstanding, Waiting

(* The outstanding requests are told apart by their numbers. *)
LEMMA OutstandingDiffer ==
  ASSUME QueueInv
  PROVE  /\ \A r \in Outstanding : r \in Request /\ r.id \in Servers /\ r.number \in Nat
                                  /\ r.number <= nextRequest
         /\ \A r, q \in Outstanding : r.number = q.number => r = q
         /\ active # None => /\ active \in Outstanding
                            /\ Outstanding \ {active} = Waiting
                            /\ \A r \in Waiting : active.number < r.number
         /\ active = None => Outstanding = Waiting
<1>1. pending \in Seq(Request) /\ DOMAIN pending = 1..Len(pending) /\ Len(pending) \in Nat
  BY LenProperties DEF QueueInv, TypeOK
<1>2. \A i \in DOMAIN pending : pending[i] \in Request
  BY <1>1, ElementOfSeq
<1>3. \A r \in Outstanding : r \in Request
  BY <1>2 DEF Outstanding, Waiting, QueueInv, TypeOK
<1>4. \A r \in Outstanding : r.id \in Servers /\ r.number \in Nat
  BY <1>3 DEF Request
<1>5. \A r \in Outstanding : r.number <= nextRequest
  BY DEF QueueInv, SerialReservation
<1>6. \A i, j \in DOMAIN pending : pending[i].number = pending[j].number => pending[i] = pending[j]
  <2>1. SUFFICES ASSUME NEW i \in DOMAIN pending, NEW j \in DOMAIN pending,
                        pending[i].number = pending[j].number
                 PROVE  i = j
    OBVIOUS
  <2>2. pending[i].number \in Nat
    BY <1>4 DEF Outstanding, Waiting
  <2>3. ~(i < j) /\ ~(j < i)
    BY <2>1, <2>2 DEF QueueInv, SerialReservation
  <2>4. QED BY <1>1, <2>3
<1>7. \A r \in Waiting : active # None => active.number < r.number
  BY DEF Waiting, QueueInv, SerialReservation
<1>8. \A r, q \in Outstanding : r.number = q.number => r = q
  <2>1. SUFFICES ASSUME NEW r \in Outstanding, NEW q \in Outstanding, r.number = q.number
                 PROVE  r = q
    OBVIOUS
  <2>2. r.number \in Nat BY <1>4
  <2>3. CASE r \in Waiting /\ q \in Waiting
    BY <1>6, <2>1, <2>3 DEF Waiting
  <2>4. CASE ~(r \in Waiting /\ q \in Waiting)
    BY <1>7, <2>1, <2>2, <2>4 DEF Outstanding
  <2>5. QED BY <2>3, <2>4
<1>9. active # None => active \in Outstanding /\ Outstanding \ {active} = Waiting
  <2>1. SUFFICES ASSUME active # None PROVE active \in Outstanding /\ Outstanding \ {active} = Waiting
    OBVIOUS
  <2>2. active \in Outstanding BY <2>1 DEF Outstanding
  <2>3. active \notin Waiting
    BY <1>4, <1>7, <2>1, <2>2
  <2>4. QED BY <2>2, <2>3 DEF Outstanding
<1>10. active = None => Outstanding = Waiting
  BY DEF Outstanding
<1>11. QED BY <1>3, <1>4, <1>5, <1>7, <1>8, <1>9, <1>10

(* A promotion moves a request but loses none, and no row changes hands. *)
LEMMA PromotionLosesNone ==
  ASSUME NEW act \in Request \cup {None}, NEW att, NEW queue \in Seq(Request),
         NEW recs \in [Servers -> Record \cup {None}], NEW cancels,
         \A i \in 1..Len(queue) : recs[queue[i].id] # None
  PROVE  /\ Elements(Promotion(act, att, queue, recs, cancels).pending)
                 \cup ({Promotion(act, att, queue, recs, cancels).active} \ {None})
               = Elements(queue) \cup ({act} \ {None})
         /\ \A s \in Servers :
              KeepsNumber(recs[s], Promotion(act, att, queue, recs, cancels).records[s])
<1> DEFINE work == Promotion(act, att, queue, recs, cancels)
<1> SUFFICES /\ Elements(work.pending) \cup ({work.active} \ {None})
                  = Elements(queue) \cup ({act} \ {None})
             /\ \A s \in Servers : KeepsNumber(recs[s], work.records[s])
  OBVIOUS
<1>1. CASE act # None \/ cancels \/ shutdown \/ queue = <<>>
  <2>1. work = [active |-> act, attached |-> att, pending |-> queue, records |-> recs]
    BY <1>1 DEF Promotion
  <2>2. QED BY <2>1 DEF KeepsNumber
<1>2. CASE ~(act # None \/ cancels \/ shutdown \/ queue = <<>>)
  <2> DEFINE head == Head(queue)
             row == Row(recs[head.id], "preparing", FALSE, None)
             rows == [recs EXCEPT ![head.id] = row]
  <2>1. work = [active |-> head, attached |-> FALSE, pending |-> Tail(queue), records |-> rows]
    BY <1>2 DEF Promotion
  <2>2. queue # <<>> /\ Len(queue) \in Nat \ {0} /\ DOMAIN queue = 1..Len(queue)
    BY <1>2, EmptySeq, LenProperties
  <2>3. /\ head \in Request /\ head = queue[1] /\ 1 \in 1..Len(queue)
        /\ Tail(queue) \in Seq(Request) /\ Len(Tail(queue)) = Len(queue) - 1
        /\ \A i \in 1..Len(Tail(queue)) : Tail(queue)[i] = queue[i+1] /\ i+1 \in 1..Len(queue)
    BY <2>2, HeadTailProperties
  <2>4. DOMAIN Tail(queue) = 1..Len(Tail(queue))
    BY <2>3, LenProperties
  <2>5. head.id \in Servers /\ recs[head.id] \in Record
    BY <2>3 DEF Request
  <2>6. row # None /\ row.number = recs[head.id].number
    <3>1. "preparing" \in OpenStates \cup TerminalStates /\ None \in Outcomes \cup {None}
          /\ FALSE \in BOOLEAN
      BY DEF OpenStates
    <3>2. QED BY <2>5, <3>1, RowOfRecord DEF Row
  <2>7. head # None BY <2>3, NoneIsNothing
  <2> HIDE DEF row, head
  <2>8. \A s \in Servers : KeepsNumber(recs[s], rows[s])
    <3>1. \A s \in Servers : rows[s] = IF s = head.id THEN row ELSE recs[s]
      OBVIOUS
    <3>2. recs[head.id] # None BY <2>5, NoneIsNothing
    <3> HIDE DEF rows
    <3>3. QED BY <2>6, <3>1, <3>2 DEF KeepsNumber
  <2>9. Elements(Tail(queue)) \cup {head} = Elements(queue)
    <3>1. ASSUME NEW x \in Elements(Tail(queue)) \cup {head} PROVE x \in Elements(queue)
      BY <2>2, <2>3, <2>4, <3>1 DEF Elements
    <3>2. ASSUME NEW x \in Elements(queue) PROVE x \in Elements(Tail(queue)) \cup {head}
      <4>1. PICK i \in 1..Len(queue) : x = queue[i] BY <2>2 DEF Elements
      <4>2. CASE i = 1 BY <2>3, <4>1, <4>2
      <4>3. CASE i # 1
        <5>1. i - 1 \in 1..Len(Tail(queue)) /\ (i - 1) + 1 = i
          BY <2>2, <2>3, <4>1, <4>3
        <5>2. Tail(queue)[i - 1] = x BY <2>3, <4>1, <5>1
        <5>3. QED BY <2>4, <5>1, <5>2 DEF Elements
      <4>4. QED BY <4>2, <4>3
    <3>3. QED BY <3>1, <3>2
  <2>10. {head} \ {None} = {head} /\ {act} \ {None} = {}
    BY <1>2, <2>7
  <2> HIDE DEF rows
  <2>11. /\ work.pending = Tail(queue) /\ work.active = head /\ work.records = rows
    BY <2>1
  <2>12. \A s \in Servers : KeepsNumber(recs[s], work.records[s])
    BY <2>8, <2>11
  <2>13. Elements(work.pending) = Elements(Tail(queue))
    BY <2>11
  <2>14. QED BY <2>9, <2>10, <2>11, <2>12, <2>13
<1>3. QED BY <1>1, <1>2

(* Whose row it is does not change when the rows keep their numbers. *)
LEMMA OwnersStay ==
  ASSUME QueueInv, RowsHaveOwners, Outstanding' = Outstanding,
         \A s \in Servers : KeepsNumber(records[s], records'[s])
  PROVE  RowsHaveOwners'
<1>1. \A r \in Outstanding : r.id \in Servers
  BY OutstandingDiffer
<1>2. \A q \in Outstanding : Owns(q) => Owns(q)'
  BY <1>1 DEF Owns, KeepsNumber
<1>3. SUFFICES ASSUME NEW r \in Outstanding, records'[r.id] # None
               PROVE  \E q \in Outstanding : q.id = r.id /\ Owns(q)' /\ r.number <= q.number
  BY DEF RowsHaveOwners
<1>4. records[r.id] # None
  BY <1>1, <1>3 DEF KeepsNumber
<1>5. QED BY <1>2, <1>4 DEF RowsHaveOwners

(* Nothing is begun or reported, but waiting requests may be withdrawn. *)
LEMMA QuietAccount ==
  ASSUME Accounts, Recalls, RowsHaveOwners',
         Outstanding' \subseteq Outstanding,
         \A r \in Outstanding \ Outstanding' : r \in withdrawn',
         completed' = completed \/ completed' = None,
         UNCHANGED <<entries, activeBatch, nextBatch, nextRequest>>
  PROVE  Accounts'
<1>1. accepted' = accepted
  BY DEF Accounts, AcceptedAreKnown, Recalls
<1>2. AcceptedAreKnown'
  BY <1>1 DEF Accounts, AcceptedAreKnown
<1>3. OneBatchAtATime'
  BY DEF Accounts, OneBatchAtATime
<1>4. EntriesAreDistinct'
  BY DEF Accounts, EntriesAreDistinct
<1>5. Accounted'
  BY <1>1 DEF Accounts, Accounted, Recalls
<1>6. QED BY <1>2, <1>3, <1>4, <1>5 DEF Accounts

(* The batch is reported with everything that was still to be. *)
LEMMA ReportAccounts ==
  ASSUME QueueInv, Accounts, Recalls, Outstanding' = {}, nextBatch' = nextBatch,
         NEW all, NEW byUser, Finalize(all, byUser),
         \A r \in accepted \ withdrawn' : r.batch = activeBatch => Reports(all, r)
  PROVE  Accounts'
<1>1. accepted' = accepted
  BY DEF Recalls
<1>2. nextBatch \in Nat
  BY DEF QueueInv, TypeOK
<1>3. /\ activeBatch' = 0 /\ entries' = {}
      /\ completed'.batch = activeBatch /\ completed'.entries = all
  BY DEF Finalize
<1>4. AcceptedAreKnown'
  BY <1>1, <1>2, <1>3 DEF Accounts, AcceptedAreKnown
<1>5. OneBatchAtATime'
  BY <1>3 DEF OneBatchAtATime
<1>6. EntriesAreDistinct'
  BY <1>3 DEF EntriesAreDistinct
<1>7. RowsHaveOwners'
  BY DEF RowsHaveOwners
<1>8. Accounted'
  <2>1. SUFFICES ASSUME NEW r \in accepted \ withdrawn'
                 PROVE  /\ r.batch # activeBatch'
                        /\ r.batch = completed'.batch => Reports(completed'.entries, r)
    BY <1>1 DEF Accounted
  <2>2. r.batch # 0
    BY <1>2 DEF Accounts, AcceptedAreKnown
  <2>3. QED BY <1>3, <2>1, <2>2
<1>9. QED BY <1>4, <1>5, <1>6, <1>7, <1>8 DEF Accounts

(* A finished request gets an entry of its own. *)
LEMMA EntryOfFinished ==
  ASSUME QueueInv, Accounts, NEW r \in Outstanding, NEW e, e.number = r.number, e.id = r.id
  PROVE  /\ \A q \in accepted \ withdrawn : q.batch = activeBatch =>
              q \in Outstanding \ {r} \/ Reports(entries \cup {e}, q)
         /\ \A d, f \in entries \cup {e} : d.number = f.number => d = f
         /\ \A d \in entries \cup {e} : d.number <= nextRequest
         /\ \A d \in entries \cup {e} : \A q \in Outstanding \ {r} : d.number # q.number
<1>1. \A d \in entries : d.number # e.number
  BY DEF Accounts, EntriesAreDistinct
<1>2. \A d, f \in entries \cup {e} : d.number = f.number => d = f
  BY <1>1 DEF Accounts, EntriesAreDistinct
<1>3. \A d \in entries \cup {e} : d.number <= nextRequest
  BY OutstandingDiffer DEF Accounts, EntriesAreDistinct
<1>4. \A d \in entries \cup {e} : \A q \in Outstanding \ {r} : d.number # q.number
  BY OutstandingDiffer DEF Accounts, EntriesAreDistinct
<1>5. ASSUME NEW q \in accepted \ withdrawn, q.batch = activeBatch
      PROVE  q \in Outstanding \ {r} \/ Reports(entries \cup {e}, q)
  <2>1. CASE q = r
    BY <1>2, <2>1 DEF Reports
  <2>2. CASE q # r /\ q \in Outstanding
    BY <2>2
  <2>3. CASE Reports(entries, q)
    BY <1>2, <2>3 DEF Reports
  <2>4. QED BY <1>5, <2>1, <2>2, <2>3 DEF Accounts, Accounted
<1>6. QED BY <1>2, <1>3, <1>4, <1>5

(* The entry is recorded, and the batch goes on. *)
LEMMA EntryAccounts ==
  ASSUME QueueInv, Accounts, Recalls, RowsHaveOwners',
         NEW r \in Outstanding, NEW e, e.number = r.number, e.id = r.id,
         Outstanding' = Outstanding \ {r}, entries' = entries \cup {e},
         UNCHANGED <<completed, activeBatch, nextBatch, nextRequest>>
  PROVE  Accounts'
<1>1. accepted' = accepted
  BY DEF Accounts, AcceptedAreKnown, Recalls
<1>2. AcceptedAreKnown'
  BY <1>1 DEF Accounts, AcceptedAreKnown
<1>3. OneBatchAtATime'
  BY DEF Accounts, OneBatchAtATime
<1>4. EntriesAreDistinct'
  <2>1. /\ \A d, f \in entries \cup {e} : d.number = f.number => d = f
        /\ \A d \in entries \cup {e} : d.number <= nextRequest
        /\ \A d \in entries \cup {e} : \A q \in Outstanding \ {r} : d.number # q.number
    BY EntryOfFinished
  <2>2. QED BY <2>1 DEF EntriesAreDistinct
<1>5. Accounted'
  <2>1. \A q \in accepted \ withdrawn : q.batch = activeBatch =>
          q \in Outstanding' \/ Reports(entries', q)
    BY EntryOfFinished
  <2>2. QED BY <1>1, <2>1 DEF Accounts, Accounted, Recalls
<1>6. QED BY <1>2, <1>3, <1>4, <1>5 DEF Accounts

(* When the active request leaves, no row of another was its. *)
LEMMA OwnersOutlive ==
  ASSUME QueueInv, RowsHaveOwners, active # None, Owns(active),
         Outstanding' = Outstanding \ {active},
         \A s \in Servers : s # active.id => KeepsNumber(records[s], records'[s])
  PROVE  RowsHaveOwners'
<1>1. /\ \A r \in Outstanding : r.id \in Servers /\ r.number \in Nat
      /\ active \in Outstanding /\ Outstanding' = Waiting
      /\ \A r \in Waiting : r \in Outstanding /\ active.number < r.number
  BY OutstandingDiffer DEF Outstanding
<1>2. \A r \in Waiting : r.id # active.id
  <2>1. SUFFICES ASSUME NEW r \in Waiting, r.id = active.id PROVE FALSE
    OBVIOUS
  <2>2. PICK q \in Outstanding : q.id = r.id /\ Owns(q) /\ r.number <= q.number
    BY <1>1, <2>1 DEF RowsHaveOwners, Owns
  <2>3. q.number = active.number
    BY <2>1, <2>2 DEF Owns
  <2>4. QED BY <1>1, <2>2, <2>3
<1>3. SUFFICES ASSUME NEW r \in Waiting, records'[r.id] # None
               PROVE  \E q \in Waiting : q.id = r.id /\ Owns(q)' /\ r.number <= q.number
  BY <1>1 DEF RowsHaveOwners
<1>4. r.id \in Servers /\ r.id # active.id /\ records[r.id] # None
  BY <1>1, <1>2, <1>3 DEF KeepsNumber
<1>5. PICK q \in Outstanding : q.id = r.id /\ Owns(q) /\ r.number <= q.number
  BY <1>1, <1>4 DEF RowsHaveOwners
<1>6. q \in Waiting
  BY <1>1, <1>4, <1>5 DEF Outstanding
<1>7. Owns(q)'
  BY <1>4, <1>5 DEF Owns, KeepsNumber
<1>8. QED BY <1>5, <1>6, <1>7

-----------------------------------------------------------------------------
(* The calls, one by one.  A row that is rewritten keeps its number. *)
LEMMA RewriteAccounts ==
  ASSUME QueueInv, Accounts, Recalls, NEW s, NEW row, row.number = records[s].number, row # None,
         records[s] # None, records' = [records EXCEPT ![s] = row],
         UNCHANGED <<active, pending, entries, completed, activeBatch, nextBatch, nextRequest>>
  PROVE  Accounts'
<1>1. Outstanding' = Outstanding
  BY DEF Outstanding, Waiting
<1>2. records \in [Servers -> Record \cup {None}]
  BY DEF QueueInv, TypeOK
<1>3. \A t \in Servers : records'[t] = IF t = s THEN row ELSE records[t]
  BY <1>2
<1>4. \A t \in Servers : KeepsNumber(records[t], records'[t])
  BY <1>3 DEF KeepsNumber
<1>5. RowsHaveOwners'
  BY <1>1, <1>4, OwnersStay DEF Accounts
<1>6. QED BY <1>1, <1>5, QuietAccount

LEMMA CallbackAccounts ==
  ASSUME QueueInv, Accounts, Recalls, NEW r \in Request,
         \/ AttachController(r) \/ UpdateProgress(r)
         \/ \E outcome \in Outcomes : ObserveTerminal(r, outcome)
  PROVE  Accounts'
<1> USE DEF batchVars, modeVars
<1>1. CASE AttachController(r)
  <2>1. /\ Outstanding' = Outstanding
        /\ UNCHANGED <<records, entries, completed, activeBatch, nextBatch, nextRequest>>
    BY <1>1 DEF AttachController, Outstanding, Waiting
  <2>2. \A t \in Servers : KeepsNumber(records[t], records'[t])
    BY <2>1 DEF KeepsNumber
  <2>3. RowsHaveOwners'
    BY <2>1, <2>2, OwnersStay DEF Accounts
  <2>4. QED BY <2>1, <2>3, QuietAccount
<1>2. CASE UpdateProgress(r)
  <2> DEFINE rec == records[r.id]
             row == Row(rec, rec.state, TRUE, rec.outcome)
  <2>1. rec \in Record /\ rec # None
    BY <1>2 DEF UpdateProgress, Owns, QueueInv, TypeOK, Request
  <2>2. row # None /\ row.number = rec.number
    <3>1. rec.state \in OpenStates \cup TerminalStates /\ rec.outcome \in Outcomes \cup {None}
          /\ TRUE \in BOOLEAN
      BY <2>1 DEF Record
    <3>2. row # None BY <2>1, <3>1, RowOfRecord
    <3>3. row.number = rec.number BY DEF Row
    <3>4. QED BY <3>2, <3>3
  <2>3. /\ records' = [records EXCEPT ![r.id] = row]
        /\ UNCHANGED <<active, pending, entries, completed, activeBatch, nextBatch, nextRequest>>
    BY <1>2 DEF UpdateProgress
  <2> HIDE DEF row
  <2>4. QED BY <2>1, <2>2, <2>3, RewriteAccounts
<1>3. ASSUME NEW outcome \in Outcomes, ObserveTerminal(r, outcome) PROVE Accounts'
  <2> DEFINE rec == records[r.id]
             row == Row(rec, rec.state, rec.progress, outcome)
  <2>1. rec \in Record /\ rec # None
    BY <1>3 DEF ObserveTerminal, Owns, QueueInv, TypeOK, Request
  <2>2. row # None /\ row.number = rec.number
    <3>1. rec.state \in OpenStates \cup TerminalStates /\ rec.progress \in BOOLEAN
          /\ outcome \in Outcomes \cup {None}
      BY <2>1 DEF Record
    <3>2. QED BY <2>1, <3>1, RowOfRecord DEF Row
  <2>3. /\ records' = [records EXCEPT ![r.id] = row]
        /\ UNCHANGED <<active, pending, entries, completed, activeBatch, nextBatch, nextRequest>>
    BY <1>3 DEF ObserveTerminal
  <2> HIDE DEF row
  <2>4. QED BY <2>1, <2>2, <2>3, RewriteAccounts
<1>4. QED BY <1>1, <1>2, <1>3

LEMMA ClearCompletedAccounts ==
  ASSUME QueueInv, Accounts, Recalls, ClearCompletedBatch
  PROVE  Accounts'
<1>1. Outstanding' = {}
  BY NobodyOutstanding DEF ClearCompletedBatch
<1>2. Outstanding = {}
  BY DEF ClearCompletedBatch, Outstanding, Waiting
<1>3. RowsHaveOwners'
  BY <1>1 DEF RowsHaveOwners
<1>4. QED BY <1>1, <1>2, <1>3, QuietAccount DEF ClearCompletedBatch

LEMMA ClearReapBlockAccounts ==
  ASSUME QueueInv, Accounts, Recalls, ~shutdown, ClearReapBlock
  PROVE  Accounts'
<1> DEFINE work == Promotion(active, attached, pending, records, cancelling)
<1>1. /\ active' = work.active /\ pending' = work.pending /\ records' = work.records
      /\ UNCHANGED <<nextRequest, nextBatch>>
  BY DEF ClearReapBlock, Install
<1>2. /\ pending \in Seq(Request) /\ records \in [Servers -> Record \cup {None}]
      /\ active \in Request \cup {None}
      /\ \A i \in 1..Len(pending) : records[pending[i].id] # None
  BY InvIsShapeAndFrame DEF Shape
<1>3. /\ Elements(work.pending) \cup ({work.active} \ {None})
            = Elements(pending) \cup ({active} \ {None})
      /\ \A s \in Servers : KeepsNumber(records[s], work.records[s])
  BY <1>2, PromotionLosesNone
<1> HIDE DEF work
<1>4. Outstanding' = Outstanding /\ \A s \in Servers : KeepsNumber(records[s], records'[s])
  BY <1>1, <1>3, OutstandingIs, OutstandingIsNext
<1>5. CASE activeBatch # 0 /\ pending = <<>>
  <2>1. Finalize(entries, FALSE)
    BY <1>5 DEF ClearReapBlock
  <2>2. Outstanding = {}
    BY <1>5 DEF ClearReapBlock, QueueInv, BlockedIsQuiet, Outstanding, Waiting
  <2>3. \A r \in accepted \ withdrawn' : r.batch = activeBatch => Reports(entries, r)
    BY <2>2 DEF Accounts, Accounted, Recalls
  <2>4. QED BY <1>1, <1>4, <2>1, <2>2, <2>3, ReportAccounts
<1>6. CASE ~(activeBatch # 0 /\ pending = <<>>)
  <2>1. KeepBatch
    BY <1>6 DEF ClearReapBlock
  <2>2. RowsHaveOwners'
    BY <1>4, OwnersStay DEF Accounts
  <2>3. QED BY <1>1, <1>4, <2>1, <2>2, QuietAccount DEF KeepBatch
<1>7. QED BY <1>5, <1>6

LEMMA CancelBlockedAccounts ==
  ASSUME QueueInv, Accounts, Recalls, CancelBlockedPending, withdrawn' = withdrawn \cup Waiting
  PROVE  Accounts'
<1>1. /\ active = None /\ active' = None /\ pending' = <<>>
      /\ UNCHANGED <<nextRequest, nextBatch>>
  BY DEF CancelBlockedPending, QueueInv, BlockedIsQuiet
<1>2. Outstanding' = {} BY <1>1, NobodyOutstanding
<1>3. Outstanding = Waiting BY <1>1 DEF Outstanding
<1>4. CASE activeBatch # 0
  <2>1. Finalize(entries, TRUE) BY <1>4 DEF CancelBlockedPending
  <2>2. \A r \in accepted \ withdrawn' : r.batch = activeBatch => Reports(entries, r)
    BY <1>3 DEF Accounts, Accounted
  <2>3. QED BY <1>1, <1>2, <2>1, <2>2, ReportAccounts
<1>5. CASE activeBatch = 0
  <2>1. KeepBatch BY <1>5 DEF CancelBlockedPending
  <2>2. RowsHaveOwners' BY <1>2 DEF RowsHaveOwners
  <2>3. QED BY <1>1, <1>2, <1>3, <2>1, <2>2, QuietAccount DEF KeepBatch
<1>6. QED BY <1>4, <1>5

(* A row that outlives the waiting requests of its server is the active one's. *)
LEMMA SurvivingRow ==
  ASSUME QueueInv, Accounts, active # None, RecordsWithoutPending[active.id] # None
  PROVE  Owns(active) /\ RecordsWithoutPending[active.id] = records[active.id]
<1>1. active \in Outstanding /\ active.id \in Servers
  BY OutstandingDiffer
<1>2. /\ RecordsWithoutPending[active.id] = records[active.id]
      /\ ~\E i \in DOMAIN pending : pending[i].id = active.id /\ Owns(pending[i])
  BY <1>1 DEF RecordsWithoutPending
<1>3. PICK q \in Outstanding : q.id = active.id /\ Owns(q)
  BY <1>1, <1>2 DEF Accounts, RowsHaveOwners
<1>4. q \notin Waiting
  BY <1>2, <1>3 DEF Waiting
<1>5. q = active
  BY <1>4 DEF Outstanding
<1>6. QED BY <1>2, <1>3, <1>5

LEMMA CancelAllAccounts ==
  ASSUME QueueInv, Accounts, Recalls, CancelAll, withdrawn' = withdrawn \cup Waiting
  PROVE  Accounts'
<1> DEFINE rows == RecordsWithoutPending
<1>0. pending' = <<>> /\ UNCHANGED <<nextRequest, nextBatch>>
  BY DEF CancelAll
<1>1. CASE Reserved /\ rows[active.id] # None
  <2> DEFINE record == Row(rows[active.id], "cancelled", rows[active.id].progress, "cancelled")
             e == EntryOf(active.id, record)
  <2>1. /\ active # None /\ active' = None /\ Finalize(entries \cup {e}, TRUE)
    BY <1>1 DEF CancelAll, Reserved
  <2>2. Owns(active) /\ rows[active.id] = records[active.id]
    BY <1>1, <2>1, SurvivingRow
  <2>3. e.number = active.number /\ e.id = active.id
    BY <2>2 DEF EntryOf, Row, Owns
  <2>4. Outstanding' = {} BY <1>0, <2>1, NobodyOutstanding
  <2>5. active \in Outstanding /\ Outstanding \ {active} = Waiting
    BY <2>1, OutstandingDiffer
  <2> HIDE DEF e
  <2>6. \A q \in accepted \ withdrawn : q.batch = activeBatch =>
          q \in Outstanding \ {active} \/ Reports(entries \cup {e}, q)
    BY <2>3, <2>5, EntryOfFinished
  <2>7. \A q \in accepted \ withdrawn' : q.batch = activeBatch => Reports(entries \cup {e}, q)
    BY <2>5, <2>6
  <2>8. QED BY <1>0, <2>1, <2>4, <2>7, ReportAccounts
<1>2. CASE ~(Reserved /\ rows[active.id] # None)
  <2>1. records' = rows /\ active' = active /\ KeepBatch
    BY <1>2 DEF CancelAll
  <2>2. Outstanding' = {active} \ {None}
    BY <1>0, <2>1 DEF Outstanding, Waiting
  <2>3. /\ Outstanding' \subseteq Outstanding
        /\ \A r \in Outstanding \ Outstanding' : r \in withdrawn'
    BY <2>2 DEF Outstanding
  <2>4. RowsHaveOwners'
    <3>1. SUFFICES ASSUME active # None, rows[active.id] # None
                   PROVE  Owns(active)' /\ active.number <= active.number
      BY <2>1, <2>2 DEF RowsHaveOwners
    <3>2. Owns(active) /\ rows[active.id] = records[active.id]
      BY <3>1, SurvivingRow
    <3>3. Owns(active)' BY <2>1, <3>1, <3>2 DEF Owns
    <3>4. active.number \in Nat BY <3>1, OutstandingDiffer
    <3>5. QED BY <3>3, <3>4
  <2>5. QED BY <1>0, <2>1, <2>3, <2>4, QuietAccount DEF KeepBatch
<1>3. QED BY <1>1, <1>2

(* The row and the entry of a request that returns. *)
LEMMA ReturnedNumber ==
  ASSUME QueueInv, NEW r \in Request, Owns(r), NEW outcome \in Outcomes,
         NEW record, record = FinishedRecord(records[r.id], outcome),
         NEW e, e = EntryOf(r.id, record),
         NEW rows, rows = [records EXCEPT ![r.id] = record]
  PROVE  /\ e.number = r.number /\ e.id = r.id /\ r.id \in Servers
         /\ rows \in [Servers -> Record \cup {None}]
         /\ \A s \in Servers : KeepsNumber(records[s], rows[s])
<1>1. r.id \in Servers /\ record \in Record
  BY ReturnedRow
<1>2. record.number = records[r.id].number
  BY DEF FinishedRecord, Row
<1>3. e.number = r.number /\ e.id = r.id
  BY <1>2 DEF EntryOf, Owns
<1>4. records \in [Servers -> Record \cup {None}]
  BY DEF QueueInv, TypeOK
<1>5. rows \in [Servers -> Record \cup {None}]
  BY <1>1, <1>4
<1>6. \A s \in Servers : rows[s] = IF s = r.id THEN record ELSE records[s]
  BY <1>4
<1>7. record # None BY <1>1, NoneIsNothing
<1>8. \A s \in Servers : KeepsNumber(records[s], rows[s])
  BY <1>2, <1>6, <1>7 DEF KeepsNumber, Owns
<1>9. QED BY <1>1, <1>3, <1>5, <1>8

(* The waiting requests still have their rows. *)
LEMMA WaitingKeepRows ==
  ASSUME QueueInv, NEW rows, \A s \in Servers : KeepsNumber(records[s], rows[s])
  PROVE  /\ pending \in Seq(Request)
         /\ \A i \in 1..Len(pending) : rows[pending[i].id] # None
<1>1. pending \in Seq(Request) /\ \A i \in 1..Len(pending) : records[pending[i].id] # None
  BY InvIsShapeAndFrame DEF Shape
<1>2. \A i \in 1..Len(pending) : pending[i].id \in Servers
  <2>1. \A i \in 1..Len(pending) : pending[i] \in Request
    BY <1>1, ElementOfSeq
  <2>2. QED BY <2>1 DEF Request
<1>3. QED BY <1>1, <1>2 DEF KeepsNumber

(* A return that ends the batch reports everything that was left. *)
LEMMA LastReturnAccounts ==
  ASSUME QueueInv, Accounts, Recalls, NEW r, active = r, r # None, pending = <<>>,
         active' = None, pending' = <<>>, nextBatch' = nextBatch,
         NEW e, e.number = r.number, e.id = r.id,
         NEW byUser, Finalize(entries \cup {e}, byUser)
  PROVE  Accounts'
<1>1. Outstanding' = {} BY NobodyOutstanding
<1>2. r \in Outstanding /\ Outstanding \ {r} = {}
  <2>1. Waiting = {}
    <3>1. DOMAIN pending = {} OBVIOUS
    <3>2. QED BY <3>1 DEF Waiting
  <2>2. QED BY <2>1, OutstandingDiffer
<1>3. \A q \in accepted \ withdrawn' : q.batch = activeBatch => Reports(entries \cup {e}, q)
  BY <1>2, EntryOfFinished DEF Recalls
<1>4. QED BY <1>1, <1>3, ReportAccounts

(* A return that leaves others waiting records its own entry. *)
LEMMA ReturnAccounts ==
  ASSUME QueueInv, Accounts, Recalls, NEW r, active = r, r # None, Owns(r),
         NEW e, e.number = r.number, e.id = r.id, entries' = entries \cup {e},
         Outstanding' = Waiting, \A s \in Servers : KeepsNumber(records[s], records'[s]),
         UNCHANGED <<completed, activeBatch, nextBatch, nextRequest>>
  PROVE  Accounts'
<1>1. r \in Outstanding /\ Outstanding' = Outstanding \ {r}
  BY OutstandingDiffer
<1>2. RowsHaveOwners'
  BY <1>1, OwnersOutlive DEF Accounts
<1>3. QED BY <1>1, <1>2, EntryAccounts

LEMMA FinishAccounts ==
  ASSUME QueueInv, Accounts, Recalls, ~shutdown,
         NEW r \in Request, NEW outcome \in Outcomes, Finish(r, outcome)
  PROVE  Accounts'
<1> DEFINE final == IF cancelling \/ shutdown THEN "cancelled" ELSE outcome
           record == FinishedRecord(records[r.id], final)
           rows == [records EXCEPT ![r.id] = record]
           e == EntryOf(r.id, record)
           work == Promotion(None, FALSE, pending, rows, cancelling)
<1>1. active = r /\ Owns(r) /\ r # None
  BY NoneIsNothing DEF Finish, FinishAccepted
<1>2. final \in Outcomes
  BY DEF Outcomes
<1>3. /\ \/ /\ cancelling
            /\ active' = None /\ pending' = pending
            /\ Finalize(entries \cup {e}, TRUE)
         \/ /\ ~cancelling
            /\ active' = work.active /\ pending' = work.pending /\ records' = work.records
            /\ IF pending = <<>> THEN Finalize(entries \cup {e}, FALSE)
               ELSE entries' = entries \cup {e} /\ UNCHANGED <<completed, activeBatch, nextOrder>>
      /\ UNCHANGED <<nextRequest, nextBatch>>
  BY DEF Finish, Install
<1> HIDE DEF final
<1>4. /\ e.number = r.number /\ e.id = r.id
      /\ rows \in [Servers -> Record \cup {None}]
      /\ \A s \in Servers : KeepsNumber(records[s], rows[s])
  BY <1>1, <1>2, ReturnedNumber
<1> HIDE DEF record, e, rows
<1>5. /\ pending \in Seq(Request)
      /\ \A i \in 1..Len(pending) : rows[pending[i].id] # None
  BY <1>4, WaitingKeepRows
<1>6. CASE cancelling
  <2>1. pending = <<>> BY <1>6 DEF QueueInv, ClosedQueueIsEmpty
  <2>2. active' = None /\ pending' = <<>> /\ nextBatch' = nextBatch
        /\ Finalize(entries \cup {e}, TRUE)
    BY <1>3, <1>6, <2>1
  <2>3. QED BY <1>1, <1>4, <2>1, <2>2, LastReturnAccounts
<1>7. CASE ~cancelling
  <2>1. None \in Request \cup {None} OBVIOUS
  <2>2. /\ Elements(work.pending) \cup ({work.active} \ {None})
               = Elements(pending) \cup ({None} \ {None})
        /\ \A s \in Servers : KeepsNumber(rows[s], work.records[s])
    BY <1>4, <1>5, <2>1, PromotionLosesNone
  <2>3. pending = <<>> => work.pending = <<>> /\ work.active = None
    BY DEF Promotion
  <2> HIDE DEF work
  <2>4. Outstanding' = Waiting
    BY <1>3, <1>7, <2>2, OutstandingIsNext DEF Elements, Waiting
  <2>5. \A s \in Servers : KeepsNumber(records[s], records'[s])
    BY <1>3, <1>4, <1>7, <2>2 DEF KeepsNumber
  <2>6. CASE pending = <<>>
    <3>1. active' = None /\ pending' = <<>> /\ nextBatch' = nextBatch
          /\ Finalize(entries \cup {e}, FALSE)
      BY <1>3, <1>7, <2>3, <2>6
    <3>2. QED BY <1>1, <1>4, <2>6, <3>1, LastReturnAccounts
  <2>7. CASE pending # <<>>
    <3>1. entries' = entries \cup {e}
          /\ UNCHANGED <<completed, activeBatch, nextBatch, nextRequest>>
      BY <1>3, <1>7, <2>7
    <3>2. QED BY <1>1, <1>4, <2>4, <2>5, <3>1, ReturnAccounts
  <2>8. QED BY <2>6, <2>7
<1>8. QED BY <1>6, <1>7

LEMMA FinishBlockedAccounts ==
  ASSUME QueueInv, Accounts, Recalls, NEW r \in Request, FinishBlockedReapFailure(r)
  PROVE  Accounts'
<1> DEFINE record == FinishedRecord(records[r.id], "failed")
           rows == [records EXCEPT ![r.id] = record]
           e == EntryOf(r.id, record)
<1>1. active = r /\ Owns(r) /\ r # None /\ "failed" \in Outcomes
  BY NoneIsNothing DEF FinishBlockedReapFailure, BlockAccepted, Outcomes
<1>2. /\ active' = None /\ pending' = pending /\ records' = rows
      /\ IF pending = <<>> THEN Finalize(entries \cup {e}, FALSE)
         ELSE entries' = entries \cup {e} /\ UNCHANGED <<completed, activeBatch, nextOrder>>
      /\ UNCHANGED <<nextRequest, nextBatch>>
  BY DEF FinishBlockedReapFailure, Install
<1>3. /\ e.number = r.number /\ e.id = r.id
      /\ \A s \in Servers : KeepsNumber(records[s], rows[s])
  BY <1>1, ReturnedNumber
<1> HIDE DEF record, rows, e
<1>4. CASE pending = <<>>
  BY <1>1, <1>2, <1>3, <1>4, LastReturnAccounts
<1>5. CASE pending # <<>>
  <2>1. Outstanding' = Waiting
    BY <1>2 DEF Outstanding, Waiting
  <2>2. entries' = entries \cup {e}
        /\ UNCHANGED <<completed, activeBatch, nextBatch, nextRequest>>
    BY <1>2, <1>5
  <2>3. \A s \in Servers : KeepsNumber(records[s], records'[s])
    BY <1>2, <1>3
  <2>4. QED BY <1>1, <1>3, <2>1, <2>2, <2>3, ReturnAccounts
<1>6. QED BY <1>4, <1>5

(* A new request is outstanding, and the row of its server is its own. *)
LEMMA EnqueueAccounts ==
  ASSUME QueueInv, Accounts, Recalls, NEW s \in Servers, Enqueue(s)
  PROVE  Accounts'
<1> DEFINE first == activeBatch = 0
           request == [number |-> nextRequest + 1, id |-> s,
                       batch |-> IF first THEN nextBatch + 1 ELSE activeBatch,
                       epoch |-> IF first THEN epoch + 1 ELSE epoch,
                       order |-> IF first THEN 0 ELSE nextOrder]
           kept == IF first THEN ClearedRecords ELSE records
           row == QueuedRecord(request)
           rows == [kept EXCEPT ![s] = row]
           queue == Append(pending, request)
           work == Promotion(active, attached, queue, rows, cancelling)
<1>1. /\ activeBatch' = request.batch
      /\ nextBatch' = (IF first THEN nextBatch + 1 ELSE nextBatch)
      /\ entries' = (IF first THEN {} ELSE entries)
      /\ completed' = (IF first THEN None ELSE completed)
      /\ active' = work.active /\ pending' = work.pending /\ records' = work.records
      /\ nextRequest' = nextRequest + 1
  BY DEF Enqueue, Install
<1>2. /\ nextRequest \in Nat /\ nextBatch \in Nat /\ activeBatch \in 0..nextBatch
      /\ epoch \in Nat /\ nextOrder \in Nat
  BY DEF QueueInv, TypeOK, Accounts, AcceptedAreKnown
<1>3. Shape(active, pending, records, activeBatch, epoch, nextRequest, Stale)
  BY InvIsShapeAndFrame
<1>4. /\ request \in Request /\ request.id = s /\ request.number = nextRequest + 1
      /\ request.batch \in 1..nextBatch'
      /\ request.batch = IF first THEN nextBatch + 1 ELSE activeBatch
  BY <1>1, <1>2 DEF Request
<1>5. row \in Record /\ row # None /\ row.number = request.number
  BY <1>4, RowOfRequest DEF QueuedRecord, Row
<1>6. kept \in [Servers -> Record \cup {None}]
  BY <1>3, RowsStayTyped DEF Shape
<1>7. first => Outstanding = {}
  <2>1. first => pending = <<>> /\ active = None
    BY <1>3, EmptySeq, LenProperties DEF Shape
  <2>2. QED BY <2>1 DEF Outstanding, Waiting
<1>8. ~first => kept = records
  OBVIOUS
<1> HIDE DEF kept, row, request
<1>9. \A t \in Servers : rows[t] = IF t = s THEN row ELSE kept[t]
  BY <1>6
<1>10. rows \in [Servers -> Record \cup {None}]
  BY <1>5, <1>6
<1>11. \A r \in Outstanding : r \in Request /\ r.id \in Servers /\ r.number \in Nat
                             /\ r.number <= nextRequest
  BY OutstandingDiffer
<1>12. /\ queue \in Seq(Request) /\ Len(queue) = Len(pending) + 1 /\ Len(pending) \in Nat
       /\ pending \in Seq(Request)
       /\ \A i \in 1..Len(pending) : queue[i] = pending[i]
       /\ queue[Len(pending) + 1] = request
  <2>1. pending \in Seq(Request) BY <1>3 DEF Shape
  <2>2. QED BY <1>4, <2>1, AppendProperties, LenProperties
<1> HIDE DEF rows, queue
<1>13. Elements(queue) = Elements(pending) \cup {request}
  <2>1. DOMAIN queue = 1..Len(queue) /\ DOMAIN pending = 1..Len(pending)
    BY <1>12, LenProperties
  <2>2. QED BY <1>12, <2>1 DEF Elements
<1>14. \A i \in 1..Len(queue) : rows[queue[i].id] # None
  <2>1. \A i \in 1..Len(pending) : pending[i].id \in Servers /\ records[pending[i].id] # None
                                   /\ pending[i] \in Outstanding
    <3>1. \A i \in 1..Len(pending) : pending[i] \in Outstanding
      <4>1. DOMAIN pending = 1..Len(pending) BY <1>12, LenProperties
      <4>2. QED BY <4>1 DEF Outstanding, Waiting
    <3>2. QED BY <1>3, <1>11, <3>1 DEF Shape
  <2>2. \A i \in 1..Len(pending) : rows[pending[i].id] # None
    BY <1>5, <1>7, <1>8, <1>9, <2>1
  <2>3. QED BY <1>4, <1>5, <1>9, <1>12, <2>2
<1>15. active \in Request \cup {None}
  BY DEF QueueInv, TypeOK
<1>16. /\ Elements(work.pending) \cup ({work.active} \ {None})
                = Elements(queue) \cup ({active} \ {None})
       /\ \A t \in Servers : KeepsNumber(rows[t], work.records[t])
  BY <1>10, <1>12, <1>14, <1>15, PromotionLosesNone
<1> HIDE DEF work
<1>call. PICK call : call = request
  OBVIOUS
<1>17. Outstanding' = Outstanding \cup {call}
  BY <1>1, <1>13, <1>16, <1>call, OutstandingIs, OutstandingIsNext
<1>18. \A t \in Servers : KeepsNumber(rows[t], records'[t])
  BY <1>1, <1>16
<1>19. accepted' = accepted \cup {call}
  BY <1>17 DEF Recalls, Accounts, AcceptedAreKnown
<1>20. AcceptedAreKnown'
  <2>1. nextBatch <= nextBatch' /\ nextBatch' \in Nat
    BY <1>1, <1>2
  <2>2. \A r \in accepted' : r.batch \in 1..nextBatch'
    BY <1>2, <1>4, <1>call, <1>19, <2>1 DEF Accounts, AcceptedAreKnown
  <2>3. activeBatch' \in 0..nextBatch'
    BY <1>1, <1>4, <1>call, <2>1
  <2>4. Outstanding' \subseteq accepted'
    BY <1>17, <1>19 DEF Accounts, AcceptedAreKnown
  <2>5. QED BY <2>2, <2>3, <2>4 DEF AcceptedAreKnown
<1>21. OneBatchAtATime'
  BY <1>1 DEF Accounts, OneBatchAtATime
<1>22. EntriesAreDistinct'
  <2>1. CASE first
    BY <1>1, <2>1 DEF EntriesAreDistinct
  <2>2. CASE ~first
    <3>1. entries' = entries BY <1>1, <2>2
    <3>2. \A e \in entries : e.number \in Nat /\ e.number <= nextRequest
      BY DEF QueueInv, TypeOK, Entry, Accounts, EntriesAreDistinct
    <3>3. \A e \in entries : e.number <= nextRequest' /\ e.number # call.number
      BY <1>1, <1>2, <1>4, <1>call, <3>2
    <3>4. QED BY <1>17, <3>1, <3>3 DEF Accounts, EntriesAreDistinct
  <2>3. QED BY <2>1, <2>2
<1>23. RowsHaveOwners'
  <2>1. SUFFICES ASSUME NEW r \in Outstanding', records'[r.id] # None
                 PROVE  \E q \in Outstanding' : q.id = r.id /\ Owns(q)' /\ r.number <= q.number
    BY DEF RowsHaveOwners
  <2>2. CASE r.id = s
    <3>1. call \in Outstanding' /\ call.id = r.id
      BY <1>4, <1>call, <1>17, <2>2
    <3>2. r.number <= call.number
      BY <1>2, <1>4, <1>call, <1>11, <1>17
    <3>3. Owns(call)'
      BY <1>4, <1>call, <1>5, <1>call, <1>9, <1>18 DEF Owns, KeepsNumber
    <3>4. QED BY <3>1, <3>2, <3>3
  <2>3. CASE r.id # s
    <3>1. r \in Outstanding /\ ~first /\ r.id \in Servers
      BY <1>4, <1>call, <1>7, <1>11, <1>17, <2>1, <2>3
    <3>2. KeepsNumber(records[r.id], records'[r.id])
      BY <1>8, <1>9, <1>18, <2>3, <3>1
    <3>3. PICK q \in Outstanding : q.id = r.id /\ Owns(q) /\ r.number <= q.number
      BY <2>1, <3>1, <3>2 DEF Accounts, RowsHaveOwners, KeepsNumber
    <3>4. Owns(q)'
      BY <3>2, <3>3 DEF Owns, KeepsNumber
    <3>5. QED BY <1>17, <3>3, <3>4
  <2>4. QED BY <2>2, <2>3
<1>24. Accounted'
  <2>1. SUFFICES ASSUME NEW r \in accepted' \ withdrawn'
                 PROVE  /\ r.batch = activeBatch' => r \in Outstanding' \/ Reports(entries', r)
                        /\ completed' # None /\ r.batch = completed'.batch
                             => Reports(completed'.entries, r)
    BY DEF Accounted
  <2>2. CASE r \in Outstanding'
    BY <1>1, <1>2, <1>4, <1>call, <1>17, <2>2 DEF Accounts, OneBatchAtATime
  <2>3. CASE r \notin Outstanding'
    <3>1. r \in accepted \ withdrawn /\ r.batch \in 1..nextBatch
      BY <1>17, <1>19, <2>3 DEF Recalls, Accounts, AcceptedAreKnown
    <3>2. CASE first
      BY <1>1, <1>2, <1>4, <1>call, <3>1, <3>2
    <3>3. CASE ~first
      BY <1>1, <1>4, <1>call, <1>17, <3>1, <3>3 DEF Accounts, Accounted
    <3>4. QED BY <3>2, <3>3
  <2>4. QED BY <2>2, <2>3
<1>25. QED BY <1>20, <1>21, <1>22, <1>23, <1>24 DEF Accounts

(* A retry hands every number out once. *)
LEMMA RetryNumbersDiffer ==
  ASSUME NEW items, NEW failures, NEW n \in Nat, NEW m \in Nat, nextRequest \in Nat,
         DOMAIN items = 1..n, DOMAIN failures = 1..m,
         \A i \in 1..n : items[i].order \in Nat,
         \A k \in 1..m : failures[k].order \in Nat,
         \A i, j \in 1..n : i < j => items[i].order <= items[j].order,
         \A k, l \in 1..m : k < l => failures[k].order <= failures[l].order
  PROVE  /\ \A k \in 1..m : FailureNumber(items, failures, k) <= nextRequest + n + m
         /\ \A k, l \in 1..m :
              k < l => FailureNumber(items, failures, k) < FailureNumber(items, failures, l)
         /\ \A i \in 1..n, k \in 1..m :
              ItemNumber(items, failures, i) # FailureNumber(items, failures, k)
<1> DEFINE below(i) == {k \in DOMAIN failures : failures[k].order < items[i].order}
           upto(k) == {i \in DOMAIN items : items[i].order <= failures[k].order}
<1>1. \A a \in 0..n+m : IsFiniteSet(1..a) /\ Cardinality(1..a) = a
  BY FS_Interval
<1>2. 0 \in 0..n+m /\ n \in 0..n+m /\ m \in 0..n+m
  OBVIOUS
<1>3. \A i \in 1..n : below(i) \in SUBSET (1..m)
  OBVIOUS
<1>4. \A k \in 1..m : upto(k) \in SUBSET (1..n)
  OBVIOUS
<1>5. \A i \in 1..n, k \in 1..m : failures[k].order < items[i].order =>
        /\ 1..k \in SUBSET below(i)
        /\ upto(k) \in SUBSET (1..(i-1))
  <2>1. SUFFICES ASSUME NEW i \in 1..n, NEW k \in 1..m, failures[k].order < items[i].order
                 PROVE  /\ 1..k \in SUBSET below(i)
                        /\ upto(k) \in SUBSET (1..(i-1))
    OBVIOUS
  <2>2. \A l \in 1..k : l \in 1..m /\ failures[l].order <= failures[k].order
    OBVIOUS
  <2>3. \A l \in 1..k : failures[l].order < items[i].order
    BY <2>1, <2>2
  <2>4. 1..k \in SUBSET below(i)
    BY <2>2, <2>3
  <2>5. \A j \in 1..n : j >= i => items[i].order <= items[j].order
    OBVIOUS
  <2>6. \A j \in 1..n : items[j].order <= failures[k].order => j \in 1..(i-1)
    BY <2>1, <2>5
  <2>7. QED BY <2>4, <2>6
<1>6. \A i \in 1..n, k \in 1..m : ~(failures[k].order < items[i].order) =>
        /\ 1..i \in SUBSET upto(k)
        /\ below(i) \in SUBSET (1..(k-1))
  OBVIOUS
<1>7. \A k, l \in 1..m : k < l => upto(k) \in SUBSET upto(l)
  OBVIOUS
<1>8. \A i : ItemNumber(items, failures, i) = nextRequest + i + Cardinality(below(i))
  BY DEF ItemNumber
<1>9. \A k : FailureNumber(items, failures, k) = nextRequest + k + Cardinality(upto(k))
  BY DEF FailureNumber
<1> HIDE DEF below, upto
<1>10. \A i \in 1..n : IsFiniteSet(below(i)) /\ Cardinality(below(i)) \in Nat
  BY <1>1, <1>2, <1>3, FS_Subset, FS_CardinalityType
<1>11. \A k \in 1..m : IsFiniteSet(upto(k)) /\ Cardinality(upto(k)) \in Nat
                       /\ Cardinality(upto(k)) <= n
  BY <1>1, <1>2, <1>4, FS_Subset, FS_CardinalityType
<1>12. \A k, l \in 1..m : k < l => Cardinality(upto(k)) <= Cardinality(upto(l))
  BY <1>7, <1>11, FS_Subset
<1>13. ASSUME NEW i \in 1..n, NEW k \in 1..m
       PROVE  ItemNumber(items, failures, i) # FailureNumber(items, failures, k)
  <2>1. k \in 0..n+m /\ i \in 0..n+m /\ k-1 \in 0..n+m /\ i-1 \in 0..n+m
    OBVIOUS
  <2>2. CASE failures[k].order < items[i].order
    <3>1. k <= Cardinality(below(i))
      BY <1>1, <1>5, <1>10, <2>1, <2>2, FS_Subset
    <3>2. Cardinality(upto(k)) <= i-1
      BY <1>1, <1>5, <2>1, <2>2, FS_Subset
    <3>3. QED BY <1>8, <1>9, <1>10, <1>11, <3>1, <3>2
  <2>3. CASE ~(failures[k].order < items[i].order)
    <3>1. i <= Cardinality(upto(k))
      BY <1>1, <1>6, <1>11, <2>1, <2>3, FS_Subset
    <3>2. Cardinality(below(i)) <= k-1
      BY <1>1, <1>6, <2>1, <2>3, FS_Subset
    <3>3. QED BY <1>8, <1>9, <1>10, <1>11, <3>1, <3>2
  <2>4. QED BY <2>2, <2>3
<1>14. ASSUME NEW k \in 1..m PROVE FailureNumber(items, failures, k) <= nextRequest + n + m
  <2>1. /\ FailureNumber(items, failures, k) = nextRequest + k + Cardinality(upto(k))
        /\ Cardinality(upto(k)) \in Nat /\ Cardinality(upto(k)) <= n /\ k \in Nat /\ k <= m
    BY <1>9, <1>11
  <2> DEFINE c == Cardinality(upto(k))
  <2> HIDE DEF c
  <2>2. QED BY <2>1 DEF c
<1>15. \A k, l \in 1..m :
         k < l => FailureNumber(items, failures, k) < FailureNumber(items, failures, l)
  BY <1>9, <1>11, <1>12
<1>16. QED BY <1>13, <1>14, <1>15

(* A retry begins a batch of its own: its requests are outstanding, and the
   servers it cannot resolve have their entries.                          *)
LEMMA RetryBatchAccounts ==
  ASSUME QueueInv, Accounts, Recalls, NEW items, NEW failures,
         EnqueueRetryBatch(items, failures),
         NEW n \in Nat, NEW m \in Nat, n = Len(items), m = Len(failures),
         items \in Seq(Entry), DOMAIN items = 1..n, DOMAIN failures = 1..m,
         \A i \in 1..n : items[i] \in Entry, \A k \in 1..m : failures[k] \in Entry,
         \A i, j \in 1..n : i < j => items[i].order <= items[j].order,
         \A k, l \in 1..m : k < l => failures[k].order <= failures[l].order
  PROVE  Accounts'
<1> DEFINE batch == nextBatch + 1
           request(i) == [number |-> ItemNumber(items, failures, i), batch |-> batch,
                          epoch |-> epoch + 1, id |-> items[i].id, order |-> items[i].order]
           failure(k) == [number |-> FailureNumber(items, failures, k), batch |-> batch,
                          order |-> failures[k].order, state |-> "failed",
                          progress |-> FALSE, outcome |-> "failed"]
           requests == [i \in DOMAIN items |-> request(i)]
           rejected == [k \in DOMAIN failures |-> failure(k)]
           rows == [s \in Servers |->
                      IF \E i \in DOMAIN items : items[i].id = s
                      THEN QueuedRecord(requests[LastOf(items, s)])
                      ELSE IF \E k \in DOMAIN failures : failures[k].id = s
                      THEN rejected[LastOf(failures, s)]
                      ELSE ClearedRecords[s]]
           setup == {EntryOf(failures[k].id, rejected[k]) : k \in DOMAIN failures}
           work == Promotion(None, attached, requests, rows, cancelling)
<1>1. /\ active = None /\ pending = <<>>
      /\ nextBatch' = batch /\ nextRequest' = nextRequest + n + m
      /\ active' = work.active /\ pending' = work.pending /\ records' = work.records
      /\ IF items = <<>>
         THEN /\ completed' = [batch |-> batch, entries |-> setup, cancelledByUser |-> FALSE]
              /\ activeBatch' = 0 /\ entries' = {}
         ELSE /\ completed' = None /\ activeBatch' = batch /\ entries' = setup
  BY DEF EnqueueRetryBatch, Install
<1>2. /\ nextRequest \in Nat /\ nextBatch \in Nat /\ epoch \in Nat
      /\ batch \in Nat /\ batch > nextBatch
  BY DEF QueueInv, TypeOK
<1>3. /\ \A i \in 1..n : items[i].order \in Nat /\ items[i].id \in Servers
      /\ \A k \in 1..m : failures[k].order \in Nat /\ failures[k].id \in Servers
  BY DEF Entry
<1>4. /\ \A i \in 1..n : /\ ItemNumber(items, failures, i) \in Nat
                         /\ ItemNumber(items, failures, i) <= nextRequest + n + m
      /\ \A i, j \in 1..n :
           i < j => ItemNumber(items, failures, i) < ItemNumber(items, failures, j)
      /\ \A k \in 1..m : FailureNumber(items, failures, k) \in Nat
  BY <1>2, <1>3, RetryNumbers
<1>5. /\ \A k \in 1..m : FailureNumber(items, failures, k) <= nextRequest + n + m
      /\ \A k, l \in 1..m :
           k < l => FailureNumber(items, failures, k) < FailureNumber(items, failures, l)
      /\ \A i \in 1..n, k \in 1..m :
           ItemNumber(items, failures, i) # FailureNumber(items, failures, k)
  BY <1>2, <1>3, RetryNumbersDiffer
<1>6. /\ \A i \in 1..n : /\ requests[i] \in Request /\ requests[i].id = items[i].id
                         /\ requests[i].number = ItemNumber(items, failures, i)
                         /\ requests[i].batch = batch
      /\ DOMAIN requests = 1..n
  BY <1>2, <1>3, <1>4 DEF Request
<1>7. \A k \in 1..m : /\ rejected[k].number = FailureNumber(items, failures, k)
                      /\ rejected[k] \in Record
  BY <1>2, <1>3, <1>4 DEF Record, TerminalStates, OpenStates, Outcomes
<1>8. \A e \in setup : \E k \in 1..m : e = EntryOf(failures[k].id, rejected[k])
                                       /\ e.number = FailureNumber(items, failures, k)
  BY <1>7 DEF EntryOf
<1>9. requests \in Seq(Request) /\ Len(requests) = n
  <2>1. requests \in [1..n -> Request]
    BY <1>6
  <2> HIDE DEF requests
  <2>2. QED BY <2>1, FunctionIsSeq
<1> HIDE DEF request, failure, requests, rejected, setup, batch
<1>10. \A i \in 1..n : /\ rows[items[i].id] # None
                       /\ rows[items[i].id].number = requests[LastOf(items, items[i].id)].number
                       /\ LastOf(items, items[i].id) \in 1..n
                       /\ items[LastOf(items, items[i].id)].id = items[i].id
                       /\ i <= LastOf(items, items[i].id)
  <2>1. SUFFICES ASSUME NEW i \in 1..n
                 PROVE  /\ rows[items[i].id] # None
                        /\ rows[items[i].id].number = requests[LastOf(items, items[i].id)].number
                        /\ LastOf(items, items[i].id) \in 1..n
                        /\ items[LastOf(items, items[i].id)].id = items[i].id
                        /\ i <= LastOf(items, items[i].id)
    OBVIOUS
  <2>2. /\ LastOf(items, items[i].id) \in 1..n
        /\ items[LastOf(items, items[i].id)].id = items[i].id
        /\ i <= LastOf(items, items[i].id)
    BY LastOfIsInList
  <2>3. rows[items[i].id] = QueuedRecord(requests[LastOf(items, items[i].id)])
    BY <1>3
  <2> HIDE DEF rows
  <2>4. rows[items[i].id] # None
    BY <1>6, <2>2, <2>3, RowOfRequest
  <2>5. rows[items[i].id].number = requests[LastOf(items, items[i].id)].number
    BY <2>3 DEF QueuedRecord, Row
  <2>6. QED BY <2>2, <2>4, <2>5
<1>11. rows \in [Servers -> Record \cup {None}]
  <2>1. ASSUME NEW s \in Servers PROVE rows[s] \in Record \cup {None}
    <3>1. CASE \E i \in 1..n : items[i].id = s
      <4>1. LastOf(items, s) \in 1..n BY <3>1, LastOfIsInList
      <4>2. rows[s] = QueuedRecord(requests[LastOf(items, s)]) BY <3>1
      <4> HIDE DEF rows
      <4>3. QED BY <1>6, <4>1, <4>2, RowOfRequest
    <3>2. CASE ~(\E i \in 1..n : items[i].id = s) /\ \E k \in 1..m : failures[k].id = s
      <4>1. LastOf(failures, s) \in 1..m BY <3>2, LastOfIsInList
      <4>2. rows[s] = rejected[LastOf(failures, s)] BY <3>2
      <4> HIDE DEF rows
      <4>3. QED BY <1>7, <4>1, <4>2
    <3>3. CASE ~(\E i \in 1..n : items[i].id = s) /\ ~(\E k \in 1..m : failures[k].id = s)
      <4>1. rows[s] = ClearedRecords[s] BY <3>3
      <4>2. ClearedRecords \in [Servers -> Record \cup {None}]
        BY InvIsShapeAndFrame, RowsStayTyped DEF Shape
      <4> HIDE DEF rows
      <4>3. QED BY <4>1, <4>2
    <3>4. QED BY <3>1, <3>2, <3>3
  <2>2. rows = [s \in Servers |-> rows[s]]
    OBVIOUS
  <2> HIDE DEF rows
  <2>3. QED BY <2>1, <2>2
<1> HIDE DEF rows
<1>12. \A i \in 1..Len(requests) : rows[requests[i].id] # None
  BY <1>6, <1>9, <1>10
<1>13. None \in Request \cup {None} OBVIOUS
<1>14. /\ Elements(work.pending) \cup ({work.active} \ {None})
                = Elements(requests) \cup ({None} \ {None})
       /\ \A s \in Servers : KeepsNumber(rows[s], work.records[s])
  BY <1>9, <1>11, <1>12, <1>13, PromotionLosesNone
<1> HIDE DEF work
<1>15. Outstanding = {} /\ Outstanding' = {requests[i] : i \in 1..n}
  <2>1. Outstanding = {}
    <3>1. DOMAIN pending = {} BY <1>1
    <3>2. QED BY <1>1, <3>1 DEF Outstanding, Waiting
  <2>2. Elements(requests) = {requests[i] : i \in 1..n}
    BY <1>6 DEF Elements
  <2>3. Outstanding' = Elements(requests)
    BY <1>1, <1>14, OutstandingIsNext
  <2>4. QED BY <2>1, <2>2, <2>3
<1>16. items = <<>> => n = 0 /\ Outstanding' = {}
  BY <1>15
<1>17. \A r \in accepted : r.batch \in 1..nextBatch
  BY DEF Accounts, AcceptedAreKnown
<1>18. AcceptedAreKnown'
  <2>1. nextBatch' \in Nat /\ nextBatch' = batch /\ activeBatch' \in 0..batch
    BY <1>1, <1>2
  <2>2. \A r \in accepted' : r.batch \in 1..nextBatch'
    BY <1>2, <1>6, <1>15, <1>17, <2>1 DEF Recalls
  <2>3. QED BY <2>1, <2>2 DEF AcceptedAreKnown, Recalls
<1>19. OneBatchAtATime'
  BY <1>1 DEF OneBatchAtATime
<1>20. EntriesAreDistinct'
  <2>1. CASE items = <<>>
    BY <1>1, <2>1 DEF EntriesAreDistinct
  <2>2. CASE items # <<>>
    <3>1. entries' = setup BY <1>1, <2>2
    <3>2. \A d, e \in setup : d.number = e.number => d = e
      <4>1. SUFFICES ASSUME NEW d \in setup, NEW e \in setup, d.number = e.number
                     PROVE  d = e
        OBVIOUS
      <4>2. PICK k \in 1..m : d = EntryOf(failures[k].id, rejected[k])
                              /\ d.number = FailureNumber(items, failures, k)
        BY <1>8
      <4>3. PICK l \in 1..m : e = EntryOf(failures[l].id, rejected[l])
                              /\ e.number = FailureNumber(items, failures, l)
        BY <1>8
      <4>4. FailureNumber(items, failures, k) \in Nat
        BY <1>4
      <4>5. ~(k < l) /\ ~(l < k)
        BY <1>4, <1>5, <4>1, <4>2, <4>3
      <4>6. k = l BY <4>5
      <4>7. QED BY <4>2, <4>3, <4>6
    <3>3. \A e \in setup : e.number <= nextRequest'
      BY <1>1, <1>5, <1>8
    <3>4. \A e \in setup : \A r \in Outstanding' : e.number # r.number
      BY <1>5, <1>6, <1>8, <1>15
    <3>5. QED BY <3>1, <3>2, <3>3, <3>4 DEF EntriesAreDistinct
  <2>3. QED BY <2>1, <2>2
<1>21. RowsHaveOwners'
  <2>1. SUFFICES ASSUME NEW r \in Outstanding'
                 PROVE  \E q \in Outstanding' : q.id = r.id /\ Owns(q)' /\ r.number <= q.number
    BY DEF RowsHaveOwners
  <2>2. PICK i \in 1..n : r = requests[i] BY <1>15, <2>1
  <2>3. PICK last \in 1..n : /\ last = LastOf(items, items[i].id) /\ i <= last
                             /\ items[last].id = items[i].id
                             /\ rows[items[i].id] # None
                             /\ rows[items[i].id].number = requests[last].number
    BY <1>10
  <2>4. PICK q \in Outstanding' : q = requests[last]
    BY <1>15
  <2>5. q.id = r.id /\ r.id \in Servers /\ r.id = items[i].id
    BY <1>3, <1>6, <2>2, <2>3, <2>4
  <2>6. r.number <= q.number
    BY <1>4, <1>6, <2>2, <2>3, <2>4
  <2>7. KeepsNumber(rows[r.id], records'[r.id])
    BY <1>1, <1>14, <2>5
  <2>8. Owns(q)'
    BY <2>3, <2>4, <2>5, <2>7 DEF Owns, KeepsNumber
  <2>9. QED BY <2>5, <2>6, <2>8
<1>22. Accounted'
  <2>1. SUFFICES ASSUME NEW r \in accepted'
                 PROVE  /\ r.batch = activeBatch' => r \in Outstanding'
                        /\ ~(completed' # None /\ r.batch = completed'.batch)
    BY DEF Accounted
  <2>2. CASE r \in Outstanding'
    BY <1>1, <1>16, <2>2
  <2>3. CASE r \in accepted
    BY <1>1, <1>2, <1>17, <2>3
  <2>4. QED BY <2>1, <2>2, <2>3 DEF Recalls
<1>23. QED BY <1>18, <1>19, <1>20, <1>21, <1>22 DEF Accounts

LEMMA RetryAccounts ==
  ASSUME QueueInv, Accounts, Recalls, NEW resolvable, Retry(resolvable)
  PROVE  Accounts'
<1> DEFINE kept == {e \in FailedEntries : e.id \in resolvable}
           lost == {e \in FailedEntries : e.id \notin resolvable}
<1>1. PICK items \in Orderings(kept), failures \in Orderings(lost) :
        EnqueueRetryBatch(items, failures)
  BY DEF Retry
<1>2. kept \in SUBSET FailedEntries /\ lost \in SUBSET FailedEntries
  OBVIOUS
<1> HIDE DEF kept, lost
<1>3. /\ kept \in SUBSET Entry /\ IsFiniteSet(kept)
      /\ lost \in SUBSET Entry /\ IsFiniteSet(lost)
  BY <1>2, FailedEntriesAreFinite
<1>4. /\ Len(items) \in Nat /\ DOMAIN items = 1..Len(items) /\ items \in Seq(Entry)
      /\ \A i \in 1..Len(items) : items[i] \in Entry
      /\ \A i, j \in 1..Len(items) : i < j => items[i].order <= items[j].order
  BY <1>3, OrderingsAreLists
<1>5. /\ Len(failures) \in Nat /\ DOMAIN failures = 1..Len(failures)
      /\ \A k \in 1..Len(failures) : failures[k] \in Entry
      /\ \A k, l \in 1..Len(failures) : k < l => failures[k].order <= failures[l].order
  BY <1>3, OrderingsAreLists
<1>6. QED BY <1>1, <1>4, <1>5, RetryBatchAccounts

-----------------------------------------------------------------------------
LEMMA AccountInit ==
  ASSUME CallsInit PROVE AccountInv
BY NobodyOutstanding DEF CallsInit, QueueInit, AccountInv, Accounts, AcceptedAreKnown,
   OneBatchAtATime, EntriesAreDistinct, RowsHaveOwners, Accounted, Outstanding, Waiting

LEMMA WorkerAccounts ==
  ASSUME QueueInv, Accounts, Recalls, ~shutdown, NEW r \in Request, WorkerStep(r)
  PROVE  Accounts'
<1>1. ASSUME NEW outcome \in Outcomes, Finish(r, outcome) PROVE Accounts'
  BY <1>1, FinishAccounts
<1>2. CASE FinishBlockedReapFailure(r)
  BY <1>2, FinishBlockedAccounts
<1>3. CASE \/ AttachController(r) \/ UpdateProgress(r)
           \/ \E outcome \in Outcomes : ObserveTerminal(r, outcome)
  BY <1>3, CallbackAccounts
<1>4. QED BY <1>1, <1>2, <1>3 DEF WorkerStep

(* Once the application quits it never comes back. *)
LEMMA ShutdownIsFinal ==
  ASSUME [CallsNext]_callsVars, shutdown PROVE shutdown'
<1>1. CASE UserCall
  <2>1. ASSUME NEW s, Enqueue(s) PROVE shutdown'
    BY <2>1 DEF Enqueue, modeVars
  <2>2. ASSUME NEW resolvable, Retry(resolvable) PROVE shutdown'
    <3>1. PICK items, failures : EnqueueRetryBatch(items, failures)
      BY <2>2 DEF Retry
    <3>2. QED BY <3>1 DEF EnqueueRetryBatch, modeVars
  <2>3. CASE ClearCompletedBatch
    BY <2>3 DEF ClearCompletedBatch, modeVars
  <2>4. QED BY <1>1, <2>1, <2>2, <2>3 DEF UserCall
<1>2. CASE ClearReapBlock
  BY <1>2 DEF ClearReapBlock
<1>3. ASSUME NEW r, WorkerStep(r) PROVE shutdown'
  <2>1. CASE AttachController(r) \/ UpdateProgress(r) \/ FinishBlockedReapFailure(r)
    BY <2>1 DEF AttachController, UpdateProgress, FinishBlockedReapFailure, modeVars
  <2>2. ASSUME NEW outcome, ObserveTerminal(r, outcome) \/ Finish(r, outcome)
        PROVE  shutdown'
    BY <2>2 DEF ObserveTerminal, Finish, modeVars
  <2>3. QED BY <1>3, <2>1, <2>2 DEF WorkerStep
<1>4. CASE Withdrawal
  BY <1>4 DEF Withdrawal, CancelBlockedPending, CancelAll, Shutdown, modeVars
<1>5. CASE UNCHANGED callsVars
  BY <1>5 DEF callsVars, queueVars, modeVars
<1>6. QED BY <1>1, <1>2, <1>3, <1>4, <1>5 DEF CallsNext

LEMMA AccountStep ==
  ASSUME QueueInv, AcceptedAreRequests, AccountInv, [CallsNext]_callsVars
  PROVE  AccountInv'
<1>1. SUFFICES ASSUME ~shutdown' PROVE Accounts'
  BY DEF AccountInv
<1>2. ~shutdown /\ Accounts
  BY <1>1, ShutdownIsFinal DEF AccountInv
<1>3. CASE UNCHANGED callsVars
  BY <1>2, <1>3 DEF callsVars, queueVars, batchVars, workVars, modeVars, Accounts, AcceptedAreKnown,
     OneBatchAtATime, EntriesAreDistinct, RowsHaveOwners, Accounted, Outstanding, Waiting,
     Reports, Owns
<1>4. CASE CallsNext
  <2>1. Recalls
    BY <1>4 DEF CallsNext, Recalls, Outstanding, Waiting
  <2>2. ASSUME NEW s \in Servers, Enqueue(s) PROVE Accounts'
    BY <1>2, <2>1, <2>2, EnqueueAccounts
  <2>3. ASSUME NEW resolvable \in SUBSET Servers, Retry(resolvable) PROVE Accounts'
    BY <1>2, <2>1, <2>3, RetryAccounts
  <2>4. CASE ClearCompletedBatch
    BY <1>2, <2>1, <2>4, ClearCompletedAccounts
  <2>5. CASE ClearReapBlock
    BY <1>2, <2>1, <2>5, ClearReapBlockAccounts
  <2>6. ASSUME NEW r \in accepted, WorkerStep(r) PROVE Accounts'
    BY <1>2, <2>1, <2>6, WorkerAccounts DEF AcceptedAreRequests
  <2>7. CASE CancelBlockedPending /\ withdrawn' = withdrawn \cup Waiting
    BY <1>2, <2>1, <2>7, CancelBlockedAccounts
  <2>8. CASE CancelAll /\ withdrawn' = withdrawn \cup Waiting
    BY <1>2, <2>1, <2>8, CancelAllAccounts
  <2>9. CASE Shutdown
    BY <1>1, <2>9 DEF Shutdown
  <2>10. QED
    BY <1>4, <2>2, <2>3, <2>4, <2>5, <2>6, <2>7, <2>8, <2>9 DEF CallsNext, UserCall, Withdrawal
<1>5. QED BY <1>3, <1>4

(* What the history and the rows have in common, until the application quits:
   batches follow each other, entries are told apart from each other and from
   what is outstanding, and a row has an owner among the outstanding.     *)
THEOREM AccountsInvariant == CallsSpec => []AccountInv
<1>1. QueueInv /\ AcceptedAreRequests /\ AccountInv /\ [CallsNext]_callsVars => AccountInv'
  BY AccountStep
<1>2. QED BY <1>1, AccountInit, QueueInvariant, PTL DEF CallsSpec

(* No request is lost and none is reported twice, whatever the order of the
   clicks, retries, cancels, returns, late returns and recoveries: what the
   user did not withdraw waits, is active or has its one entry, and the
   report of its batch has one entry for it.                              *)
THEOREM RequestsAreAccountedFor == CallsSpec => []EveryRequestIsAccountedFor
<1>1. AccountInv => EveryRequestIsAccountedFor
  BY DEF AccountInv, Accounts, Accounted, EveryRequestIsAccountedFor
<1>2. QED BY <1>1, AccountsInvariant, PTL

-----------------------------------------------------------------------------
(* What is finished stays so.  What that needs to be inductive: the row of a
   server with outstanding requests is an open one and no older than any of
   them; *)
RowsAreOpen(requests, recs) ==
  \A r \in requests : recs[r.id] # None =>
    recs[r.id].state \in OpenStates /\ r.number <= recs[r.id].number

(* no row is of a request that is still to come; *)
RowsAreNumbered(recs, top) ==
  \A s \in Servers : recs[s] # None => recs[s].number <= top

RowInv == RowsAreOpen(Outstanding, records) /\ RowsAreNumbered(records, nextRequest)

(* and no result is waiting where no batch is open, nor a batch where nothing
   is left to do. *)
BatchInv ==
  /\ activeBatch = 0 => entries = {}
  /\ active = None /\ pending = <<>> /\ ~cancelling /\ ~shutdown => activeBatch = 0

(* What becomes of a row: it stays open, goes, or is left alone; *)
StaysOpen(old, new) ==
  \/ new = None \/ new = old
  \/ /\ old # None /\ old.state \in OpenStates
     /\ new # None /\ new.state \in OpenStates /\ new.number = old.number

(* what may become of one that is finished; *)
Respects(old, new) ==
  old # None /\ old.state \in TerminalStates /\ new # old
    => new = None \/ new.number > old.number

RowsRespected == \A s \in Servers : Respects(records[s], records'[s])

(* and what of the results. *)
ResultsKept ==
  ~shutdown' => \A e \in entries :
    e \in entries' \/ (completed' # None /\ e \in completed'.entries)

LEMMA OpenIsNotFinished == OpenStates \cap TerminalStates = {}
BY DEF OpenStates, TerminalStates

LEMMA OpenRowRespects ==
  ASSUME NEW old, NEW mid, NEW new, Respects(old, mid), StaysOpen(mid, new)
  PROVE  Respects(old, new)
BY OpenIsNotFinished DEF Respects, StaysOpen

(* Rows that stay open keep the invariant. *)
LEMMA RowsFollow ==
  ASSUME NEW requests, NEW recs, NEW new, NEW top,
         \A r \in requests : r.id \in Servers,
         RowsAreOpen(requests, recs), RowsAreNumbered(recs, top),
         \A s \in Servers : StaysOpen(recs[s], new[s])
  PROVE  RowsAreOpen(requests, new) /\ RowsAreNumbered(new, top)
<1>1. RowsAreOpen(requests, new)
  BY DEF RowsAreOpen, StaysOpen
<1>2. RowsAreNumbered(new, top)
  BY DEF RowsAreNumbered, StaysOpen
<1>3. QED BY <1>1, <1>2

(* A promotion rewrites the row of the head, which is open. *)
LEMMA PromotionRespects ==
  ASSUME NEW act, NEW att, NEW queue \in Seq(Request),
         NEW recs \in [Servers -> Record \cup {None}], NEW cancels,
         \A i \in 1..Len(queue) : recs[queue[i].id] # None,
         RowsAreOpen(Elements(queue), recs)
  PROVE  \A s \in Servers :
           StaysOpen(recs[s], Promotion(act, att, queue, recs, cancels).records[s])
<1> DEFINE work == Promotion(act, att, queue, recs, cancels)
<1>1. CASE act # None \/ cancels \/ shutdown \/ queue = <<>>
  <2>1. work = [active |-> act, attached |-> att, pending |-> queue, records |-> recs]
    BY <1>1 DEF Promotion
  <2>2. work.records = recs BY <2>1
  <2>3. QED BY <2>2 DEF StaysOpen
<1>2. CASE ~(act # None \/ cancels \/ shutdown \/ queue = <<>>)
  <2> DEFINE head == Head(queue)
             row == Row(recs[head.id], "preparing", FALSE, None)
             rows == [recs EXCEPT ![head.id] = row]
  <2>1. work = [active |-> head, attached |-> FALSE, pending |-> Tail(queue), records |-> rows]
    BY <1>2 DEF Promotion
  <2>2. queue # <<>> /\ Len(queue) \in Nat \ {0} /\ DOMAIN queue = 1..Len(queue)
    BY <1>2, EmptySeq, LenProperties
  <2>3. head \in Request /\ head = queue[1] /\ 1 \in DOMAIN queue
    BY <2>2, HeadTailProperties
  <2>4. head.id \in Servers /\ recs[head.id] # None /\ recs[head.id] \in Record
    BY <2>2, <2>3 DEF Request
  <2>5. head \in Elements(queue)
    BY <2>3 DEF Elements
  <2>6. recs[head.id].state \in OpenStates
    BY <2>4, <2>5 DEF RowsAreOpen
  <2>7. "preparing" \in OpenStates /\ None \in Outcomes \cup {None} /\ FALSE \in BOOLEAN
    BY DEF OpenStates
  <2>8. row # None /\ row.state = "preparing" /\ row.number = recs[head.id].number
    BY <2>4, <2>7, RowOfRecord DEF Row
  <2> HIDE DEF row, head
  <2>9. \A s \in Servers : rows[s] = IF s = head.id THEN row ELSE recs[s]
    OBVIOUS
  <2>10. work.records = rows BY <2>1
  <2> HIDE DEF rows, work
  <2>11. \A s \in Servers : StaysOpen(recs[s], rows[s])
    BY <2>4, <2>6, <2>7, <2>8, <2>9 DEF StaysOpen
  <2>12. \A s \in Servers : StaysOpen(recs[s], work.records[s])
    BY <2>10, <2>11
  <2>13. QED BY <2>12 DEF work
<1>3. QED BY <1>1, <1>2

(* A call that finishes no row. *)
LEMMA QuietRows ==
  ASSUME QueueInv, RowInv, Outstanding' \subseteq Outstanding, nextRequest' = nextRequest,
         \A s \in Servers : StaysOpen(records[s], records'[s])
  PROVE  RowInv' /\ RowsRespected
<1>1. \A r \in Outstanding' : r.id \in Servers
  BY OutstandingDiffer
<1>2. RowsAreOpen(Outstanding', records)
  BY DEF RowInv, RowsAreOpen
<1>3. RowsAreNumbered(records, nextRequest)
  BY DEF RowInv
<1>4. RowsAreOpen(Outstanding', records') /\ RowsAreNumbered(records', nextRequest)
  BY <1>1, <1>2, <1>3, RowsFollow
<1>5. \A s \in Servers : Respects(records[s], records'[s])
  BY OpenIsNotFinished DEF StaysOpen, Respects
<1>6. QED BY <1>4, <1>5 DEF RowInv, RowsRespected

(* A call that finishes the row of one request, and leaves outstanding only
   requests of other servers.                                             *)
LEMMA ReturnRows ==
  ASSUME QueueInv, RowInv, nextRequest' = nextRequest,
         NEW r \in Outstanding, records[r.id] # None,
         records'[r.id] # None => records'[r.id].number = records[r.id].number,
         \A q \in Outstanding' : q \in Outstanding /\ q.id # r.id,
         \A s \in Servers : s # r.id => StaysOpen(records[s], records'[s])
  PROVE  RowInv' /\ RowsRespected
<1>1. \A q \in Outstanding' : q.id \in Servers
  BY OutstandingDiffer
<1>2. r.id \in Servers
  BY OutstandingDiffer
<1>3. records[r.id].state \in OpenStates
  BY DEF RowInv, RowsAreOpen
<1>4. RowsAreOpen(Outstanding', records')
  <2>1. SUFFICES ASSUME NEW q \in Outstanding', records'[q.id] # None
                 PROVE  records'[q.id].state \in OpenStates /\ q.number <= records'[q.id].number
    BY DEF RowsAreOpen
  <2>2. q \in Outstanding /\ StaysOpen(records[q.id], records'[q.id])
    BY <1>1
  <2>3. records[q.id] # None => /\ records[q.id].state \in OpenStates
                                /\ q.number <= records[q.id].number
    BY <2>2 DEF RowInv, RowsAreOpen
  <2>4. QED BY <2>1, <2>2, <2>3 DEF StaysOpen
<1>5. RowsAreNumbered(records', nextRequest')
  BY DEF RowInv, RowsAreNumbered, StaysOpen
<1>6. \A s \in Servers : Respects(records[s], records'[s])
  BY <1>3, OpenIsNotFinished DEF StaysOpen, Respects
<1>7. QED BY <1>4, <1>5, <1>6 DEF RowInv, RowsRespected

(* No other request of the server of a request that owns its row waits
   behind it.                                                             *)
LEMMA OwnersAreLast ==
  ASSUME QueueInv, RowInv, active # None, Owns(active)
  PROVE  \A q \in Waiting : q \in Outstanding /\ q.id # active.id
<1>1. SUFFICES ASSUME NEW q \in Waiting, q.id = active.id PROVE FALSE
  BY DEF Outstanding
<1>2. q \in Outstanding BY DEF Outstanding
<1>3. active.number < q.number /\ active.number \in Nat /\ q.number \in Nat
  BY <1>2, OutstandingDiffer
<1>4. records[q.id] # None /\ records[q.id].number = active.number
  BY <1>1 DEF Owns
<1>5. q.number <= active.number
  BY <1>2, <1>4 DEF RowInv, RowsAreOpen
<1>6. QED BY <1>3, <1>5

LEMMA CallbackRows ==
  ASSUME QueueInv, RowInv, NEW r \in Request,
         \/ AttachController(r) \/ UpdateProgress(r)
         \/ \E outcome \in Outcomes : ObserveTerminal(r, outcome)
  PROVE  RowInv' /\ RowsRespected
<1>1. UNCHANGED <<active, pending, nextRequest>> /\ active = r
  BY DEF AttachController, UpdateProgress, ObserveTerminal, IsCurrent
<1>2. Outstanding' = Outstanding
  BY <1>1 DEF Outstanding, Waiting
<1>3. r \in Outstanding /\ r.id \in Servers
  BY <1>1, NoneIsNothing, OutstandingDiffer
<1>4. records \in [Servers -> Record \cup {None}]
  BY DEF QueueInv, TypeOK
<1>5. \A s \in Servers : StaysOpen(records[s], records'[s])
  <2>1. CASE AttachController(r)
    BY <2>1 DEF AttachController, StaysOpen
  <2>2. ASSUME NEW new, records' = [records EXCEPT ![r.id] = new], Owns(r),
               new # None, new.number = records[r.id].number, new.state = records[r.id].state
        PROVE  \A s \in Servers : StaysOpen(records[s], records'[s])
    <3>1. records[r.id] # None /\ records[r.id].state \in OpenStates
      BY <1>3, <2>2 DEF Owns, RowInv, RowsAreOpen
    <3>2. \A s \in Servers : records'[s] = IF s = r.id THEN new ELSE records[s]
      BY <1>4, <2>2
    <3>3. QED BY <2>2, <3>1, <3>2 DEF StaysOpen
  <2>3. Owns(r) => records[r.id] \in Record
    BY <1>3, <1>4 DEF Owns
  <2>4. CASE UpdateProgress(r)
    <3> DEFINE new == Row(records[r.id], records[r.id].state, TRUE, records[r.id].outcome)
    <3>1. records' = [records EXCEPT ![r.id] = new] /\ Owns(r)
      BY <2>4 DEF UpdateProgress
    <3>2. /\ records[r.id].state \in OpenStates \cup TerminalStates
          /\ records[r.id].outcome \in Outcomes \cup {None}
      BY <2>3, <3>1 DEF Record
    <3>3. new # None BY <2>3, <3>1, <3>2, RowOfRecord
    <3>4. new.number = records[r.id].number /\ new.state = records[r.id].state
      BY DEF Row
    <3> HIDE DEF new
    <3>5. QED BY <2>2, <3>1, <3>3, <3>4
  <2>5. ASSUME NEW outcome \in Outcomes, ObserveTerminal(r, outcome)
        PROVE  \A s \in Servers : StaysOpen(records[s], records'[s])
    <3> DEFINE new == Row(records[r.id], records[r.id].state, records[r.id].progress, outcome)
    <3>1. records' = [records EXCEPT ![r.id] = new] /\ Owns(r)
      BY <2>5 DEF ObserveTerminal
    <3>2. /\ records[r.id].state \in OpenStates \cup TerminalStates
          /\ records[r.id].progress \in BOOLEAN
      BY <2>3, <3>1 DEF Record
    <3>3. new # None BY <2>3, <3>1, <3>2, RowOfRecord
    <3>4. new.number = records[r.id].number /\ new.state = records[r.id].state
      BY DEF Row
    <3> HIDE DEF new
    <3>5. QED BY <2>2, <3>1, <3>3, <3>4
  <2>6. QED BY <2>1, <2>4, <2>5
<1>6. QED BY <1>1, <1>2, <1>5, QuietRows

LEMMA ClearedRowsStay ==
  /\ \A s \in Servers : StaysOpen(records[s], ClearedRecords[s])
  /\ \A s \in Servers : StaysOpen(records[s], RecordsWithoutPending[s])
BY DEF StaysOpen, ClearedRecords, RecordsWithoutPending

LEMMA ClearCompletedRows ==
  ASSUME QueueInv, RowInv, ClearCompletedBatch PROVE RowInv' /\ RowsRespected
<1>1. UNCHANGED <<active, pending, nextRequest>> /\ records' = ClearedRecords
  BY DEF ClearCompletedBatch
<1>2. Outstanding' = Outstanding BY <1>1 DEF Outstanding, Waiting
<1>3. QED BY <1>1, <1>2, ClearedRowsStay, QuietRows

LEMMA OutstandingAre ==
  ASSUME QueueInv
  PROVE  /\ pending \in Seq(Request) /\ active \in Request \cup {None}
         /\ records \in [Servers -> Record \cup {None}]
         /\ \A i \in 1..Len(pending) : records[pending[i].id] # None
         /\ Elements(pending) = Waiting /\ Elements(pending) \subseteq Outstanding
<1>1. DOMAIN pending = 1..Len(pending) /\ pending \in Seq(Request)
  BY LenProperties DEF QueueInv, TypeOK
<1>2. QED BY <1>1 DEF QueueInv, TypeOK, WaitingHaveRows, Elements, Waiting, Outstanding

LEMMA ClearReapBlockRows ==
  ASSUME QueueInv, RowInv, ClearReapBlock PROVE RowInv' /\ RowsRespected
<1> DEFINE work == Promotion(active, attached, pending, records, cancelling)
<1>1. /\ active' = work.active /\ pending' = work.pending /\ records' = work.records
      /\ nextRequest' = nextRequest
  BY DEF ClearReapBlock, Install
<1>2. RowsAreOpen(Elements(pending), records)
  BY OutstandingAre DEF RowInv, RowsAreOpen
<1>3. \A s \in Servers : StaysOpen(records[s], work.records[s])
  BY <1>2, OutstandingAre, PromotionRespects
<1>0. /\ pending \in Seq(Request) /\ active \in Request \cup {None}
      /\ records \in [Servers -> Record \cup {None}]
      /\ \A i \in 1..Len(pending) : records[pending[i].id] # None
  BY OutstandingAre
<1>4. /\ Elements(work.pending) \cup ({work.active} \ {None})
           = Elements(pending) \cup ({active} \ {None})
      /\ \A s \in Servers : KeepsNumber(records[s], work.records[s])
  BY <1>0, PromotionLosesNone
<1> HIDE DEF work
<1>5. Outstanding' = Outstanding
  BY <1>1, <1>4, OutstandingIs, OutstandingIsNext
<1>6. QED BY <1>1, <1>3, <1>5, QuietRows

LEMMA WithdrawalRows ==
  ASSUME QueueInv, RowInv, Withdrawal PROVE RowInv' /\ RowsRespected
<1>1. nextRequest' = nextRequest /\ pending' = <<>>
  BY DEF Withdrawal, CancelBlockedPending, CancelAll, Shutdown
<1>2. CASE active' \in {active, None}
           /\ \A s \in Servers : StaysOpen(records[s], records'[s])
  <2>1. Outstanding' \subseteq Outstanding
    <3>1. Elements(pending') = {} BY <1>1 DEF Elements
    <3>2. QED BY <1>2, <3>1, OutstandingIs, OutstandingIsNext
  <2>2. QED BY <1>1, <1>2, <2>1, QuietRows
<1>3. CASE CancelBlockedPending
  BY <1>2, <1>3, ClearedRowsStay DEF CancelBlockedPending
<1>4. CASE CancelAll
  <2> DEFINE rows == RecordsWithoutPending
             record == Row(rows[active.id], "cancelled", rows[active.id].progress, "cancelled")
  <2>1. CASE ~(Reserved /\ rows[active.id] # None)
    BY <1>2, <1>4, <2>1, ClearedRowsStay DEF CancelAll
  <2>2. CASE Reserved /\ rows[active.id] # None
    <3>1. /\ active # None /\ active' = None
          /\ records' = [rows EXCEPT ![active.id] = record]
      BY <1>4, <2>2 DEF CancelAll, Reserved
    <3>2. active \in Outstanding /\ active.id \in Servers
      BY <3>1, OutstandingDiffer
    <3>3. rows[active.id] = records[active.id] /\ DOMAIN rows = Servers
      BY <2>2, <3>2 DEF RecordsWithoutPending
    <3>4. record.number = records[active.id].number
      BY <3>3 DEF Row
    <3> HIDE DEF record
    <3>5. \A s \in Servers : records'[s] = IF s = active.id THEN record ELSE rows[s]
      BY <3>1, <3>3
    <3>6. \A s \in Servers : s # active.id => StaysOpen(records[s], records'[s])
      BY <3>5, ClearedRowsStay
    <3>7. records'[active.id].number = records[active.id].number /\ records[active.id] # None
      BY <2>2, <3>2, <3>3, <3>4, <3>5
    <3>8. Outstanding' = {} BY <1>1, <3>1, NobodyOutstanding
    <3>9. QED BY <1>1, <3>2, <3>6, <3>7, <3>8, ReturnRows
  <2>3. QED BY <2>1, <2>2
<1>5. CASE Shutdown
  <2>1. CASE Reserved
    <3>1. active' = None /\ records' = [RecordsWithoutPending EXCEPT ![active.id] = None]
      BY <1>5, <2>1 DEF Shutdown
    <3>2. \A s \in Servers : records'[s] = None \/ records'[s] = RecordsWithoutPending[s]
      BY <3>1 DEF RecordsWithoutPending
    <3>3. \A s \in Servers : StaysOpen(records[s], records'[s])
      BY <3>2, ClearedRowsStay DEF StaysOpen
    <3>4. QED BY <1>2, <3>1, <3>3
  <2>2. CASE ~Reserved
    BY <1>2, <1>5, <2>2, ClearedRowsStay DEF Shutdown
  <2>3. QED BY <2>1, <2>2
<1>6. QED BY <1>3, <1>4, <1>5 DEF Withdrawal

(* The row of a request that returned: finished, and still of its number. *)
LEMMA ReturnedRowOf ==
  ASSUME QueueInv, NEW r \in Request, active = r, Owns(r), NEW outcome \in Outcomes
  PROVE  /\ [records EXCEPT ![r.id] = FinishedRecord(records[r.id], outcome)]
              \in [Servers -> Record \cup {None}]
         /\ \A s \in Servers :
              [records EXCEPT ![r.id] = FinishedRecord(records[r.id], outcome)][s]
                = IF s = r.id THEN FinishedRecord(records[r.id], outcome) ELSE records[s]
         /\ FinishedRecord(records[r.id], outcome).number = records[r.id].number
         /\ FinishedRecord(records[r.id], outcome).state \in TerminalStates
<1>1. records[r.id] \in Record /\ r.id \in Servers
  BY DEF QueueInv, TypeOK, Request, Owns
<1>2. records \in [Servers -> Record \cup {None}]
  BY DEF QueueInv, TypeOK
<1>3. FinishedRecord(records[r.id], outcome) \in Record
      /\ FinishedRecord(records[r.id], outcome).state \in TerminalStates
  BY <1>1, FinishedIsRecord
<1>4. FinishedRecord(records[r.id], outcome).number = records[r.id].number
  BY DEF FinishedRecord, Row
<1>5. QED BY <1>1, <1>2, <1>3, <1>4

LEMMA FinishRows ==
  ASSUME QueueInv, RowInv, NEW r \in Request, NEW outcome \in Outcomes, Finish(r, outcome)
  PROVE  RowInv' /\ RowsRespected
<1> DEFINE final == IF cancelling \/ shutdown THEN "cancelled" ELSE outcome
           record == FinishedRecord(records[r.id], final)
           rows == [records EXCEPT ![r.id] = record]
           work == Promotion(None, FALSE, pending, rows, cancelling)
<1>1. active = r /\ Owns(r) /\ r # None /\ final \in Outcomes
  BY NoneIsNothing DEF Finish, FinishAccepted, Outcomes
<1>2. /\ \/ active' = None /\ pending' = pending /\ records' = rows
         \/ active' = work.active /\ pending' = work.pending /\ records' = work.records
      /\ nextRequest' = nextRequest
  BY DEF Finish, Install
<1> HIDE DEF final
<1>3. /\ rows \in [Servers -> Record \cup {None}]
      /\ \A s \in Servers : rows[s] = IF s = r.id THEN record ELSE records[s]
      /\ record.number = records[r.id].number /\ record.state \in TerminalStates
  BY <1>1, ReturnedRowOf
<1> HIDE DEF record, rows
<1>4. \A q \in Waiting : q \in Outstanding /\ q.id # r.id /\ q.id \in Servers
  BY <1>1, OwnersAreLast, OutstandingDiffer
<1>5. /\ pending \in Seq(Request) /\ Elements(pending) = Waiting
      /\ \A i \in 1..Len(pending) : records[pending[i].id] # None
  BY OutstandingAre
<1>6. \A i \in 1..Len(pending) : rows[pending[i].id] # None
  <2>1. DOMAIN pending = 1..Len(pending) BY <1>5, LenProperties
  <2>2. \A i \in 1..Len(pending) : pending[i] \in Waiting BY <2>1 DEF Waiting
  <2>3. QED BY <1>3, <1>4, <1>5, <2>2
<1>7. RowsAreOpen(Elements(pending), rows)
  BY <1>3, <1>4, <1>5 DEF RowInv, RowsAreOpen
<1>8. \A s \in Servers : StaysOpen(rows[s], work.records[s])
  BY <1>3, <1>5, <1>6, <1>7, PromotionRespects
<1>9. /\ Elements(work.pending) \cup ({work.active} \ {None})
              = Elements(pending) \cup ({None} \ {None})
      /\ \A s \in Servers : KeepsNumber(rows[s], work.records[s])
  <2>1. None \in Request \cup {None} OBVIOUS
  <2>2. QED BY <1>3, <1>5, <1>6, <2>1, PromotionLosesNone
<1> HIDE DEF work
<1>10. Outstanding' = Waiting
  BY <1>2, <1>5, <1>9, OutstandingIsNext
<1>11. \A s \in Servers : StaysOpen(rows[s], records'[s])
  BY <1>2, <1>8 DEF StaysOpen
<1>12. r \in Outstanding /\ r.id \in Servers /\ records[r.id] # None
  BY <1>1, OutstandingDiffer DEF Owns
<1>13. \A s \in Servers : s # r.id => StaysOpen(records[s], records'[s])
  BY <1>3, <1>11
<1>14. records'[r.id] # None => records'[r.id].number = records[r.id].number
  BY <1>3, <1>11, <1>12 DEF StaysOpen
<1>15. QED BY <1>2, <1>4, <1>10, <1>12, <1>13, <1>14, ReturnRows

LEMMA FinishBlockedRows ==
  ASSUME QueueInv, RowInv, NEW r \in Request, FinishBlockedReapFailure(r)
  PROVE  RowInv' /\ RowsRespected
<1> DEFINE record == FinishedRecord(records[r.id], "failed")
           rows == [records EXCEPT ![r.id] = record]
<1>1. active = r /\ Owns(r) /\ r # None /\ "failed" \in Outcomes
  BY NoneIsNothing DEF FinishBlockedReapFailure, BlockAccepted, Outcomes
<1>2. active' = None /\ pending' = pending /\ records' = rows /\ nextRequest' = nextRequest
  BY DEF FinishBlockedReapFailure, Install
<1>3. /\ \A s \in Servers : rows[s] = IF s = r.id THEN record ELSE records[s]
      /\ record.number = records[r.id].number
  BY <1>1, ReturnedRowOf
<1> HIDE DEF record, rows
<1>4. Outstanding' = Waiting
  BY <1>2 DEF Outstanding, Waiting
<1>5. \A q \in Waiting : q \in Outstanding /\ q.id # r.id
  BY <1>1, OwnersAreLast
<1>6. r \in Outstanding /\ r.id \in Servers /\ records[r.id] # None
  BY <1>1, OutstandingDiffer DEF Owns
<1>7. \A s \in Servers : s # r.id => StaysOpen(records[s], records'[s])
  BY <1>2, <1>3 DEF StaysOpen
<1>8. records'[r.id].number = records[r.id].number
  BY <1>2, <1>3, <1>6
<1>9. QED BY <1>2, <1>4, <1>5, <1>6, <1>7, <1>8, ReturnRows

LEMMA EnqueueRows ==
  ASSUME QueueInv, RowInv, NEW s \in Servers, Enqueue(s)
  PROVE  RowInv' /\ RowsRespected
<1> DEFINE first == activeBatch = 0
           request == [number |-> nextRequest + 1, id |-> s,
                       batch |-> IF first THEN nextBatch + 1 ELSE activeBatch,
                       epoch |-> IF first THEN epoch + 1 ELSE epoch,
                       order |-> IF first THEN 0 ELSE nextOrder]
           kept == IF first THEN ClearedRecords ELSE records
           row == QueuedRecord(request)
           rows == [kept EXCEPT ![s] = row]
           queue == Append(pending, request)
           work == Promotion(active, attached, queue, rows, cancelling)
<1>1. /\ active' = work.active /\ pending' = work.pending /\ records' = work.records
      /\ nextRequest' = nextRequest + 1
  BY DEF Enqueue, Install
<1>2. /\ nextRequest \in Nat /\ nextBatch \in Nat /\ activeBatch \in Nat
      /\ epoch \in Nat /\ nextOrder \in Nat
  BY DEF QueueInv, TypeOK
<1>3. Shape(active, pending, records, activeBatch, epoch, nextRequest, Stale)
  BY InvIsShapeAndFrame
<1>4. request \in Request /\ request.id = s /\ request.number = nextRequest + 1
  BY <1>2 DEF Request
<1>5. row \in Record /\ row # None /\ row.number = nextRequest + 1 /\ row.state \in OpenStates
  BY <1>4, RowOfRequest DEF QueuedRecord, Row, OpenStates
<1>6. kept \in [Servers -> Record \cup {None}]
  BY <1>3, RowsStayTyped DEF Shape
<1>7. first => Outstanding = {}
  <2>1. first => pending = <<>> /\ active = None
    BY <1>3, EmptySeq, LenProperties DEF Shape
  <2>2. QED BY <2>1 DEF Outstanding, Waiting
<1>8. ~first => kept = records
  OBVIOUS
<1>9. \A t \in Servers : StaysOpen(records[t], kept[t])
  BY ClearedRowsStay DEF StaysOpen
<1> HIDE DEF kept, row, request
<1>10. \A t \in Servers : rows[t] = IF t = s THEN row ELSE kept[t]
  BY <1>6
<1>11. rows \in [Servers -> Record \cup {None}]
  BY <1>5, <1>6
<1>12. \A r \in Outstanding : r \in Request /\ r.id \in Servers /\ r.number \in Nat
                             /\ r.number <= nextRequest
  BY OutstandingDiffer
<1>13. /\ queue \in Seq(Request) /\ Len(queue) = Len(pending) + 1 /\ Len(pending) \in Nat
       /\ pending \in Seq(Request)
       /\ \A i \in 1..Len(pending) : queue[i] = pending[i]
       /\ queue[Len(pending) + 1] = request
  <2>1. pending \in Seq(Request) BY <1>3 DEF Shape
  <2>2. QED BY <1>4, <2>1, AppendProperties, LenProperties
<1> HIDE DEF rows, queue
<1>14. Elements(queue) = Elements(pending) \cup {request}
  <2>1. DOMAIN queue = 1..Len(queue) /\ DOMAIN pending = 1..Len(pending)
    BY <1>13, LenProperties
  <2>2. QED BY <1>13, <2>1 DEF Elements
<1>call. PICK call : call = request
  OBVIOUS
<1>15. RowsAreOpen(Outstanding \cup {call}, rows)
  <2>1. SUFFICES ASSUME NEW r \in Outstanding \cup {call}, rows[r.id] # None
                 PROVE  rows[r.id].state \in OpenStates /\ r.number <= rows[r.id].number
    BY DEF RowsAreOpen
  <2>2. CASE r.id = s
    BY <1>2, <1>4, <1>call, <1>5, <1>10, <1>12, <2>2
  <2>3. CASE r.id # s
    <3>1. r \in Outstanding /\ ~first /\ r.id \in Servers
      BY <1>4, <1>call, <1>7, <1>12, <2>3
    <3>2. rows[r.id] = records[r.id]
      BY <1>8, <1>10, <2>3, <3>1
    <3>3. QED BY <2>1, <3>1, <3>2 DEF RowInv, RowsAreOpen
  <2>4. QED BY <2>2, <2>3
<1>16. \A i \in 1..Len(queue) : rows[queue[i].id] # None
  <2>1. \A i \in 1..Len(pending) : /\ pending[i].id \in Servers
                                   /\ records[pending[i].id] # None
                                   /\ pending[i] \in Outstanding
    <3>1. \A i \in 1..Len(pending) : pending[i] \in Outstanding
      <4>1. DOMAIN pending = 1..Len(pending) BY <1>13, LenProperties
      <4>2. QED BY <4>1 DEF Outstanding, Waiting
    <3>2. QED BY <1>3, <1>12, <3>1 DEF Shape
  <2>2. \A i \in 1..Len(pending) : rows[pending[i].id] # None
    BY <1>5, <1>7, <1>8, <1>10, <2>1
  <2>3. QED BY <1>4, <1>5, <1>10, <1>13, <2>2
<1>17. Elements(queue) \cup ({active} \ {None}) = Outstanding \cup {call}
  BY <1>14, <1>call, OutstandingIs
<1>18. \A t \in Servers : StaysOpen(rows[t], work.records[t])
  <2>1. RowsAreOpen(Elements(queue), rows)
    BY <1>15, <1>17 DEF RowsAreOpen
  <2>2. QED BY <1>11, <1>13, <1>16, <2>1, PromotionRespects
<1>19. /\ Elements(work.pending) \cup ({work.active} \ {None})
                = Elements(queue) \cup ({active} \ {None})
       /\ \A t \in Servers : KeepsNumber(rows[t], work.records[t])
  <2>1. active \in Request \cup {None}
    BY DEF QueueInv, TypeOK
  <2>2. QED BY <1>11, <1>13, <1>16, <2>1, PromotionLosesNone
<1> HIDE DEF work
<1>20. Outstanding' = Outstanding \cup {call}
  BY <1>1, <1>17, <1>19, OutstandingIsNext
<1>21. \A t \in Servers : StaysOpen(rows[t], records'[t])
  BY <1>1, <1>18
<1>22. RowsAreNumbered(rows, nextRequest + 1)
  <2>1. SUFFICES ASSUME NEW t \in Servers, rows[t] # None PROVE rows[t].number <= nextRequest + 1
    BY DEF RowsAreNumbered
  <2>2. CASE t = s BY <1>2, <1>5, <1>10, <2>2
  <2>3. CASE t # s
    <3>1. kept[t] \in Record /\ rows[t] = kept[t]
      BY <1>6, <1>10, <2>1, <2>3
    <3>2. kept[t].number \in Nat BY <3>1 DEF Record
    <3>3. kept[t].number <= nextRequest
      BY <1>9, <2>1, <3>1 DEF StaysOpen, RowInv, RowsAreNumbered
    <3>4. QED BY <1>2, <3>1, <3>2, <3>3
  <2>4. QED BY <2>2, <2>3
<1>23. RowInv'
  <2>1. \A r \in Outstanding' : r.id \in Servers
    BY <1>4, <1>call, <1>12, <1>20
  <2>2. RowsAreOpen(Outstanding', rows)
    BY <1>15, <1>20
  <2>3. RowsAreOpen(Outstanding', records') /\ RowsAreNumbered(records', nextRequest + 1)
    BY <1>21, <1>22, <2>1, <2>2, RowsFollow
  <2>4. QED BY <1>1, <2>3 DEF RowInv
<1>24. RowsRespected
  <2>1. SUFFICES ASSUME NEW t \in Servers PROVE Respects(records[t], records'[t])
    BY DEF RowsRespected
  <2>2. Respects(records[t], rows[t])
    <3>1. CASE t = s
      <4>1. records[t] # None => records[t].number \in Nat /\ records[t].number <= nextRequest
        BY <1>3 DEF Shape, Record, RowInv, RowsAreNumbered
      <4>2. QED BY <1>2, <1>5, <1>10, <3>1, <4>1 DEF Respects
    <3>2. CASE t # s
      BY <1>9, <1>10, <3>2, OpenIsNotFinished DEF StaysOpen, Respects
    <3>3. QED BY <3>1, <3>2
  <2>3. QED BY <1>21, <2>2, OpenRowRespects
<1>25. QED BY <1>23, <1>24

LEMMA RetryNumbersAreNew ==
  ASSUME NEW items, NEW failures, NEW n \in Nat, NEW m \in Nat, nextRequest \in Nat,
         DOMAIN items = 1..n, DOMAIN failures = 1..m
  PROVE  /\ \A i \in 1..n : ItemNumber(items, failures, i) > nextRequest
         /\ \A k \in 1..m : FailureNumber(items, failures, k) > nextRequest
<1> DEFINE below(i) == {k \in DOMAIN failures : failures[k].order < items[i].order}
           upto(k) == {i \in DOMAIN items : items[i].order <= failures[k].order}
<1>1. IsFiniteSet(1..m) /\ IsFiniteSet(1..n)
  BY FS_Interval
<1>2. \A i : below(i) \in SUBSET (1..m)
  OBVIOUS
<1>3. \A k : upto(k) \in SUBSET (1..n)
  OBVIOUS
<1>4. \A i : ItemNumber(items, failures, i) = nextRequest + i + Cardinality(below(i))
  BY DEF ItemNumber
<1>5. \A k : FailureNumber(items, failures, k) = nextRequest + k + Cardinality(upto(k))
  BY DEF FailureNumber
<1> HIDE DEF below, upto
<1>6. \A i : Cardinality(below(i)) \in Nat
  BY <1>1, <1>2, FS_Subset, FS_CardinalityType
<1>7. \A k : Cardinality(upto(k)) \in Nat
  BY <1>1, <1>3, FS_Subset, FS_CardinalityType
<1>8. \A i \in 1..n : ItemNumber(items, failures, i) > nextRequest
  BY <1>4, <1>6
<1>9. \A k \in 1..m : FailureNumber(items, failures, k) > nextRequest
  BY <1>5, <1>7
<1>10. QED BY <1>8, <1>9

LEMMA RetryBatchRows ==
  ASSUME QueueInv, RowInv, NEW items, NEW failures,
         EnqueueRetryBatch(items, failures),
         NEW n \in Nat, NEW m \in Nat, n = Len(items), m = Len(failures),
         items \in Seq(Entry), DOMAIN items = 1..n, DOMAIN failures = 1..m,
         \A i \in 1..n : items[i] \in Entry, \A k \in 1..m : failures[k] \in Entry,
         \A i, j \in 1..n : i < j => items[i].order <= items[j].order,
         \A k, l \in 1..m : k < l => failures[k].order <= failures[l].order
  PROVE  RowInv' /\ RowsRespected
<1> DEFINE batch == nextBatch + 1
           request(i) == [number |-> ItemNumber(items, failures, i), batch |-> batch,
                          epoch |-> epoch + 1, id |-> items[i].id, order |-> items[i].order]
           failure(k) == [number |-> FailureNumber(items, failures, k), batch |-> batch,
                          order |-> failures[k].order, state |-> "failed",
                          progress |-> FALSE, outcome |-> "failed"]
           requests == [i \in DOMAIN items |-> request(i)]
           rejected == [k \in DOMAIN failures |-> failure(k)]
           rows == [s \in Servers |->
                      IF \E i \in DOMAIN items : items[i].id = s
                      THEN QueuedRecord(requests[LastOf(items, s)])
                      ELSE IF \E k \in DOMAIN failures : failures[k].id = s
                      THEN rejected[LastOf(failures, s)]
                      ELSE ClearedRecords[s]]
           work == Promotion(None, attached, requests, rows, cancelling)
           top == nextRequest + n + m
<1>1. /\ active = None /\ pending = <<>>
      /\ nextRequest' = top
      /\ active' = work.active /\ pending' = work.pending /\ records' = work.records
  BY DEF EnqueueRetryBatch, Install
<1>2. /\ nextRequest \in Nat /\ nextBatch \in Nat /\ epoch \in Nat
      /\ batch \in Nat /\ top \in Nat
  BY DEF QueueInv, TypeOK
<1>3. /\ \A i \in 1..n : items[i].order \in Nat /\ items[i].id \in Servers
      /\ \A k \in 1..m : failures[k].order \in Nat /\ failures[k].id \in Servers
  BY DEF Entry
<1>4. /\ \A i \in 1..n : /\ ItemNumber(items, failures, i) \in Nat
                         /\ ItemNumber(items, failures, i) <= top
      /\ \A i, j \in 1..n :
           i < j => ItemNumber(items, failures, i) < ItemNumber(items, failures, j)
      /\ \A k \in 1..m : FailureNumber(items, failures, k) \in Nat
  BY <1>2, <1>3, RetryNumbers
<1>5. \A k \in 1..m : FailureNumber(items, failures, k) <= top
  BY <1>2, <1>3, RetryNumbersDiffer
<1>6. /\ \A i \in 1..n : ItemNumber(items, failures, i) > nextRequest
      /\ \A k \in 1..m : FailureNumber(items, failures, k) > nextRequest
  BY <1>2, RetryNumbersAreNew
<1>top. nextRequest <= top
  BY <1>2
<1> HIDE DEF top
<1>7. /\ \A i \in 1..n : /\ requests[i] \in Request /\ requests[i].id = items[i].id
                         /\ requests[i].number = ItemNumber(items, failures, i)
      /\ DOMAIN requests = 1..n
  BY <1>2, <1>3, <1>4 DEF Request
<1>8. \A k \in 1..m : /\ rejected[k].number = FailureNumber(items, failures, k)
                      /\ rejected[k] \in Record
  BY <1>2, <1>3, <1>4 DEF Record, TerminalStates, OpenStates, Outcomes
<1>9. requests \in Seq(Request) /\ Len(requests) = n
  <2>1. requests \in [1..n -> Request]
    BY <1>7
  <2> HIDE DEF requests
  <2>2. QED BY <2>1, FunctionIsSeq
<1> HIDE DEF request, failure, requests, rejected, batch
<1>10. ASSUME NEW s \in Servers, \E i \in 1..n : items[i].id = s
       PROVE  \E last \in 1..n :
                /\ rows[s] \in Record /\ rows[s] # None
                /\ rows[s].number = ItemNumber(items, failures, last)
                /\ rows[s].state \in OpenStates
                /\ \A i \in 1..n : items[i].id = s => i <= last
  <2>1. /\ LastOf(items, s) \in 1..n
        /\ \A i \in 1..n : items[i].id = s => i <= LastOf(items, s)
    BY <1>10, LastOfIsInList
  <2>2. rows[s] = QueuedRecord(requests[LastOf(items, s)])
    BY <1>10
  <2> HIDE DEF rows
  <2>3. rows[s] \in Record /\ rows[s] # None
    BY <1>7, <2>1, <2>2, RowOfRequest
  <2>4. rows[s].number = ItemNumber(items, failures, LastOf(items, s))
        /\ rows[s].state \in OpenStates
    BY <1>7, <2>1, <2>2 DEF QueuedRecord, Row, OpenStates
  <2>5. QED BY <2>1, <2>3, <2>4
<1>11. ASSUME NEW s \in Servers, ~\E i \in 1..n : items[i].id = s
       PROVE  \/ StaysOpen(records[s], rows[s]) /\ rows[s] \in Record \cup {None}
              \/ \E k \in 1..m : /\ rows[s].number = FailureNumber(items, failures, k)
                                 /\ rows[s] \in Record
  <2>1. CASE \E k \in 1..m : failures[k].id = s
    <3>1. LastOf(failures, s) \in 1..m BY <2>1, LastOfIsInList
    <3>2. rows[s] = rejected[LastOf(failures, s)] BY <1>11, <2>1
    <3> HIDE DEF rows
    <3>3. QED BY <1>8, <3>1, <3>2
  <2>2. CASE ~\E k \in 1..m : failures[k].id = s
    <3>1. rows[s] = ClearedRecords[s] BY <1>11, <2>2
    <3>2. ClearedRecords \in [Servers -> Record \cup {None}]
      BY InvIsShapeAndFrame, RowsStayTyped DEF Shape
    <3> HIDE DEF rows
    <3>3. QED BY <3>1, <3>2, ClearedRowsStay
  <2>3. QED BY <2>1, <2>2
<1>12. rows \in [Servers -> Record \cup {None}]
  <2>1. rows = [s \in Servers |-> rows[s]]
    OBVIOUS
  <2> HIDE DEF rows
  <2>2. \A s \in Servers : rows[s] \in Record \cup {None}
    BY <1>10, <1>11
  <2>3. QED BY <2>1, <2>2
<1> HIDE DEF rows
<1>13. RowsAreNumbered(rows, top)
  <2>1. SUFFICES ASSUME NEW s \in Servers, rows[s] # None PROVE rows[s].number <= top
    BY DEF RowsAreNumbered
  <2>2. CASE \E i \in 1..n : items[i].id = s
    BY <1>4, <1>10, <2>2
  <2>3. CASE StaysOpen(records[s], rows[s])
    <3>1. rows[s].number <= nextRequest
      BY <2>1, <2>3 DEF StaysOpen, RowInv, RowsAreNumbered
    <3>2. rows[s].number \in Nat
      BY <1>12, <2>1 DEF Record
    <3>3. QED BY <1>2, <1>top, <3>1, <3>2
  <2>4. CASE \E k \in 1..m : rows[s].number = FailureNumber(items, failures, k)
    BY <1>5, <2>4
  <2>5. QED BY <1>11, <2>2, <2>3, <2>4
<1>14. RowsAreOpen(Elements(requests), rows)
  <2>1. SUFFICES ASSUME NEW i \in 1..n
                 PROVE  /\ rows[requests[i].id].state \in OpenStates
                        /\ requests[i].number <= rows[requests[i].id].number
    BY <1>7 DEF RowsAreOpen, Elements
  <2>2. requests[i].id = items[i].id /\ items[i].id \in Servers
    BY <1>3, <1>7
  <2>3. PICK last \in 1..n :
          /\ rows[items[i].id].number = ItemNumber(items, failures, last)
          /\ rows[items[i].id].state \in OpenStates
          /\ i <= last
    BY <1>10, <2>2
  <2>4. requests[i].number <= ItemNumber(items, failures, last)
    BY <1>4, <1>7, <2>3
  <2>5. QED BY <2>2, <2>3, <2>4
<1>15. \A i \in 1..Len(requests) : rows[requests[i].id] # None
  BY <1>3, <1>7, <1>9, <1>10
<1>16. \A s \in Servers : StaysOpen(rows[s], work.records[s])
  BY <1>9, <1>12, <1>14, <1>15, PromotionRespects
<1>17. /\ Elements(work.pending) \cup ({work.active} \ {None})
                = Elements(requests) \cup ({None} \ {None})
       /\ \A s \in Servers : KeepsNumber(rows[s], work.records[s])
  <2>1. None \in Request \cup {None} OBVIOUS
  <2>2. QED BY <1>9, <1>12, <1>15, <2>1, PromotionLosesNone
<1> HIDE DEF work
<1>18. RowInv'
  <2>1. Outstanding' = Elements(requests)
    BY <1>1, <1>17, OutstandingIsNext
  <2>2. \A r \in Elements(requests) : r.id \in Servers
    BY <1>3, <1>7 DEF Elements
  <2>3. RowsAreOpen(Elements(requests), records') /\ RowsAreNumbered(records', top)
    BY <1>1, <1>13, <1>14, <1>16, <2>2, RowsFollow
  <2>4. QED BY <1>1, <2>1, <2>3 DEF RowInv
<1>19. RowsRespected
  <2>1. SUFFICES ASSUME NEW s \in Servers PROVE Respects(records[s], records'[s])
    BY DEF RowsRespected
  <2>2. records[s] # None => records[s].number \in Nat /\ records[s].number <= nextRequest
    BY DEF QueueInv, TypeOK, Record, RowInv, RowsAreNumbered
  <2>3. Respects(records[s], rows[s])
    <3>1. CASE \E i \in 1..n : items[i].id = s
      <4>1. PICK last \in 1..n : rows[s].number = ItemNumber(items, failures, last)
        BY <1>10, <3>1
      <4>2. rows[s].number > nextRequest /\ rows[s].number \in Nat
        BY <1>4, <1>6, <4>1
      <4>3. QED BY <1>2, <2>2, <4>2 DEF Respects
    <3>2. CASE StaysOpen(records[s], rows[s])
      BY <3>2, OpenIsNotFinished DEF StaysOpen, Respects
    <3>3. CASE \E k \in 1..m : rows[s].number = FailureNumber(items, failures, k)
      <4>1. PICK k \in 1..m : rows[s].number = FailureNumber(items, failures, k)
        BY <3>3
      <4>2. rows[s].number > nextRequest /\ rows[s].number \in Nat
        BY <1>4, <1>6, <4>1
      <4>3. QED BY <1>2, <2>2, <4>2 DEF Respects
    <3>4. QED BY <1>11, <3>1, <3>2, <3>3
  <2>4. StaysOpen(rows[s], records'[s])
    BY <1>1, <1>16
  <2>5. QED BY <2>3, <2>4, OpenRowRespects
<1>20. QED BY <1>18, <1>19

LEMMA RetryRows ==
  ASSUME QueueInv, RowInv, NEW resolvable, Retry(resolvable)
  PROVE  RowInv' /\ RowsRespected
<1> DEFINE kept == {e \in FailedEntries : e.id \in resolvable}
           lost == {e \in FailedEntries : e.id \notin resolvable}
<1>1. PICK items \in Orderings(kept), failures \in Orderings(lost) :
        EnqueueRetryBatch(items, failures)
  BY DEF Retry
<1>2. kept \in SUBSET FailedEntries /\ lost \in SUBSET FailedEntries
  OBVIOUS
<1> HIDE DEF kept, lost
<1>3. /\ kept \in SUBSET Entry /\ IsFiniteSet(kept)
      /\ lost \in SUBSET Entry /\ IsFiniteSet(lost)
  BY <1>2, FailedEntriesAreFinite
<1>4. /\ Len(items) \in Nat /\ DOMAIN items = 1..Len(items) /\ items \in Seq(Entry)
      /\ \A i \in 1..Len(items) : items[i] \in Entry
      /\ \A i, j \in 1..Len(items) : i < j => items[i].order <= items[j].order
  BY <1>3, OrderingsAreLists
<1>5. /\ Len(failures) \in Nat /\ DOMAIN failures = 1..Len(failures)
      /\ \A k \in 1..Len(failures) : failures[k] \in Entry
      /\ \A k, l \in 1..Len(failures) : k < l => failures[k].order <= failures[l].order
  BY <1>3, OrderingsAreLists
<1>6. QED BY <1>1, <1>4, <1>5, RetryBatchRows

LEMMA RowStep ==
  ASSUME QueueInv, AcceptedAreRequests, RowInv, [CallsNext]_callsVars
  PROVE  RowInv' /\ RowsRespected
<1>1. ASSUME NEW s \in Servers, Enqueue(s) PROVE RowInv' /\ RowsRespected
  BY <1>1, EnqueueRows
<1>2. ASSUME NEW resolvable \in SUBSET Servers, Retry(resolvable)
      PROVE  RowInv' /\ RowsRespected
  BY <1>2, RetryRows
<1>3. CASE ClearCompletedBatch
  BY <1>3, ClearCompletedRows
<1>4. CASE ClearReapBlock
  BY <1>4, ClearReapBlockRows
<1>5. ASSUME NEW r \in accepted, WorkerStep(r) PROVE RowInv' /\ RowsRespected
  <2>1. r \in Request BY DEF AcceptedAreRequests
  <2>2. ASSUME NEW outcome \in Outcomes, Finish(r, outcome) PROVE RowInv' /\ RowsRespected
    BY <2>1, <2>2, FinishRows
  <2>3. CASE FinishBlockedReapFailure(r)
    BY <2>1, <2>3, FinishBlockedRows
  <2>4. CASE \/ AttachController(r) \/ UpdateProgress(r)
             \/ \E outcome \in Outcomes : ObserveTerminal(r, outcome)
    BY <2>1, <2>4, CallbackRows
  <2>5. QED BY <1>5, <2>2, <2>3, <2>4 DEF WorkerStep
<1>6. CASE Withdrawal
  BY <1>6, WithdrawalRows
<1>7. CASE UNCHANGED callsVars
  <2>1. UNCHANGED <<active, pending, records, nextRequest>>
    BY <1>7 DEF callsVars, queueVars, workVars
  <2>2. Outstanding' = Outstanding BY <2>1 DEF Outstanding, Waiting
  <2>3. \A s \in Servers : StaysOpen(records[s], records'[s])
    BY <2>1 DEF StaysOpen
  <2>4. QED BY <2>1, <2>2, <2>3, QuietRows
<1>8. QED BY <1>1, <1>2, <1>3, <1>4, <1>5, <1>6, <1>7 DEF CallsNext, UserCall

(* A report keeps all results of its batch. *)
LEMMA FinalizeKeepsResults ==
  ASSUME QueueInv, NEW all \in SUBSET Entry, NEW byUser \in BOOLEAN,
         Finalize(all, byUser), entries \subseteq all
  PROVE  BatchInv' /\ ResultsKept
<1>1. [batch |-> activeBatch, entries |-> all, cancelledByUser |-> byUser] \in Batch
  BY DEF Batch, QueueInv, TypeOK
<1>2. completed' \in Batch /\ completed'.entries = all
  BY <1>1 DEF Finalize
<1>3. completed' # None
  BY <1>2, NoneIsNothing
<1>4. activeBatch' = 0 /\ entries' = {}
  BY DEF Finalize
<1>5. QED BY <1>2, <1>3, <1>4 DEF BatchInv, ResultsKept

(* A call that drops no entry, and ends no work. *)
LEMMA EntriesStay ==
  ASSUME entries \subseteq entries', activeBatch' # 0 \/ entries' = {},
         active' = None /\ pending' = <<>> /\ ~cancelling' /\ ~shutdown' => activeBatch' = 0
  PROVE  BatchInv' /\ ResultsKept
BY DEF BatchInv, ResultsKept

LEMMA WorkHasABatch ==
  ASSUME QueueInv
  PROVE  active # None \/ pending # <<>> => activeBatch # 0
<1>1. Shape(active, pending, records, activeBatch, epoch, nextRequest, Stale)
  BY InvIsShapeAndFrame
<1>2. QED BY <1>1, EmptySeq, LenProperties DEF Shape

(* What a promotion leaves: somebody is active if it could be done. *)
LEMMA PromotionTakesHead ==
  ASSUME NEW act, NEW att, NEW queue \in Seq(Request), NEW recs, NEW cancels,
         act # None \/ queue # <<>>, ~cancels, ~shutdown
  PROVE  Promotion(act, att, queue, recs, cancels).active # None
<1>1. CASE act # None
  BY <1>1 DEF Promotion
<1>2. CASE act = None
  <2>1. queue # <<>> BY <1>2
  <2>2. Head(queue) \in Request BY <2>1, HeadTailProperties
  <2>3. Head(queue) # None BY <2>2, NoneIsNothing
  <2>4. QED BY <1>2, <2>1, <2>3 DEF Promotion
<1>3. QED BY <1>1, <1>2

LEMMA FinishResults ==
  ASSUME QueueInv, BatchInv, NEW r \in Request, NEW outcome \in Outcomes, Finish(r, outcome)
  PROVE  BatchInv' /\ ResultsKept
<1> DEFINE final == IF cancelling \/ shutdown THEN "cancelled" ELSE outcome
           record == FinishedRecord(records[r.id], final)
           rows == [records EXCEPT ![r.id] = record]
           all == entries \cup {EntryOf(r.id, record)}
           work == Promotion(None, FALSE, pending, rows, cancelling)
<1>1. active = r /\ Owns(r) /\ r # None /\ final \in Outcomes
  BY NoneIsNothing DEF Finish, FinishAccepted, Outcomes
<1>2. /\ \/ cancelling /\ Finalize(all, TRUE)
         \/ ~cancelling /\ shutdown /\ activeBatch' = 0 /\ entries' = {}
         \/ /\ ~cancelling /\ ~shutdown /\ active' = work.active /\ cancelling' = cancelling
            /\ IF pending = <<>> THEN Finalize(all, FALSE)
               ELSE entries' = all /\ UNCHANGED <<completed, activeBatch, nextOrder>>
      /\ shutdown' = shutdown
  BY DEF Finish, Install
<1> HIDE DEF final
<1>3. all \in SUBSET Entry
  BY <1>1, ReturnedRow
<1>4. entries \subseteq all OBVIOUS
<1> HIDE DEF all, record, rows
<1>5. CASE Finalize(all, TRUE) \/ Finalize(all, FALSE)
  BY <1>3, <1>4, <1>5, FinalizeKeepsResults
<1>6. CASE ~cancelling /\ shutdown /\ activeBatch' = 0 /\ entries' = {}
  BY <1>2, <1>6 DEF BatchInv, ResultsKept
<1>7. CASE /\ ~cancelling /\ ~shutdown /\ active' = work.active /\ pending # <<>>
           /\ entries' = all /\ UNCHANGED <<completed, activeBatch, nextOrder>>
  <2>1. pending \in Seq(Request) BY OutstandingAre
  <2>2. active' # None BY <1>7, <2>1, PromotionTakesHead
  <2>3. activeBatch' # 0 BY <1>7, WorkHasABatch
  <2>4. QED BY <1>4, <1>7, <2>2, <2>3, EntriesStay
<1>8. QED BY <1>2, <1>5, <1>6, <1>7

LEMMA FinishBlockedResults ==
  ASSUME QueueInv, BatchInv, NEW r \in Request, FinishBlockedReapFailure(r)
  PROVE  BatchInv' /\ ResultsKept
<1> DEFINE record == FinishedRecord(records[r.id], "failed")
           all == entries \cup {EntryOf(r.id, record)}
<1>1. active = r /\ Owns(r) /\ r # None /\ "failed" \in Outcomes
  BY NoneIsNothing DEF FinishBlockedReapFailure, BlockAccepted, Outcomes
<1>2. /\ pending' = pending
      /\ IF pending = <<>> THEN Finalize(all, FALSE)
         ELSE entries' = all /\ UNCHANGED <<completed, activeBatch, nextOrder>>
  BY DEF FinishBlockedReapFailure, Install
<1>3. all \in SUBSET Entry
  BY <1>1, ReturnedRow
<1>4. entries \subseteq all OBVIOUS
<1> HIDE DEF all, record
<1>5. CASE pending = <<>>
  BY <1>2, <1>3, <1>4, <1>5, FinalizeKeepsResults
<1>6. CASE pending # <<>>
  BY <1>2, <1>4, <1>6, WorkHasABatch, EntriesStay
<1>7. QED BY <1>5, <1>6

LEMMA UserResults ==
  ASSUME QueueInv, BatchInv, UserCall PROVE BatchInv' /\ ResultsKept
<1>1. ASSUME NEW s \in Servers, Enqueue(s) PROVE BatchInv' /\ ResultsKept
  <2> DEFINE first == activeBatch = 0
             request == [number |-> nextRequest + 1, id |-> s,
                         batch |-> IF first THEN nextBatch + 1 ELSE activeBatch,
                         epoch |-> IF first THEN epoch + 1 ELSE epoch,
                         order |-> IF first THEN 0 ELSE nextOrder]
             kept == IF first THEN ClearedRecords ELSE records
             queue == Append(pending, request)
             rows == [kept EXCEPT ![s] = QueuedRecord(request)]
  <2>1. /\ activeBatch' = request.batch
        /\ entries' = (IF first THEN {} ELSE entries)
        /\ active' = Promotion(active, attached, queue, rows, cancelling).active
        /\ ~cancelling /\ ~shutdown
    BY <1>1 DEF Enqueue, Install, Accepts
  <2>2. /\ nextRequest \in Nat /\ nextBatch \in Nat /\ activeBatch \in Nat
        /\ epoch \in Nat /\ nextOrder \in Nat /\ pending \in Seq(Request)
    BY DEF QueueInv, TypeOK
  <2>3. request \in Request BY <2>2 DEF Request
  <2>4. activeBatch' # 0 BY <2>1, <2>2
  <2> HIDE DEF request
  <2>5. queue \in Seq(Request) /\ queue # <<>>
    <3>1. queue \in Seq(Request) /\ Len(queue) = Len(pending) + 1 /\ Len(pending) \in Nat
      BY <2>2, <2>3, AppendProperties, LenProperties
    <3> HIDE DEF queue
    <3>2. QED BY <3>1, EmptySeq
  <2> HIDE DEF queue, rows
  <2>6. active' # None BY <2>1, <2>5, PromotionTakesHead
  <2>7. entries \subseteq entries' BY <2>1 DEF BatchInv
  <2>8. QED BY <2>4, <2>6, <2>7, EntriesStay
<1>2. ASSUME NEW resolvable \in SUBSET Servers, Retry(resolvable)
      PROVE  BatchInv' /\ ResultsKept
  <2> DEFINE keep == {e \in FailedEntries : e.id \in resolvable}
             lost == {e \in FailedEntries : e.id \notin resolvable}
  <2>1. PICK items \in Orderings(keep), failures \in Orderings(lost) :
          EnqueueRetryBatch(items, failures)
    BY <1>2 DEF Retry
  <2>2. keep \in SUBSET FailedEntries /\ lost \in SUBSET FailedEntries
    OBVIOUS
  <2> HIDE DEF keep, lost
  <2>3. /\ keep \in SUBSET Entry /\ IsFiniteSet(keep)
        /\ lost \in SUBSET Entry /\ IsFiniteSet(lost)
    BY <2>2, FailedEntriesAreFinite
  <2>4. /\ Len(items) \in Nat /\ DOMAIN items = 1..Len(items) /\ items \in Seq(Entry)
        /\ \A i \in 1..Len(items) : items[i] \in Entry
        /\ \A i, j \in 1..Len(items) : i < j => items[i].order <= items[j].order
        /\ Len(failures) \in Nat /\ DOMAIN failures = 1..Len(failures)
        /\ \A k \in 1..Len(failures) : failures[k] \in Entry
    BY <2>3, OrderingsAreLists
  <2>5. entries = {}
    BY <2>1 DEF EnqueueRetryBatch, Accepts, BatchInv
  <2>6. CASE items = <<>>
    BY <2>1, <2>5, <2>6, EntriesStay DEF EnqueueRetryBatch
  <2>7. CASE items # <<>>
    <3> DEFINE request(i) == [number |-> ItemNumber(items, failures, i),
                              batch |-> nextBatch + 1, epoch |-> epoch + 1,
                              id |-> items[i].id, order |-> items[i].order]
               requests == [i \in DOMAIN items |-> request(i)]
    <3>1. PICK rows : active' = Promotion(None, attached, requests, rows, cancelling).active
      BY <2>1 DEF EnqueueRetryBatch, Install
    <3>2. activeBatch' = nextBatch + 1 /\ ~cancelling /\ ~shutdown
      BY <2>1, <2>7 DEF EnqueueRetryBatch, Accepts
    <3>3. nextBatch \in Nat BY DEF QueueInv, TypeOK
    <3>4. DOMAIN requests = DOMAIN items /\ 1 \in DOMAIN items
      BY <2>4, <2>7, EmptySeq
    <3>5. request(1) \in Request
      <4>1. 1 \in 1..Len(items) /\ nextRequest \in Nat /\ epoch \in Nat
        BY <2>4, <3>4 DEF QueueInv, TypeOK
      <4>2. /\ \A i \in 1..Len(items) : items[i].order \in Nat /\ items[i].id \in Servers
            /\ \A k \in 1..Len(failures) : failures[k].order \in Nat
        BY <2>4 DEF Entry
      <4>3. ItemNumber(items, failures, 1) \in Nat
        BY <2>4, <4>1, <4>2, RetryNumbers
      <4>4. QED BY <3>3, <4>1, <4>2, <4>3 DEF Request
    <3>6. active' # None
      <4>1. requests[1] = request(1) /\ requests # <<>> /\ requests[1] # None
        BY <3>4, <3>5, NoneIsNothing
      <4>2. Head(requests) = requests[1]
        BY <2>4, <4>1
      <4> HIDE DEF requests
      <4>3. QED BY <3>1, <3>2, <4>1, <4>2 DEF Promotion
    <3>7. QED BY <2>5, <3>2, <3>3, <3>6, EntriesStay
  <2>8. QED BY <2>6, <2>7
<1>3. CASE ClearCompletedBatch
  BY <1>3 DEF ClearCompletedBatch, modeVars, BatchInv, ResultsKept
<1>4. QED BY <1>1, <1>2, <1>3 DEF UserCall

LEMMA ClearReapBlockResults ==
  ASSUME QueueInv, BatchInv, ClearReapBlock PROVE BatchInv' /\ ResultsKept
<1> DEFINE work == Promotion(active, attached, pending, records, cancelling)
<1>1. /\ active' = work.active /\ pending' = work.pending
      /\ IF ~shutdown /\ activeBatch # 0 /\ pending = <<>>
         THEN Finalize(entries, FALSE) ELSE KeepBatch
      /\ cancelling' = cancelling /\ shutdown' = shutdown
  BY DEF ClearReapBlock, Install
<1>2. pending \in Seq(Request)
  BY OutstandingAre
<1>3. CASE Finalize(entries, FALSE)
  <2>1. entries \in SUBSET Entry BY DEF QueueInv, TypeOK
  <2>2. QED BY <1>3, <2>1, FinalizeKeepsResults
<1>4. CASE KeepBatch /\ ~(~shutdown /\ activeBatch # 0 /\ pending = <<>>)
  <2>1. activeBatch' = activeBatch /\ entries' = entries
    BY <1>4 DEF KeepBatch
  <2>2. pending # <<>> /\ ~cancelling /\ ~shutdown => active' # None
    BY <1>1, <1>2, PromotionTakesHead
  <2>3. active' = None /\ pending' = <<>> /\ ~cancelling' /\ ~shutdown' => activeBatch' = 0
    BY <1>1, <1>4, <2>1, <2>2
  <2>4. QED BY <2>1, <2>3, EntriesStay DEF BatchInv
<1>5. QED BY <1>1, <1>3, <1>4

LEMMA WithdrawalResults ==
  ASSUME QueueInv, BatchInv, Withdrawal PROVE BatchInv' /\ ResultsKept
<1>1. entries \in SUBSET Entry /\ TRUE \in BOOLEAN
  BY DEF QueueInv, TypeOK
<1>2. CASE CancelBlockedPending
  <2>1. CASE activeBatch # 0
    <3>1. Finalize(entries, TRUE) BY <1>2, <2>1 DEF CancelBlockedPending
    <3>2. QED BY <1>1, <3>1, FinalizeKeepsResults
  <2>2. CASE activeBatch = 0
    BY <1>2, <2>2, EntriesStay DEF CancelBlockedPending, KeepBatch, BatchInv
  <2>3. QED BY <2>1, <2>2
<1>3. CASE CancelAll
  <2> DEFINE rows == RecordsWithoutPending
             record == Row(rows[active.id], "cancelled", rows[active.id].progress, "cancelled")
             all == entries \cup {EntryOf(active.id, record)}
  <2>1. CASE Reserved /\ rows[active.id] # None
    <3>1. active # None /\ Finalize(all, TRUE)
      BY <1>3, <2>1 DEF CancelAll, Reserved
    <3>2. active.id \in Servers BY <3>1, OutstandingDiffer
    <3>3. rows[active.id] \in Record
      BY <2>1, <3>2, OutstandingAre DEF RecordsWithoutPending
    <3>4. /\ "cancelled" \in OpenStates \cup TerminalStates /\ "cancelled" \in Outcomes \cup {None}
          /\ "cancelled" \in TerminalStates /\ rows[active.id].progress \in BOOLEAN
      BY <3>3 DEF TerminalStates, Outcomes, Record
    <3> HIDE DEF rows
    <3>5. record \in Record /\ record.state \in TerminalStates
      BY <3>3, <3>4, RowOfRecord
    <3> HIDE DEF record
    <3>6. all \in SUBSET Entry
      BY <1>1, <3>2, <3>5, EntryOfRecord
    <3>7. QED BY <1>1, <3>1, <3>6, FinalizeKeepsResults
  <2>2. CASE ~(Reserved /\ rows[active.id] # None)
    BY <1>3, <2>2, EntriesStay DEF CancelAll, KeepBatch, BatchInv
  <2>3. QED BY <2>1, <2>2
<1>4. CASE Shutdown
  BY <1>4 DEF Shutdown, BatchInv, ResultsKept
<1>5. QED BY <1>2, <1>3, <1>4 DEF Withdrawal

LEMMA BatchStep ==
  ASSUME QueueInv, AcceptedAreRequests, BatchInv, [CallsNext]_callsVars
  PROVE  BatchInv' /\ ResultsKept
<1>1. CASE UserCall
  BY <1>1, UserResults
<1>2. CASE ClearReapBlock
  BY <1>2, ClearReapBlockResults
<1>3. ASSUME NEW r \in accepted, WorkerStep(r) PROVE BatchInv' /\ ResultsKept
  <2>1. r \in Request BY DEF AcceptedAreRequests
  <2>2. ASSUME NEW outcome \in Outcomes, Finish(r, outcome) PROVE BatchInv' /\ ResultsKept
    BY <2>1, <2>2, FinishResults
  <2>3. CASE FinishBlockedReapFailure(r)
    BY <2>1, <2>3, FinishBlockedResults
  <2>4. CASE \/ AttachController(r) \/ UpdateProgress(r)
             \/ \E outcome \in Outcomes : ObserveTerminal(r, outcome)
    <3>1. UNCHANGED <<activeBatch, entries, active, pending, cancelling, shutdown>>
      BY <2>4 DEF AttachController, UpdateProgress, ObserveTerminal, batchVars, modeVars
    <3>2. QED BY <3>1 DEF BatchInv, ResultsKept
  <2>5. QED BY <1>3, <2>2, <2>3, <2>4 DEF WorkerStep
<1>4. CASE Withdrawal
  BY <1>4, WithdrawalResults
<1>5. CASE UNCHANGED callsVars
  BY <1>5 DEF callsVars, queueVars, batchVars, workVars, modeVars, BatchInv, ResultsKept
<1>6. QED BY <1>1, <1>2, <1>3, <1>4, <1>5 DEF CallsNext

LEMMA FinalInit == ASSUME CallsInit PROVE RowInv /\ BatchInv
BY NobodyOutstanding DEF CallsInit, QueueInit, RowInv, RowsAreOpen, RowsAreNumbered, BatchInv,
   Outstanding, Waiting

(* The rows and the results: rows with outstanding requests are open and no
   older than these, and nothing is left in a batch that is not open.     *)
THEOREM FinalInvariant == CallsSpec => [](RowInv /\ BatchInv)
<1>1. /\ QueueInv /\ AcceptedAreRequests /\ RowInv /\ BatchInv /\ [CallsNext]_callsVars
      => RowInv' /\ BatchInv'
  BY RowStep, BatchStep
<1>2. QED BY <1>1, FinalInit, QueueInvariant, PTL DEF CallsSpec

(* Whatever calls come late, of requests cancelled, replaced or long done: a
   finished row changes only by its removal or for a newer request, and a
   result stays in its batch until the batch is reported with it.         *)
THEOREM FinishedIsFinal == CallsSpec => FinishedStaysFinished
<1>1. /\ QueueInv /\ AcceptedAreRequests /\ RowInv /\ BatchInv /\ [CallsNext]_callsVars
      => RowsRespected /\ ResultsKept
  BY RowStep, BatchStep
<1>2. RowsRespected /\ ResultsKept =>
        /\ \A s \in Servers :
             StateOf(s) \in TerminalStates /\ records'[s] # records[s]
               => records'[s] = None \/ records'[s].number > records[s].number
        /\ ~shutdown' => \A e \in entries :
             e \in entries' \/ (completed' # None /\ e \in completed'.entries)
  <2>1. "idle" \notin TerminalStates BY DEF TerminalStates
  <2>2. QED BY <2>1 DEF RowsRespected, Respects, ResultsKept, StateOf
<1>3. QED BY <1>1, <1>2, QueueInvariant, FinalInvariant, PTL DEF CallsSpec, FinishedStaysFinished

-----------------------------------------------------------------------------
(* The system: the queue, the gate, the workers and the GTK thread.        *)

(* What every call makes of what waits and what is active: only a request
   that waited or is new comes forward, and one that becomes active has no
   controller yet.                                                        *)
ComesForward(r) == r \in Waiting \/ r.number > nextRequest

Moves ==
  /\ nextRequest <= nextRequest'
  /\ \A r \in Waiting' : ComesForward(r)
  /\ active' # active /\ active' # None => ComesForward(active') /\ ~attached'
  /\ active' = active => attached' = attached

LEMMA WaitingIs == Waiting = Elements(pending) /\ Waiting' = Elements(pending')
BY DEF Waiting, Elements

LEMMA PromotionMoves ==
  ASSUME NEW act, NEW att, NEW queue \in Seq(Request), NEW recs, NEW cancels,
         NEW work, work = Promotion(act, att, queue, recs, cancels)
  PROVE  /\ Elements(work.pending) \subseteq Elements(queue)
         /\ \/ work.active = act /\ work.attached = att
            \/ act = None /\ work.active \in Elements(queue) /\ ~work.attached
<1>1. CASE act # None \/ cancels \/ shutdown \/ queue = <<>>
  <2>1. work = [active |-> act, attached |-> att, pending |-> queue, records |-> recs]
    BY <1>1 DEF Promotion
  <2>2. QED BY <2>1
<1>2. CASE ~(act # None \/ cancels \/ shutdown \/ queue = <<>>)
  <2> DEFINE head == Head(queue)
             rows == [recs EXCEPT ![head.id] = Row(recs[head.id], "preparing", FALSE, None)]
  <2>1. work = [active |-> head, attached |-> FALSE, pending |-> Tail(queue), records |-> rows]
    BY <1>2 DEF Promotion
  <2> HIDE DEF rows
  <2>2. queue # <<>> /\ Len(queue) \in Nat \ {0} /\ DOMAIN queue = 1..Len(queue)
    BY <1>2, EmptySeq, LenProperties
  <2>3. /\ head = queue[1] /\ 1 \in 1..Len(queue)
        /\ Tail(queue) \in Seq(Request) /\ Len(Tail(queue)) = Len(queue) - 1
        /\ \A i \in 1..Len(Tail(queue)) : Tail(queue)[i] = queue[i+1] /\ i+1 \in 1..Len(queue)
    BY <2>2, HeadTailProperties
  <2>4. DOMAIN Tail(queue) = 1..Len(Tail(queue))
    BY <2>3, LenProperties
  <2>5. head \in Elements(queue)
    BY <2>2, <2>3 DEF Elements
  <2>6. Elements(Tail(queue)) \subseteq Elements(queue)
    BY <2>2, <2>3, <2>4 DEF Elements
  <2> HIDE DEF head
  <2>7. work.pending = Tail(queue) /\ work.active = head /\ ~work.attached
    BY <2>1
  <2>8. QED BY <1>2, <2>5, <2>6, <2>7
<1>3. QED BY <1>1, <1>2

LEMMA ActiveIsNone ==
  ASSUME QueueInv
  PROVE  /\ pending \in Seq(Request) /\ active \in Request \cup {None}
         /\ nextRequest \in Nat /\ attached \in BOOLEAN
         /\ \A r \in Waiting : r \in Request /\ r # None
<1>1. \A r \in Waiting : r \in Request
  BY OutstandingDiffer DEF Outstanding
<1>2. QED BY <1>1, NoneIsNothing DEF QueueInv, TypeOK

LEMMA EnqueueMoves ==
  ASSUME QueueInv, NEW s \in Servers, Enqueue(s)
  PROVE  Moves /\ (active # None => active' = active)
<1> DEFINE first == activeBatch = 0
           request == [number |-> nextRequest + 1, id |-> s,
                       batch |-> IF first THEN nextBatch + 1 ELSE activeBatch,
                       epoch |-> IF first THEN epoch + 1 ELSE epoch,
                       order |-> IF first THEN 0 ELSE nextOrder]
           kept == IF first THEN ClearedRecords ELSE records
           rows == [kept EXCEPT ![s] = QueuedRecord(request)]
           queue == Append(pending, request)
           work == Promotion(active, attached, queue, rows, cancelling)
<1>1. /\ active' = work.active /\ pending' = work.pending /\ attached' = work.attached
      /\ nextRequest' = nextRequest + 1
  BY DEF Enqueue, Install
<1>2. /\ nextRequest \in Nat /\ nextBatch \in Nat /\ activeBatch \in Nat
      /\ epoch \in Nat /\ nextOrder \in Nat
  BY DEF QueueInv, TypeOK
<1>3. request \in Request /\ request.number = nextRequest + 1
  BY <1>2 DEF Request
<1> HIDE DEF request, rows
<1>4. /\ queue \in Seq(Request) /\ Len(queue) = Len(pending) + 1 /\ Len(pending) \in Nat
      /\ \A i \in 1..Len(pending) : queue[i] = pending[i]
      /\ queue[Len(pending) + 1] = request
  BY <1>3, ActiveIsNone, AppendProperties, LenProperties
<1> HIDE DEF queue
<1>5. \A r \in Elements(queue) : ComesForward(r) /\ r # None
  <2>1. DOMAIN queue = 1..Len(queue) /\ DOMAIN pending = 1..Len(pending)
    BY <1>4, ActiveIsNone, LenProperties
  <2>2. Elements(queue) \subseteq Elements(pending) \cup {request}
    BY <1>4, <2>1 DEF Elements
  <2>3. request.number > nextRequest /\ request # None
    BY <1>2, <1>3, NoneIsNothing
  <2>4. QED BY <2>2, <2>3, WaitingIs, ActiveIsNone DEF ComesForward
<1>6. /\ Elements(work.pending) \subseteq Elements(queue)
      /\ \/ work.active = active /\ work.attached = attached
         \/ active = None /\ work.active \in Elements(queue) /\ ~work.attached
  BY <1>4, PromotionMoves
<1> HIDE DEF work
<1>7. nextRequest <= nextRequest'
  BY <1>1, <1>2
<1>8. QED BY <1>1, <1>5, <1>6, <1>7, WaitingIs DEF Moves

LEMMA RetryMoves ==
  ASSUME QueueInv, NEW resolvable, Retry(resolvable)
  PROVE  Moves /\ active = None
<1> DEFINE saved == {e \in FailedEntries : e.id \in resolvable}
           lost == {e \in FailedEntries : e.id \notin resolvable}
<1>1. PICK items \in Orderings(saved), failures \in Orderings(lost) :
        EnqueueRetryBatch(items, failures)
  BY DEF Retry
<1>2. saved \in SUBSET FailedEntries /\ lost \in SUBSET FailedEntries
  OBVIOUS
<1> HIDE DEF saved, lost
<1>3. /\ saved \in SUBSET Entry /\ IsFiniteSet(saved)
      /\ lost \in SUBSET Entry /\ IsFiniteSet(lost)
  BY <1>2, FailedEntriesAreFinite
<1> DEFINE n == Len(items)
           m == Len(failures)
<1>4. /\ n \in Nat /\ DOMAIN items = 1..n
      /\ \A i \in 1..n : items[i] \in Entry
      /\ \A i, j \in 1..n : i < j => items[i].order <= items[j].order
  BY <1>3, OrderingsAreLists
<1>5. m \in Nat /\ DOMAIN failures = 1..m /\ \A k \in 1..m : failures[k] \in Entry
  BY <1>3, OrderingsAreLists
<1> DEFINE request(i) == [number |-> ItemNumber(items, failures, i), batch |-> nextBatch + 1,
                          epoch |-> epoch + 1, id |-> items[i].id, order |-> items[i].order]
           rejected == [k \in DOMAIN failures |->
                          [number |-> FailureNumber(items, failures, k), batch |-> nextBatch + 1,
                           order |-> failures[k].order, state |-> "failed",
                           progress |-> FALSE, outcome |-> "failed"]]
           requests == [i \in DOMAIN items |-> request(i)]
           rows == [s \in Servers |->
                      IF \E i \in DOMAIN items : items[i].id = s
                      THEN QueuedRecord(requests[LastOf(items, s)])
                      ELSE IF \E k \in DOMAIN failures : failures[k].id = s
                      THEN rejected[LastOf(failures, s)]
                      ELSE ClearedRecords[s]]
           work == Promotion(None, attached, requests, rows, cancelling)
<1>6. /\ active = None
      /\ active' = work.active /\ pending' = work.pending /\ attached' = work.attached
      /\ nextRequest' = nextRequest + n + m
  BY <1>1 DEF EnqueueRetryBatch, Install
<1> HIDE DEF rows
<1>7. nextRequest \in Nat /\ nextBatch + 1 \in Nat /\ epoch + 1 \in Nat
  BY DEF QueueInv, TypeOK
<1> HIDE DEF n, m
<1>8. /\ \A i \in 1..n : items[i].order \in Nat /\ items[i].id \in Servers
      /\ \A k \in 1..m : failures[k].order \in Nat
  BY <1>4, <1>5 DEF Entry
<1>9. \A i \in 1..n : ItemNumber(items, failures, i) \in Nat
  BY <1>4, <1>5, <1>7, <1>8, RetryNumbers
<1>10. \A i \in 1..n : ItemNumber(items, failures, i) > nextRequest
  BY <1>4, <1>5, <1>7, RetryNumbersAreNew
<1>11. \A i \in 1..n : request(i) \in Request /\ request(i).number > nextRequest
  BY <1>7, <1>8, <1>9, <1>10 DEF Request
<1> HIDE DEF request
<1>12. requests \in [1..n -> Request] /\ DOMAIN requests = 1..n
       /\ \A i \in 1..n : requests[i] = request(i)
  BY <1>4, <1>11
<1> HIDE DEF requests
<1>13. requests \in Seq(Request)
  BY <1>4, <1>12, FunctionIsSeq
<1>14. \A r \in Elements(requests) : ComesForward(r) /\ r # None
  BY <1>11, <1>12, NoneIsNothing DEF Elements, ComesForward
<1>15. /\ Elements(work.pending) \subseteq Elements(requests)
       /\ \/ work.active = None /\ work.attached = attached
          \/ work.active \in Elements(requests) /\ ~work.attached
  BY <1>13, PromotionMoves
<1> HIDE DEF work
<1>16. nextRequest <= nextRequest'
  BY <1>4, <1>5, <1>6, <1>7
<1>17. QED BY <1>6, <1>14, <1>15, <1>16, WaitingIs DEF Moves

(* The return of the active request is its end. *)
LEMMA FinishMoves ==
  ASSUME QueueInv, NEW r \in Request, NEW outcome, Finish(r, outcome)
  PROVE  Moves /\ active = r /\ active' # r /\ blocked' = blocked /\ shutdown' = shutdown
<1> DEFINE final == IF cancelling \/ shutdown THEN "cancelled" ELSE outcome
           rows == [records EXCEPT ![r.id] = FinishedRecord(records[r.id], final)]
           work == Promotion(None, FALSE, pending, rows, cancelling)
<1>1. /\ active = r /\ r # None
      /\ UNCHANGED <<nextRequest, shutdown, blocked>>
      /\ \/ active' = None /\ pending' = pending
         \/ active' = work.active /\ pending' = work.pending /\ attached' = work.attached
  <2>1. active = r /\ UNCHANGED <<nextRequest, shutdown, blocked>>
    BY DEF Finish, FinishAccepted
  <2>2. \/ active' = None /\ pending' = pending
        \/ active' = work.active /\ pending' = work.pending /\ attached' = work.attached
    BY DEF Finish, Install
  <2>3. r # None
    BY NoneIsNothing
  <2>4. QED BY <2>1, <2>2, <2>3
<1> HIDE DEF rows
<1>2. /\ Elements(work.pending) \subseteq Elements(pending)
      /\ \/ work.active = None
         \/ work.active \in Elements(pending) /\ ~work.attached
  <2> DEFINE no == FALSE
             promoted == Promotion(None, no, pending, rows, cancelling)
  <2> HIDE DEF no
  <2>1. /\ Elements(promoted.pending) \subseteq Elements(pending)
        /\ \/ promoted.active = None
           \/ promoted.active \in Elements(pending) /\ ~promoted.attached
    BY ActiveIsNone, PromotionMoves
  <2>2. QED BY <2>1 DEF no
<1> HIDE DEF work
<1>3. \A q \in Waiting : q # active
  BY <1>1, OutstandingDiffer DEF Outstanding
<1>4. nextRequest <= nextRequest'
  BY <1>1, ActiveIsNone
<1>5. QED BY <1>1, <1>2, <1>3, <1>4, WaitingIs DEF Moves, ComesForward

LEMMA FinishBlockedMoves ==
  ASSUME QueueInv, NEW r \in Request, FinishBlockedReapFailure(r)
  PROVE  Moves /\ active = r /\ active' = None /\ blocked' /\ shutdown' = shutdown
<1>1. /\ active = r /\ r # None /\ active' = None /\ pending' = pending /\ blocked'
      /\ UNCHANGED <<nextRequest, shutdown>>
  BY NoneIsNothing DEF FinishBlockedReapFailure, BlockAccepted, Install, EnterBlock
<1>2. nextRequest <= nextRequest'
  BY <1>1, ActiveIsNone
<1>3. QED BY <1>1, <1>2, WaitingIs DEF Moves, ComesForward

LEMMA ClearReapBlockMoves ==
  ASSUME QueueInv, ClearReapBlock
  PROVE  Moves /\ active = None
<1> DEFINE work == Promotion(active, attached, pending, records, cancelling)
<1>1. /\ blocked
      /\ active' = work.active /\ pending' = work.pending /\ attached' = work.attached
      /\ nextRequest' = nextRequest
  BY DEF ClearReapBlock, Install
<1>2. active = None
  BY <1>1 DEF QueueInv, BlockedIsQuiet
<1>3. /\ Elements(work.pending) \subseteq Elements(pending)
      /\ \/ work.active = active /\ work.attached = attached
         \/ work.active \in Elements(pending) /\ ~work.attached
  BY ActiveIsNone, PromotionMoves
<1> HIDE DEF work
<1>4. \A q \in Waiting : q # active
  BY <1>2, ActiveIsNone
<1>5. nextRequest <= nextRequest'
  BY <1>1, ActiveIsNone
<1>6. QED BY <1>1, <1>2, <1>3, <1>4, <1>5, WaitingIs DEF Moves, ComesForward

(* A withdrawal makes nothing active; what it ends had no controller. *)
LEMMA WithdrawalMoves ==
  ASSUME QueueInv, CancelBlockedPending \/ CancelAll \/ Shutdown \/ ClearCompletedBatch
  PROVE  /\ Moves /\ blocked' = blocked
         /\ active' # active => active' = None /\ ~attached
<1>1. nextRequest' = nextRequest /\ attached' = attached /\ blocked' = blocked
  <2>1. CASE CancelBlockedPending BY <2>1 DEF CancelBlockedPending, modeVars
  <2>2. CASE CancelAll BY <2>2 DEF CancelAll
  <2>3. CASE Shutdown BY <2>3 DEF Shutdown
  <2>4. CASE ClearCompletedBatch BY <2>4 DEF ClearCompletedBatch, modeVars
  <2>5. QED BY <2>1, <2>2, <2>3, <2>4
<1>2. pending' = <<>> \/ pending' = pending
  BY DEF CancelBlockedPending, CancelAll, Shutdown, ClearCompletedBatch
<1>3. active' # active => active' = None /\ ~attached
  <2>1. CASE CancelBlockedPending BY <2>1 DEF CancelBlockedPending
  <2>2. CASE CancelAll BY <2>2 DEF CancelAll, Reserved
  <2>3. CASE Shutdown BY <2>3 DEF Shutdown, Reserved
  <2>4. CASE ClearCompletedBatch BY <2>4 DEF ClearCompletedBatch
  <2>5. QED BY <2>1, <2>2, <2>3, <2>4
<1>4. Waiting' \subseteq Waiting
  BY <1>2 DEF Waiting
<1>5. nextRequest <= nextRequest'
  BY <1>1, ActiveIsNone
<1>6. QED BY <1>1, <1>3, <1>4, <1>5 DEF Moves, ComesForward

LEMMA StandingStillMoves ==
  ASSUME QueueInv, UNCHANGED queueVars
  PROVE  Moves /\ active' = active /\ attached' = attached /\ QueueInv'
<1>1. /\ nextRequest' = nextRequest /\ active' = active /\ attached' = attached
      /\ pending' = pending
  BY DEF queueVars, workVars
<1>2. Waiting' = Waiting
  BY <1>1 DEF Waiting
<1>3. QueueInv'
  BY DEF queueVars, batchVars, workVars, modeVars, QueueInv, TypeOK, SerialReservation,
     OutstandingIsCurrent, BlockedIsQuiet, ClosedQueueIsEmpty, WaitingHaveRows,
     ReportsAreFinite, Outstanding, Waiting
<1>4. nextRequest <= nextRequest'
  BY <1>1, ActiveIsNone
<1>5. QED BY <1>1, <1>2, <1>3, <1>4 DEF Moves, ComesForward

(* A ticket that was spent stays so. *)
Spent(r) ==
  /\ r.number <= nextRequest
  /\ \A i \in DOMAIN pending : pending[i] # r
  /\ r = active => ~attached

LEMMA TicketsSurvive ==
  ASSUME QueueInv, QueueInv', TicketsAreSpent, Moves, NEW r \in Request, r \in Tickets
  PROVE  Spent(r)'
<1>1. Spent(r) /\ r # None
  BY NoneIsNothing DEF TicketsAreSpent, Spent
<1>2. r \notin Waiting /\ r.number \in Nat
  BY <1>1 DEF Spent, Waiting, Request
<1>3. nextRequest \in Nat /\ nextRequest' \in Nat
  BY DEF QueueInv, TypeOK
<1>4. r.number <= nextRequest'
  BY <1>1, <1>2, <1>3 DEF Spent, Moves
<1>5. r \notin Waiting'
  BY <1>1, <1>2, <1>3 DEF Spent, Moves, ComesForward
<1>6. r = active' => ~attached'
  BY <1>1 DEF Spent, Moves
<1>7. QED BY <1>4, <1>5, <1>6 DEF Spent, Waiting

LEMMA DispatchIsNew ==
  ASSUME QueueInv, QueueInv', TicketsAreSpent, Moves,
         NEW d, d = Dispatched, d # None
  PROVE  d \in Request /\ d \notin Tickets /\ Spent(d)'
<1>1. d = active' /\ d # active
  BY DEF Dispatched
<1>2. d \in Request /\ d.number \in Nat /\ nextRequest \in Nat
  BY <1>1 DEF QueueInv, TypeOK, Request
<1>3. ComesForward(d) /\ ~attached'
  BY <1>1 DEF Moves
<1>4. d \notin Tickets
  <2>1. ASSUME d \in Tickets PROVE FALSE
    <3>1. d.number <= nextRequest /\ d \notin Waiting
      BY <2>1 DEF TicketsAreSpent, Waiting
    <3>2. QED BY <1>2, <1>3, <3>1 DEF ComesForward
  <2>2. QED BY <2>1
<1>5. d.number <= nextRequest' /\ \A i \in DOMAIN pending' : pending'[i] # d
  <2>1. d \in Outstanding'
    BY <1>1 DEF Outstanding
  <2>2. d.number <= nextRequest'
    BY <2>1 DEF QueueInv, SerialReservation
  <2>3. \A i \in DOMAIN pending' : d.number < pending'[i].number
    BY <1>1 DEF QueueInv, SerialReservation
  <2>4. QED BY <1>2, <2>2, <2>3
<1>6. Spent(d)'
  BY <1>3, <1>5 DEF Spent
<1>7. QED BY <1>2, <1>4, <1>6

LEMMA TicketsAreRequests ==
  ASSUME WorkersTypeOK
  PROVE  /\ Tickets \subseteq Request
         /\ \A i \in DOMAIN returns : returns[i].dispatch # None => returns[i].dispatch \in Tickets
         /\ main.at = "start" /\ main.request # None => main.request \in Tickets
         /\ DOMAIN returns = 1..Len(returns) /\ Len(returns) \in Nat
<1> DEFINE Post1 == [dispatch: Request \cup {None}, blocked: BOOLEAN]
<1>1. returns \in Seq(Post1) /\ main.request \in Request \cup {None}
  BY DEF WorkersTypeOK
<1> HIDE DEF Post1
<1>2. DOMAIN returns = 1..Len(returns) /\ Len(returns) \in Nat
      /\ \A i \in 1..Len(returns) : returns[i] \in Post1
  BY <1>1, LenProperties, ElementOfSeq
<1>3. \A i \in DOMAIN returns : returns[i].dispatch \in Request \cup {None}
  BY <1>2 DEF Post1
<1>4. Tickets \subseteq Request
  BY <1>1, <1>3 DEF Tickets
<1>5. /\ \A i \in DOMAIN returns : returns[i].dispatch # None => returns[i].dispatch \in Tickets
      /\ main.at = "start" /\ main.request # None => main.request \in Tickets
  BY DEF Tickets
<1>6. QED BY <1>2, <1>4, <1>5

(* The returns keep their tickets, or lose them all. *)
LEMMA TicketsKept ==
  ASSUME QueueInv, QueueInv', WorkersTypeOK, TicketsAreSpent, Moves,
         returns' = returns \/ returns' = <<>>,
         main' = main \/ main'.at # "start"
  PROVE  TicketsAreSpent'
<1>1. Tickets' \subseteq Tickets
  BY DEF Tickets
<1>2. \A r \in Tickets' : Spent(r)'
  BY <1>1, TicketsAreRequests, TicketsSurvive
<1>3. QED BY <1>2 DEF TicketsAreSpent, Spent

(* A handler starts what its call dispatched. *)
LEMMA HandlerTickets ==
  ASSUME QueueInv, QueueInv', WorkersTypeOK, TicketsAreSpent, Moves,
         returns' = returns, ThenStart(Dispatched)
  PROVE  TicketsAreSpent'
<1>d. PICK d : d = Dispatched
  OBVIOUS
<1>1. CASE d = None
  <2>1. main'.at # "start"
    BY <1>d, <1>1 DEF ThenStart, Free
  <2>2. QED BY <2>1, TicketsKept
<1>2. CASE d # None
  <2>1. main'.at = "start" /\ main'.request = d
    BY <1>d, <1>2 DEF ThenStart, Handling
  <2>2. d \in Request /\ d \notin Tickets /\ Spent(d)'
    BY <1>d, <1>2, DispatchIsNew
  <2>3. Tickets' \subseteq Tickets \cup {d}
    BY <2>1 DEF Tickets
  <2>4. \A r \in Tickets' : Spent(r)'
    BY <2>2, <2>3, TicketsAreRequests, TicketsSurvive
  <2>5. \A i \in DOMAIN returns' : returns'[i].dispatch # None => returns'[i].dispatch # d
    BY <2>2, TicketsAreRequests
  <2>6. QED BY <1>2, <2>1, <2>4, <2>5 DEF TicketsAreSpent, Spent
<1>3. QED BY <1>1, <1>2

LEMMA AppendedReturn ==
  ASSUME WorkersTypeOK, NEW d, NEW post, post.dispatch = d, returns' = Append(returns, post)
  PROVE  /\ DOMAIN returns' = 1..Len(returns) + 1
         /\ \A i \in 1..Len(returns) : returns'[i] = returns[i]
         /\ returns'[Len(returns) + 1] = post
<1> DEFINE old == returns
<1>1. old \in Seq([dispatch: Request \cup {None}, blocked: BOOLEAN])
  BY DEF WorkersTypeOK
<1>2. Len(old) \in Nat /\ DOMAIN old = 1..Len(old)
  BY <1>1, LenProperties
<1>3. QED BY <1>2

(* A return takes its dispatch along. *)
LEMMA ReturnTickets ==
  ASSUME QueueInv, QueueInv', WorkersTypeOK, TicketsAreSpent, Moves,
         NEW post, returns' = Append(returns, post), post.dispatch = Dispatched,
         main' = main
  PROVE  TicketsAreSpent'
<1>d. PICK d : d = Dispatched
  OBVIOUS
<1> DEFINE len == Len(returns)
<1>1. /\ DOMAIN returns' = 1..(len + 1)
      /\ \A i \in 1..len : returns'[i] = returns[i]
      /\ returns'[len + 1].dispatch = d
  BY <1>d, AppendedReturn
<1>2. len \in Nat /\ DOMAIN returns = 1..len
  BY TicketsAreRequests
<1> HIDE DEF len
<1>3. d # None => d \in Request /\ d \notin Tickets /\ Spent(d)'
  BY <1>d, DispatchIsNew
<1>4. Tickets' \subseteq Tickets \cup ({d} \ {None})
  BY <1>1, <1>2 DEF Tickets
<1>5. \A r \in Tickets' : Spent(r)'
  BY <1>3, <1>4, TicketsAreRequests, TicketsSurvive
<1>6. \A i \in 1..len : returns[i].dispatch # None => returns[i].dispatch # d
  BY <1>2, <1>3, TicketsAreRequests
<1>7. \A i, j \in 1..(len + 1) : i # j /\ returns'[i].dispatch # None
        => returns'[i].dispatch # returns'[j].dispatch
  <2> TAKE i, j \in 1..(len + 1)
  <2>1. CASE i \in 1..len /\ j \in 1..len
    BY <1>1, <1>2, <2>1 DEF TicketsAreSpent
  <2>2. CASE i = len + 1 /\ j \in 1..len
    BY <1>1, <1>6, <2>2
  <2>3. CASE j = len + 1 /\ i \in 1..len
    BY <1>1, <1>6, <2>3
  <2>4. QED BY <1>2, <2>1, <2>2, <2>3
<1>8. main.at = "start" => main.request # None /\ (d # None => main.request # d)
  BY <1>3, TicketsAreRequests DEF TicketsAreSpent
<1>9. \A i \in 1..(len + 1) : returns'[i].dispatch # None /\ main.at = "start"
        => main.request # returns'[i].dispatch
  <2> TAKE i \in 1..(len + 1)
  <2>1. CASE i \in 1..len
    BY <1>1, <1>2, <2>1 DEF TicketsAreSpent
  <2>2. CASE i = len + 1
    BY <1>1, <1>8, <2>2
  <2>3. QED BY <1>2, <2>1, <2>2
<1>10. \A i, j \in DOMAIN returns' : returns'[i].dispatch # None /\ i # j
        => returns'[i].dispatch # returns'[j].dispatch
  BY <1>1, <1>7
<1>11. \A i \in DOMAIN returns' : returns'[i].dispatch # None /\ main'.at = "start"
        => main'.request # returns'[i].dispatch
  BY <1>1, <1>9
<1>12. main'.at = "start" => main'.request # None
  BY <1>8
<1>13. QED BY <1>5, <1>10, <1>11, <1>12 DEF TicketsAreSpent, Spent

LEMMA TailOfReturns ==
  ASSUME WorkersTypeOK, returns # <<>>, returns' = Tail(returns)
  PROVE  /\ Len(returns) \in Nat \ {0} /\ DOMAIN returns = 1..Len(returns)
         /\ Head(returns) = returns[1]
         /\ DOMAIN returns' = 1..(Len(returns) - 1)
         /\ \A i \in 1..(Len(returns) - 1) : returns'[i] = returns[i + 1]
<1> DEFINE Item == [dispatch: Request \cup {None}, blocked: BOOLEAN]
           old == returns
<1>1. old \in Seq(Item)
  BY DEF WorkersTypeOK
<1> HIDE DEF Item
<1>2. /\ Len(old) \in Nat \ {0} /\ DOMAIN old = 1..Len(old)
      /\ Tail(old) \in Seq(Item) /\ Len(Tail(old)) = Len(old) - 1 /\ Head(old) = old[1]
      /\ \A i \in 1..Len(Tail(old)) : Tail(old)[i] = old[i + 1]
  BY <1>1, EmptySeq, LenProperties, HeadTailProperties
<1>3. DOMAIN Tail(old) = 1..Len(Tail(old))
  BY <1>2, LenProperties
<1>4. QED BY <1>2, <1>3

(* The GTK thread takes a ticket from a return. *)
LEMMA HandedTicket ==
  ASSUME QueueInv, QueueInv', WorkersTypeOK, TicketsAreSpent, Moves,
         returns # <<>>, returns' = Tail(returns), ThenStart(Head(returns).dispatch)
  PROVE  TicketsAreSpent'
<1>d. PICK d : d = Head(returns).dispatch
  OBVIOUS
<1> DEFINE len == Len(returns)
<1>1. /\ len \in Nat \ {0} /\ DOMAIN returns = 1..len /\ d = returns[1].dispatch
      /\ DOMAIN returns' = 1..(len - 1)
      /\ \A i \in 1..(len - 1) : returns'[i] = returns[i + 1]
  BY <1>d, TailOfReturns
<1> HIDE DEF len
<1>2. IF d = None THEN main'.at # "start" ELSE main'.at = "start" /\ main'.request = d
  BY <1>d DEF ThenStart, Free, Handling
<1>3. Tickets' \subseteq Tickets
  <2>1. \A i \in DOMAIN returns' : \E j \in DOMAIN returns : returns'[i] = returns[j]
    BY <1>1
  <2>2. d # None => d \in Tickets
    BY <1>1, TicketsAreRequests
  <2>3. QED BY <1>2, <2>1, <2>2 DEF Tickets
<1>4. \A r \in Tickets' : Spent(r)'
  BY <1>3, TicketsAreRequests, TicketsSurvive
<1>5. \A i, j \in DOMAIN returns' : i # j /\ returns'[i].dispatch # None
        => returns'[i].dispatch # returns'[j].dispatch
  BY <1>1 DEF TicketsAreSpent
<1>6. \A i \in DOMAIN returns' : returns'[i].dispatch # None => returns'[i].dispatch # d
  BY <1>1 DEF TicketsAreSpent
<1>7. QED BY <1>2, <1>4, <1>5, <1>6 DEF TicketsAreSpent, Spent

-----------------------------------------------------------------------------
JobRecord == [step: JobSteps, request: Request \cup {None}, lease: Gate!Lease \cup {None},
              outcome: Outcomes, cancelRead: BOOLEAN]
Signals == [requested: BOOLEAN, event: BOOLEAN]

LEMMA WorkersTyped ==
  WorkersTypeOK <=>
    /\ job \in [Jobs -> JobRecord] /\ controller \in [Jobs -> Signals]
    /\ main \in [at: MainSteps, request: Request \cup {None}]
    /\ returns \in Seq([dispatch: Request \cup {None}, blocked: BOOLEAN])
    /\ source \in 0..MaxGeneration /\ startPoll \in BOOLEAN /\ joinActive \in BOOLEAN
BY DEF WorkersTypeOK, JobRecord, Signals

LEMMA EventIsSet ==
  ASSUME controller \in [Jobs -> Signals], NEW n, NEW b \in BOOLEAN
  PROVE  /\ [controller EXCEPT ![n].event = b] \in [Jobs -> Signals]
         /\ [controller EXCEPT ![n].requested = b] \in [Jobs -> Signals]
BY DEF Signals

(* The other workers and the request of this one are left alone. *)
JobAlone(n, jobs) ==
  /\ jobs \in [Jobs -> JobRecord]
  /\ \A m \in Jobs \ {n} : jobs[m] = job[m]
  /\ jobs[n].request = job[n].request

LEMMA JobGoesOn ==
  ASSUME job \in [Jobs -> JobRecord], NEW n \in Jobs, NEW step \in JobSteps, NEW jobs,
         jobs = [job EXCEPT ![n].step = step]
  PROVE  JobAlone(n, jobs) /\ jobs[n].step = step
BY DEF JobRecord, JobAlone

LEMMA JobHasOutcome ==
  ASSUME job \in [Jobs -> JobRecord], NEW n \in Jobs, NEW step \in JobSteps, NEW jobs,
         NEW outcome \in Outcomes,
         jobs = [job EXCEPT ![n].step = step, ![n].outcome = outcome]
  PROVE  JobAlone(n, jobs) /\ jobs[n].step = step
BY DEF JobRecord, JobAlone

LEMMA JobHasLease ==
  ASSUME job \in [Jobs -> JobRecord], NEW n \in Jobs, NEW step \in JobSteps, NEW jobs,
         NEW grant \in Gate!Lease \cup {None},
         jobs = [job EXCEPT ![n].step = step, ![n].lease = grant]
  PROVE  JobAlone(n, jobs) /\ jobs[n].step = step
BY DEF JobRecord, JobAlone

LEMMA JobHasRead ==
  ASSUME job \in [Jobs -> JobRecord], NEW n \in Jobs, NEW step \in JobSteps, NEW jobs,
         NEW read \in BOOLEAN,
         jobs = [job EXCEPT ![n].step = step, ![n].cancelRead = read]
  PROVE  JobAlone(n, jobs) /\ jobs[n].step = step
BY DEF JobRecord, JobAlone

(* A step of a worker changes its own state alone. *)
JobIsLocal(n) ==
  /\ JobAlone(n, job') /\ controller' \in [Jobs -> Signals]
  /\ job[n].step \notin {"none", "done"}

LEMMA JobStepIsLocal ==
  ASSUME WorkersTypeOK, Gate!TypeOK', NEW n \in Jobs, JobStep(n)
  PROVE  JobIsLocal(n)
<1>1. job \in [Jobs -> JobRecord] /\ controller \in [Jobs -> Signals]
  BY WorkersTyped
<1>2. /\ "leased" \in JobSteps /\ "published" \in JobSteps /\ "consent" \in JobSteps
      /\ "engine" \in JobSteps /\ "unreaped" \in JobSteps /\ "cleanup" \in JobSteps
      /\ "return" \in JobSteps /\ "return_blocked" \in JobSteps /\ "done" \in JobSteps
  BY DEF JobSteps
<1>3. /\ "failed" \in Outcomes /\ "cancelled" \in Outcomes /\ "no_required_mods" \in Outcomes
  BY DEF Outcomes
<1>4. controller[n].requested \in BOOLEAN /\ job[n].cancelRead \in BOOLEAN
  BY <1>1 DEF Signals, JobRecord
<1> DEFINE no == FALSE
           read == controller[n].requested
<1>5. no \in BOOLEAN
  OBVIOUS
<1>6. lease' \in Gate!Lease \cup {None}
  BY DEF Gate!TypeOK
<1>7. CASE Acquire(n)
  <2>1. job[n].step = "submitted"
    BY <1>7 DEF Acquire
  <2>2. controller' = controller
    BY <1>7 DEF Acquire
  <2>3. CASE GateBusy
    <3>1. job' = [job EXCEPT ![n].step = "return", ![n].outcome = "failed"]
      BY <1>7, <2>3 DEF Acquire
    <3>2. JobAlone(n, job')
      <4>1. "return" \in JobSteps /\ "failed" \in Outcomes
        BY <1>2, <1>3
      <4>2. QED BY <1>1, <3>1, <4>1, JobHasOutcome
    <3>3. QED BY <1>1, <2>1, <2>2, <3>2 DEF JobIsLocal
  <2>4. CASE ~GateBusy
    <3>1. PICK grant : grant = lease'
      OBVIOUS
    <3>2. job' = [job EXCEPT ![n].step = "leased", ![n].lease = grant]
      BY <1>7, <2>4, <3>1 DEF Acquire
    <3>3. JobAlone(n, job')
      BY <1>1, <1>2, <1>6, <3>1, <3>2, JobHasLease
    <3>4. QED BY <1>1, <2>1, <2>2, <3>3 DEF JobIsLocal
  <2>5. QED BY <2>3, <2>4
<1>8. CASE Publish(n)
  <2>1. /\ job[n].step = "leased" /\ controller' = controller
        /\ job' = [job EXCEPT ![n].step = "published", ![n].cancelRead = read]
    BY <1>8 DEF Publish
  <2>2. read \in BOOLEAN
    BY <1>4
  <2> HIDE DEF read
  <2>3. JobAlone(n, job')
    BY <1>1, <1>2, <2>2, <2>1, JobHasRead
  <2>4. QED BY <1>1, <2>1, <2>3 DEF JobIsLocal
<1>9. CASE ClearEvent(n)
  <2>1. /\ job[n].step = "published"
        /\ controller' = [controller EXCEPT ![n].event = job[n].cancelRead]
        /\ \/ job' = [job EXCEPT ![n].step = "cleanup", ![n].outcome = "cancelled"]
           \/ job' = [job EXCEPT ![n].step = "consent"]
    BY <1>9 DEF ClearEvent
  <2>2. controller' \in [Jobs -> Signals]
    BY <1>1, <1>4, <2>1, EventIsSet
  <2>3. JobAlone(n, job')
    BY <1>1, <1>2, <1>3, <2>1, JobGoesOn, JobHasOutcome
  <2>4. QED BY <1>1, <2>1, <2>2, <2>3 DEF JobIsLocal
<1>10. CASE Consent(n)
  <2>1. /\ job[n].step = "consent" /\ controller' = controller
        /\ \/ job' = [job EXCEPT ![n].step = "engine"]
           \/ \E outcome \in Outcomes :
                job' = [job EXCEPT ![n].step = "cleanup", ![n].outcome = outcome]
    BY <1>3, <1>10 DEF Consent
  <2>2. JobAlone(n, job')
    BY <1>1, <1>2, <2>1, JobGoesOn, JobHasOutcome
  <2>3. QED BY <1>1, <2>1, <2>2 DEF JobIsLocal
<1>11. CASE EngineStartsHelper(n)
  <2>1. job[n].step = "engine" /\ controller' = controller /\ job' = job
    BY <1>11 DEF EngineStartsHelper
  <2>2. QED BY <1>1, <2>1 DEF JobIsLocal, JobAlone
<1>12. CASE EngineEnds(n)
  <2>1. /\ job[n].step = "engine" /\ controller' = controller
        /\ \E outcome \in Outcomes :
             job' = [job EXCEPT ![n].step = "cleanup", ![n].outcome = outcome]
    BY <1>12 DEF EngineEnds
  <2>2. JobAlone(n, job')
    BY <1>1, <1>2, <2>1, JobHasOutcome
  <2>3. QED BY <1>1, <2>1, <2>2 DEF JobIsLocal
<1>13. CASE EngineLosesHelper(n)
  <2>1. /\ job[n].step = "engine" /\ controller' = controller
        /\ job' = [job EXCEPT ![n].step = "unreaped", ![n].outcome = "failed"]
    BY <1>13 DEF EngineLosesHelper
  <2>2. JobAlone(n, job')
    <3>1. "unreaped" \in JobSteps /\ "failed" \in Outcomes
      BY <1>2, <1>3
    <3>2. QED BY <1>1, <2>1, <3>1, JobHasOutcome
  <2>3. QED BY <1>1, <2>1, <2>2 DEF JobIsLocal
<1>14. CASE MarkUnreaped(n)
  <2>1. /\ job[n].step = "unreaped"
        /\ controller' = [controller EXCEPT ![n].event = no]
        /\ job' = [job EXCEPT ![n].step = "return_blocked"]
    BY <1>14 DEF MarkUnreaped
  <2> HIDE DEF no
  <2>2. controller' \in [Jobs -> Signals]
    BY <1>1, <1>5, <2>1, EventIsSet
  <2>3. JobAlone(n, job')
    BY <1>1, <1>2, <2>1, JobGoesOn
  <2>4. QED BY <1>1, <2>1, <2>2, <2>3 DEF JobIsLocal
<1>15. CASE Cleanup(n)
  <2>1. /\ job[n].step = "cleanup"
        /\ controller' = [controller EXCEPT ![n].event = no]
        /\ job' = [job EXCEPT ![n].step = "return", ![n].lease = None]
    BY <1>15 DEF Cleanup
  <2> HIDE DEF no
  <2>2. controller' \in [Jobs -> Signals]
    BY <1>1, <1>5, <2>1, EventIsSet
  <2>3. JobAlone(n, job')
    BY <1>1, <1>2, <2>1, JobHasLease
  <2>4. QED BY <1>1, <2>1, <2>2, <2>3 DEF JobIsLocal
<1>16. CASE Return(n) \/ ReturnBlocked(n)
  <2>1. /\ job[n].step \in {"return", "return_blocked"} /\ controller' = controller
        /\ job' = [job EXCEPT ![n].step = "done"]
    BY <1>16 DEF Return, ReturnBlocked
  <2>2. JobAlone(n, job')
    BY <1>1, <1>2, <2>1, JobGoesOn
  <2>3. QED BY <1>1, <2>1, <2>2 DEF JobIsLocal
<1>17. QED
  BY <1>7, <1>8, <1>9, <1>10, <1>11, <1>12, <1>13, <1>14, <1>15, <1>16 DEF JobStep

(* The gate's own invariant holds in the system: whatever happens here is a
   step of the gate, or none.                                             *)
GateProofs == INSTANCE PreparationGateProofs WITH active <- lease, Pollers <- {"main"}

LEMMA GateKeepsInv ==
  ASSUME Gate!GateInv, [Gate!Next]_(Gate!vars)
  PROVE  Gate!GateInv'
<1>1. Gate!GateInv = GateProofs!GateInv /\ (Gate!GateInv = GateProofs!GateInv)'
  BY DEF Gate!GateInv, Gate!TypeOK, Gate!PollSteps, Gate!Lease, Gate!PoisonHoldsTheGate,
     Gate!HeldLeaseOwns, Gate!HelpersAreLeased, Gate!OrphanIsTheFailure,
     Gate!GenerationsAreSpent, Gate!PollsAreOfPast,
     GateProofs!GateInv, GateProofs!TypeOK, GateProofs!PollSteps, GateProofs!Lease,
     GateProofs!PoisonHoldsTheGate, GateProofs!HeldLeaseOwns,
     GateProofs!HelpersAreLeased, GateProofs!OrphanIsTheFailure,
     GateProofs!GenerationsAreSpent, GateProofs!PollsAreOfPast
<1>2. [GateProofs!Next]_(GateProofs!vars)
  BY DEF Gate!Next, Gate!vars, Gate!TryAcquire, Gate!NewLease, Gate!StartHelper,
     Gate!ReapHelper, Gate!Release, Gate!ReleaseAccepted, Gate!MarkReapFailure,
     Gate!BlockReapFailure, Gate!OrphanExits, Gate!RecoverRead, Gate!RecoverConfirm,
     Gate!Idle, Gate!ConfirmedDead, Gate!RecoverClear, Gate!SameFailure,
     GateProofs!Next, GateProofs!vars, GateProofs!TryAcquire, GateProofs!NewLease,
     GateProofs!StartHelper, GateProofs!ReapHelper, GateProofs!Release,
     GateProofs!ReleaseAccepted, GateProofs!MarkReapFailure, GateProofs!BlockReapFailure,
     GateProofs!OrphanExits, GateProofs!RecoverRead, GateProofs!RecoverConfirm,
     GateProofs!Idle, GateProofs!ConfirmedDead, GateProofs!RecoverClear,
     GateProofs!SameFailure
<1>3. GateProofs!GateInv /\ [GateProofs!Next]_(GateProofs!vars) => GateProofs!GateInv'
  BY LeaseAssumption, GateProofs!GateInvStep
     DEF GateProofs!GateAssumption, GateProofs!Lease, Gate!Lease
<1>4. QED BY <1>1, <1>2, <1>3

LEMMA GateStarts ==
  ASSUME Gate!Init PROVE Gate!GateInv
BY LeaseAssumption DEF Gate!Init, Gate!GateInv, Gate!TypeOK, Gate!Idle, Gate!PollSteps,
   Gate!Lease, Gate!PoisonHoldsTheGate, Gate!HeldLeaseOwns, Gate!HelpersAreLeased,
   Gate!OrphanIsTheFailure, Gate!GenerationsAreSpent, Gate!PollsAreOfPast

LEMMA GateFollows ==
  ASSUME [Next]_vars PROVE [Gate!Next]_(Gate!vars)
<1>1. "background" \in Owners /\ Others \subseteq Owners
  BY DEF Owners
<1>2. UNCHANGED leaseVars => UNCHANGED Gate!vars
  BY DEF leaseVars, Gate!vars
<1>3. ASSUME NEW n \in Jobs, JobStep(n) PROVE [Gate!Next]_(Gate!vars)
  <2>1. CASE Acquire(n) BY <1>1, <1>2, <2>1 DEF Acquire, Gate!Next
  <2>2. CASE Publish(n) BY <1>2, <2>2 DEF Publish
  <2>3. CASE ClearEvent(n) BY <1>2, <2>3 DEF ClearEvent
  <2>4. CASE Consent(n) BY <1>2, <2>4 DEF Consent
  <2>5. CASE EngineStartsHelper(n) BY <1>1, <2>5 DEF EngineStartsHelper, Gate!Next
  <2>6. CASE EngineEnds(n) BY <1>1, <1>2, <2>6 DEF EngineEnds, Gate!Next
  <2>7. CASE EngineLosesHelper(n) BY <1>2, <2>7 DEF EngineLosesHelper
  <2>8. CASE MarkUnreaped(n) BY <1>1, <2>8 DEF MarkUnreaped, Gate!Next
  <2>9. CASE Cleanup(n) BY <1>1, <2>9 DEF Cleanup, Gate!Next
  <2>10. CASE Return(n) BY <1>2, <2>10 DEF Return
  <2>11. CASE ReturnBlocked(n) BY <1>2, <2>11 DEF ReturnBlocked
  <2>12. QED
    BY <1>3, <2>1, <2>2, <2>3, <2>4, <2>5, <2>6, <2>7, <2>8, <2>9, <2>10, <2>11 DEF JobStep
<1>4. ASSUME NEW o \in Others, OtherStep(o) PROVE [Gate!Next]_(Gate!vars)
  BY <1>1, <1>4 DEF OtherStep, OtherHelper, OtherReleases, OtherLosesHelper, Gate!Next
<1>5. CASE UserStep
  <2>1. CASE StartJoin BY <1>1, <2>1 DEF StartJoin, Gate!Next
  <2>2. CASE StartRepair BY <1>1, <2>2 DEF StartRepair, Gate!Next
  <2>3. CASE /\ UserStep /\ ~StartJoin /\ ~StartRepair
    <3>1. UNCHANGED leaseVars
      BY <2>3 DEF UserStep, Download, RetryFailed, ActionClicked, Quit, OnlyQueue
    <3>2. QED BY <1>2, <3>1
  <2>4. QED BY <1>5, <2>1, <2>2, <2>3
<1>6. CASE MainStep
  <2>1. CASE PollTick BY <1>2, <2>1 DEF PollTick, Gate!Next
  <2>2. CASE RecoverConfirm BY <2>2 DEF RecoverConfirm, Gate!Next
  <2>3. CASE RecoverClear BY <2>3 DEF RecoverClear, Gate!Next
  <2>4. CASE QuitRecover BY <1>2, <2>4 DEF QuitRecover, Gate!Next
  <2>5. CASE StartRequest \/ StartRequestFails \/ WorkerReturned \/ ActionCancels
    <3>1. UNCHANGED leaseVars
      BY <2>5 DEF StartRequest, StartRequestFails, WorkerReturned, ActionCancels, OnlyQueue
    <3>2. QED BY <1>2, <3>1
  <2>6. CASE ActionCancelsBlocked \/ ActionCloses \/ Signal \/ SetEvent
    <3>1. UNCHANGED leaseVars
      BY <2>6 DEF ActionCancelsBlocked, ActionCloses, Signal, SetEvent, OnlyQueue
    <3>2. QED BY <1>2, <3>1
  <2>7. CASE Resume \/ StartPoll \/ CleanupJoinAttempt
    <3>1. UNCHANGED leaseVars
      BY <2>7 DEF Resume, StartPoll, CleanupJoinAttempt, OnlyQueue
    <3>2. QED BY <1>2, <3>1
  <2>8. QED BY <1>6, <2>1, <2>2, <2>3, <2>4, <2>5, <2>6, <2>7 DEF MainStep
<1>7. CASE OrphanExits BY <1>7 DEF OrphanExits, Gate!Next
<1>8. CASE UNCHANGED vars BY <1>2, <1>8 DEF vars
<1>9. QED BY <1>3, <1>4, <1>5, <1>6, <1>7, <1>8 DEF Next

-----------------------------------------------------------------------------
(* The invariant of the workers and its preservation, by groups of steps. *)
WorkersInv == QueueInv /\ WorkersTypeOK /\ TicketsAreSpent /\ WorkerHasItsRequest

LEMMA MainTyped ==
  ASSUME NEW step \in MainSteps, NEW r \in Request \cup {None}
  PROVE  /\ Handling(step, r) \in [at: MainSteps, request: Request \cup {None}]
         /\ Handling(step, r).at = step /\ Handling(step, r).request = r
BY DEF Handling

LEMMA StartTyped ==
  ASSUME NEW r \in Request \cup {None}, ThenStart(r)
  PROVE  /\ main' \in [at: MainSteps, request: Request \cup {None}]
         /\ main'.at \in {"idle", "start"}
<1>1. "start" \in MainSteps /\ "idle" \in MainSteps
  BY DEF MainSteps
<1>2. QED BY <1>1, MainTyped DEF ThenStart, Free, Handling

LEMMA DispatchTyped ==
  ASSUME QueueInv' PROVE Dispatched \in Request \cup {None}
BY DEF Dispatched, QueueInv, TypeOK

(* A worker that runs keeps its request, and it stays the active one. *)
LEMMA WorkersKeep ==
  ASSUME WorkerHasItsRequest,
         \A n \in Jobs : job'[n].step \notin {"none", "done"} =>
           job[n].step \notin {"none", "done"} /\ job'[n].request = job[n].request,
         active = None \/ ~attached \/ (active' = active /\ attached' = attached)
  PROVE  WorkerHasItsRequest'
BY DEF WorkerHasItsRequest

(* The GTK handlers that start what their call dispatches. *)
LEMMA HandlersKeep ==
  ASSUME WorkersInv, QueueInv', Moves, OnlyQueue,
         ThenStart(Dispatched) \/ main' \in {Free, Handling("closed", None)},
         active' # active => active = None \/ ~attached
  PROVE  WorkersInv'
<1>1. returns' = returns /\ job' = job
  BY DEF OnlyQueue, workerVars
<1>2. TicketsAreSpent'
  <2>1. CASE ThenStart(Dispatched)
    BY <1>1, <2>1, HandlerTickets DEF WorkersInv
  <2>2. CASE main' \in {Free, Handling("closed", None)}
    <3>1. main'.at # "start"
      BY <2>2 DEF Free, Handling
    <3>2. QED BY <1>1, <3>1, TicketsKept DEF WorkersInv
  <2>3. QED BY <2>1, <2>2
<1>3. WorkerHasItsRequest'
  BY <1>1, WorkersKeep DEF WorkersInv, Moves
<1>4. main' \in [at: MainSteps, request: Request \cup {None}]
  <2>1. CASE ThenStart(Dispatched)
    BY <2>1, StartTyped, DispatchTyped
  <2>2. CASE main' \in {Free, Handling("closed", None)}
    <3>1. Free = Handling("idle", None) /\ "idle" \in MainSteps /\ "closed" \in MainSteps
      BY DEF Free, Handling, MainSteps
    <3>2. QED BY <2>2, <3>1, MainTyped
  <2>3. QED BY <2>1, <2>2
<1>5. WorkersTypeOK'
  BY <1>4 DEF WorkersInv, WorkersTypeOK, OnlyQueue, workerVars, timerVars
<1>6. QED BY <1>2, <1>3, <1>5 DEF WorkersInv

LEMMA DownloadStep ==
  ASSUME WorkersInv, NEW s \in Servers, Download(s) PROVE WorkersInv'
<1>1. Enqueue(s) /\ ThenStart(Dispatched) /\ OnlyQueue
  BY DEF Download
<1>2. QueueInv' /\ Moves /\ (active # None => active' = active)
  BY <1>1, EnqueueStep, EnqueueMoves DEF WorkersInv
<1>3. QED BY <1>1, <1>2, HandlersKeep

LEMMA RetryFailedStep ==
  ASSUME WorkersInv, NEW resolvable, RetryFailed(resolvable) PROVE WorkersInv'
<1>1. Retry(resolvable) /\ ThenStart(Dispatched) /\ OnlyQueue
  BY DEF RetryFailed
<1>2. QueueInv' /\ Moves /\ active = None
  BY <1>1, RetryStep, RetryMoves DEF WorkersInv
<1>3. QED BY <1>1, <1>2, HandlersKeep

LEMMA StartRequestFailsStep ==
  ASSUME WorkersInv, StartRequestFails PROVE WorkersInv'
<1>1. /\ main.at = "start" /\ active = main.request
      /\ Finish(main.request, "failed") /\ ThenStart(Dispatched) /\ OnlyQueue
  BY DEF StartRequestFails, IsCurrent
<1>2. main.request \in Tickets /\ main.request \in Request
  BY <1>1, TicketsAreRequests DEF WorkersInv, TicketsAreSpent
<1>3. ~attached
  BY <1>1, <1>2 DEF WorkersInv, TicketsAreSpent
<1>4. "failed" \in Outcomes
  BY DEF Outcomes
<1>5. QueueInv' /\ Moves
  BY <1>1, <1>2, <1>4, FinishStep, FinishMoves DEF WorkersInv
<1>6. QED BY <1>1, <1>3, <1>5, HandlersKeep

LEMMA ResumeStep ==
  ASSUME WorkersInv, Resume PROVE WorkersInv'
<1>1. /\ OnlyQueue
      /\ \/ ClearReapBlock
         \/ UNCHANGED queueVars
      /\ ThenStart(Dispatched) \/ main' \in {Free, Handling("closed", None)}
  BY DEF Resume, Quitting
<1>2. QueueInv' /\ Moves /\ (active' # active => active = None)
  BY <1>1, ClearReapBlockStep, ClearReapBlockMoves, StandingStillMoves DEF WorkersInv
<1>3. QED BY <1>1, <1>2, HandlersKeep

(* The controller is attached to the request whose ticket is spent. *)
LEMMA StartRequestStep ==
  ASSUME WorkersInv, StartRequest PROVE WorkersInv'
<1> DEFINE r == main.request
<1>1. /\ main.at = "start" /\ main' = Free
      /\ UNCHANGED <<leaseVars, controller, returns, timerVars, joinActive>>
  BY DEF StartRequest
<1>2. r \in Tickets /\ r \in Request /\ r # None
  BY <1>1, TicketsAreRequests, NoneIsNothing DEF WorkersInv, TicketsAreSpent
<1>3. main' \in [at: MainSteps, request: Request \cup {None}] /\ main'.at = "idle"
  <2>1. Free = Handling("idle", None) /\ "idle" \in MainSteps
    BY DEF Free, Handling, MainSteps
  <2>2. QED BY <1>1, <2>1, MainTyped
<1>4. CASE IsCurrent(r)
  <2>1. /\ AttachController(r) /\ active = r
        /\ job' = [job EXCEPT ![r.number].step = "submitted", ![r.number].request = r]
    BY <1>4 DEF StartRequest, IsCurrent
  <2>2. QueueInv'
    BY <2>1, AttachControllerStep DEF WorkersInv
  <2>3. nextRequest' = nextRequest /\ pending' = pending /\ active' = r /\ attached'
    BY <2>1 DEF AttachController
  <2>4. ~attached
    BY <1>2, <2>1 DEF WorkersInv, TicketsAreSpent
  <2>5. \A n \in Jobs : job[n].step \in {"none", "done"}
    BY <2>4 DEF WorkersInv, WorkerHasItsRequest
  <2>6. job \in [Jobs -> JobRecord] /\ "submitted" \in JobSteps
    BY WorkersTyped DEF WorkersInv, JobSteps
  <2> HIDE DEF r
  <2>7. job' \in [Jobs -> JobRecord]
    BY <1>2, <2>1, <2>6 DEF JobRecord
  <2>8. \A n \in Jobs : IF n = r.number THEN job'[n].request = r ELSE job'[n] = job[n]
    BY <2>1, <2>6 DEF JobRecord
  <2>9. WorkerHasItsRequest'
    BY <1>2, <2>3, <2>5, <2>8 DEF WorkerHasItsRequest
  <2>10. WorkersTypeOK'
    BY <1>1, <1>3, <2>7 DEF WorkersInv, WorkersTypeOK, JobRecord, timerVars
  <2>11. Tickets' \subseteq Tickets /\ r \notin Tickets'
    <3>1. \A i \in DOMAIN returns : returns[i].dispatch # r
      BY <1>1, <1>2 DEF r, WorkersInv, TicketsAreSpent
    <3>2. QED BY <1>1, <1>3, <3>1 DEF Tickets
  <2>12. TicketsAreSpent'
    BY <1>1, <1>3, <2>3, <2>11 DEF WorkersInv, TicketsAreSpent
  <2>13. QED BY <2>2, <2>9, <2>10, <2>12 DEF WorkersInv
<1>5. CASE ~IsCurrent(r)
  <2>1. UNCHANGED queueVars /\ job' = job
    BY <1>5 DEF StartRequest
  <2>2. QueueInv' /\ Moves /\ active' = active /\ attached' = attached
    BY <2>1, StandingStillMoves DEF WorkersInv
  <2>3. TicketsAreSpent'
    BY <1>1, <1>3, <2>2, TicketsKept DEF WorkersInv
  <2>4. WorkerHasItsRequest'
    BY <2>1, <2>2, WorkersKeep DEF WorkersInv
  <2>5. WorkersTypeOK'
    BY <1>1, <1>3, <2>1 DEF WorkersInv, WorkersTypeOK, timerVars
  <2>6. QED BY <2>2, <2>3, <2>4, <2>5 DEF WorkersInv
<1>6. QED BY <1>4, <1>5

(* A worker's own steps, its return apart. *)
LEMMA JobKeeps ==
  ASSUME WorkersInv, NEW n \in Jobs, JobIsLocal(n), OnlyJob
  PROVE  WorkersInv'
<1>1. QueueInv' /\ Moves /\ active' = active /\ attached' = attached
  BY StandingStillMoves DEF WorkersInv, OnlyJob
<1>2. returns' = returns /\ main' = main
  BY DEF OnlyJob
<1>3. TicketsAreSpent'
  BY <1>1, <1>2, TicketsKept DEF WorkersInv
<1>4. WorkerHasItsRequest'
  BY <1>1, WorkersKeep DEF WorkersInv, JobIsLocal, JobAlone
<1>5. WorkersTypeOK'
  BY <1>2 DEF WorkersInv, WorkersTypeOK, JobIsLocal, JobAlone, JobRecord, Signals, OnlyJob,
     timerVars
<1>6. QED BY <1>1, <1>3, <1>4, <1>5 DEF WorkersInv

LEMMA AppendTyped ==
  ASSUME WorkersTypeOK, NEW d \in Request \cup {None}, NEW b \in BOOLEAN,
         returns' = Append(returns, [dispatch |-> d, blocked |-> b])
  PROVE  returns' \in Seq([dispatch: Request \cup {None}, blocked: BOOLEAN])
<1> DEFINE Item == [dispatch: Request \cup {None}, blocked: BOOLEAN]
           post == [dispatch |-> d, blocked |-> b]
           old == returns
<1>1. post \in Item
  OBVIOUS
<1>2. old \in Seq(Item)
  BY DEF WorkersTypeOK
<1> HIDE DEF Item, post, old
<1>3. Append(old, post) \in Seq(Item)
  BY <1>1, <1>2, AppendProperties
<1>4. QED BY <1>3 DEF Item, post, old

(* What the worker of the active request tells the queue and GTK. *)
LEMMA ReturnKeeps ==
  ASSUME WorkersInv, NEW n \in Jobs, QueueInv', Moves, JobIsLocal(n),
         job'[n].step = "done", main' = main,
         UNCHANGED <<timerVars, joinActive>>,
         \/ Post(TRUE)
         \/ Post(FALSE) /\ active' = active /\ attached' = attached
  PROVE  WorkersInv'
<1>1. TicketsAreSpent'
  <2>1. CASE Post(TRUE)
    <3> DEFINE post == [dispatch |-> Dispatched, blocked |-> blocked']
    <3>1. returns' = Append(returns, post) /\ post.dispatch = Dispatched
      BY <2>1 DEF Post
    <3> HIDE DEF post
    <3>2. QED BY <3>1, ReturnTickets DEF WorkersInv
  <2>2. CASE Post(FALSE)
    <3>1. returns' = returns
      BY <2>2 DEF Post
    <3>2. QED BY <3>1, TicketsKept DEF WorkersInv
  <2>3. QED BY <2>1, <2>2
<1>2. \A m \in Jobs : job'[m].step \in {"none", "done"}
  <2>1. active.number = n
    BY DEF WorkersInv, WorkerHasItsRequest, JobIsLocal
  <2>2. \A m \in Jobs \ {n} : job[m].step \in {"none", "done"}
    BY <2>1 DEF WorkersInv, WorkerHasItsRequest
  <2>3. QED BY <2>2 DEF JobIsLocal, JobAlone
<1>3. WorkerHasItsRequest'
  BY <1>2 DEF WorkerHasItsRequest
<1>4. returns' \in Seq([dispatch: Request \cup {None}, blocked: BOOLEAN])
  <2>1. CASE Post(TRUE)
    <3>1. PICK d : d = Dispatched
      OBVIOUS
    <3>2. PICK b : b = blocked'
      OBVIOUS
    <3>3. d \in Request \cup {None} /\ b \in BOOLEAN
      BY <3>1, <3>2, DispatchTyped DEF QueueInv, TypeOK
    <3>4. returns' = Append(returns, [dispatch |-> d, blocked |-> b])
      BY <2>1, <3>1, <3>2 DEF Post
    <3>5. QED BY <3>3, <3>4, AppendTyped DEF WorkersInv
  <2>2. CASE Post(FALSE)
    BY <2>2 DEF Post, WorkersInv, WorkersTypeOK
  <2>3. QED BY <2>1, <2>2
<1>5. WorkersTypeOK'
  BY <1>4 DEF WorkersInv, WorkersTypeOK, JobIsLocal, JobAlone, JobRecord, Signals, timerVars
<1>6. QED BY <1>1, <1>3, <1>5 DEF WorkersInv

LEMMA JobRequest ==
  ASSUME WorkersInv, NEW n \in Jobs, job[n].step \notin {"none", "done"}
  PROVE  /\ job[n].request = active /\ active \in Request /\ active.number = n
         /\ attached /\ job[n].outcome \in Outcomes
<1>1. job[n].request = active /\ active # None /\ active.number = n /\ attached
  BY DEF WorkersInv, WorkerHasItsRequest
<1>2. active \in Request
  BY <1>1 DEF WorkersInv, QueueInv, TypeOK
<1>3. job[n].outcome \in Outcomes
  BY DEF WorkersInv, WorkersTypeOK
<1>4. QED BY <1>1, <1>2, <1>3

LEMMA JobStepKeeps ==
  ASSUME WorkersInv, Gate!TypeOK', NEW n \in Jobs, JobStep(n)
  PROVE  WorkersInv'
<1>1. JobIsLocal(n)
  BY JobStepIsLocal DEF WorkersInv
<1>2. job[n].request = active /\ active \in Request /\ job[n].outcome \in Outcomes
  BY <1>1, JobRequest DEF JobIsLocal
<1>3. job \in [Jobs -> JobRecord]
  BY WorkersTyped DEF WorkersInv
<1>4. CASE Return(n)
  <2>1. /\ job' = [job EXCEPT ![n].step = "done"] /\ main' = main
        /\ UNCHANGED <<timerVars, joinActive>>
    BY <1>4 DEF Return
  <2>2. job'[n].step = "done"
    BY <1>3, <2>1 DEF JobRecord
  <2>3. CASE FinishAccepted(job[n].request)
    <3>1. Finish(job[n].request, job[n].outcome) /\ Post(TRUE)
      BY <1>4, <2>3 DEF Return
    <3>2. QueueInv' /\ Moves
      BY <1>2, <3>1, FinishStep, FinishMoves DEF WorkersInv
    <3>3. QED BY <1>1, <2>1, <2>2, <3>1, <3>2, ReturnKeeps
  <2>4. CASE ~FinishAccepted(job[n].request)
    <3>1. UNCHANGED queueVars /\ Post(FALSE)
      BY <1>4, <2>4 DEF Return
    <3>2. QueueInv' /\ Moves /\ active' = active /\ attached' = attached
      BY <3>1, StandingStillMoves DEF WorkersInv
    <3>3. QED BY <1>1, <2>1, <2>2, <3>1, <3>2, ReturnKeeps
  <2>5. QED BY <2>3, <2>4
<1>5. CASE ReturnBlocked(n)
  <2>1. /\ job' = [job EXCEPT ![n].step = "done"] /\ main' = main
        /\ UNCHANGED <<timerVars, joinActive>>
    BY <1>5 DEF ReturnBlocked
  <2>2. job'[n].step = "done"
    BY <1>3, <2>1 DEF JobRecord
  <2>3. CASE BlockAccepted(job[n].request)
    <3>1. FinishBlockedReapFailure(job[n].request) /\ Post(TRUE)
      BY <1>5, <2>3 DEF ReturnBlocked
    <3>2. QueueInv' /\ Moves
      BY <1>2, <3>1, FinishBlockedStep, FinishBlockedMoves DEF WorkersInv
    <3>3. QED BY <1>1, <2>1, <2>2, <3>1, <3>2, ReturnKeeps
  <2>4. CASE ~BlockAccepted(job[n].request)
    <3>1. UNCHANGED queueVars /\ Post(FALSE)
      BY <1>5, <2>4 DEF ReturnBlocked
    <3>2. QueueInv' /\ Moves /\ active' = active /\ attached' = attached
      BY <3>1, StandingStillMoves DEF WorkersInv
    <3>3. QED BY <1>1, <2>1, <2>2, <3>1, <3>2, ReturnKeeps
  <2>5. QED BY <2>3, <2>4
<1>6. CASE ~Return(n) /\ ~ReturnBlocked(n)
  <2>1. OnlyJob
    BY <1>6 DEF JobStep, Acquire, Publish, ClearEvent, Consent, EngineStartsHelper,
       EngineEnds, EngineLosesHelper, MarkUnreaped, Cleanup
  <2>2. QED BY <1>1, <2>1, JobKeeps
<1>7. QED BY <1>4, <1>5, <1>6

LEMMA WorkerReturnedStep ==
  ASSUME WorkersInv, Gate!TypeOK, WorkerReturned
  PROVE  WorkersInv'
<1> DEFINE d == Head(returns).dispatch
<1>1. /\ returns # <<>> /\ returns' = Tail(returns) /\ ThenStart(d)
      /\ UNCHANGED <<queueVars, leaseVars, job, controller, startPoll, joinActive>>
      /\ source' \in {source, reapFailure.generation}
      /\ source' # source => reapFailure # None
  BY DEF WorkerReturned, EnsurePoll
<1>2. QueueInv' /\ Moves /\ active' = active /\ attached' = attached
  BY <1>1, StandingStillMoves DEF WorkersInv
<1>3. TicketsAreSpent'
  BY <1>1, <1>2, HandedTicket DEF WorkersInv
<1>4. WorkerHasItsRequest'
  BY <1>1, <1>2, WorkersKeep DEF WorkersInv
<1> DEFINE Item == [dispatch: Request \cup {None}, blocked: BOOLEAN]
           old == returns
<1>5. old \in Seq(Item)
  BY DEF WorkersInv, WorkersTypeOK
<1>6. d \in Request \cup {None} /\ Tail(old) \in Seq(Item)
  <2> HIDE DEF Item
  <2>1. Head(old) \in Item /\ Tail(old) \in Seq(Item)
    BY <1>1, <1>5, HeadTailProperties
  <2>2. QED BY <2>1 DEF Item
<1>7. source' \in 0..MaxGeneration
  BY <1>1, LeaseAssumption DEF Gate!TypeOK, Gate!Lease, WorkersInv, WorkersTypeOK
<1>8. main' \in [at: MainSteps, request: Request \cup {None}]
  BY <1>1, <1>6, StartTyped
<1>9. returns' \in Seq(Item)
  BY <1>1, <1>6
<1>10. WorkersTypeOK'
  BY <1>1, <1>7, <1>8, <1>9 DEF WorkersInv, WorkersTypeOK
<1>11. QED BY <1>2, <1>3, <1>4, <1>10 DEF WorkersInv

(* Handlers that start nothing. *)
LEMMA NothingStarted ==
  ASSUME WorkersInv, QueueInv', Moves, active' # active => ~attached,
         job' = job, controller' \in [Jobs -> Signals],
         returns' = returns \/ returns' = <<>>,
         main' = main \/ main'.at # "start",
         main' \in [at: MainSteps, request: Request \cup {None}],
         source' \in 0..MaxGeneration, startPoll' \in BOOLEAN, joinActive' \in BOOLEAN
  PROVE  WorkersInv'
<1>1. TicketsAreSpent'
  BY TicketsKept DEF WorkersInv
<1>2. WorkerHasItsRequest'
  BY WorkersKeep DEF WorkersInv, Moves
<1>3. returns' \in Seq([dispatch: Request \cup {None}, blocked: BOOLEAN])
  <2> DEFINE Item == [dispatch: Request \cup {None}, blocked: BOOLEAN]
             old == returns
             new == returns'
  <2>1. old \in Seq(Item) /\ (new = old \/ new = <<>>)
    BY DEF WorkersInv, WorkersTypeOK
  <2> HIDE DEF Item, old, new
  <2>2. new \in Seq(Item)
    BY <2>1, EmptySeq
  <2>3. QED BY <2>2 DEF Item, new
<1>4. job \in [Jobs -> JobRecord]
  BY WorkersTyped DEF WorkersInv
<1>5. WorkersTypeOK'
  BY <1>3, <1>4 DEF WorkersTypeOK, JobRecord, Signals
<1>6. QED BY <1>1, <1>2, <1>5 DEF WorkersInv

LEMMA WorkersTypes ==
  ASSUME WorkersInv
  PROVE  /\ main \in [at: MainSteps, request: Request \cup {None}]
         /\ controller \in [Jobs -> Signals]
         /\ source \in 0..MaxGeneration /\ startPoll \in BOOLEAN /\ joinActive \in BOOLEAN
         /\ active \in Request \cup {None} /\ main.request \in Request \cup {None}
         /\ main.at \in MainSteps
BY WorkersTyped DEF WorkersInv, QueueInv, TypeOK

(* Where the GTK thread may stand but at the start of a request. *)
Elsewhere(m) ==
  \E step \in MainSteps \ {"start"}, r \in Request \cup {None} : m = Handling(step, r)

LEMMA ElsewhereTyped ==
  ASSUME NEW m, Elsewhere(m)
  PROVE  m \in [at: MainSteps, request: Request \cup {None}] /\ m.at # "start"
BY MainTyped DEF Elsewhere

LEMMA OftenElsewhere ==
  /\ Elsewhere(Free) /\ Elsewhere(Handling("closed", None))
  /\ \A step \in {"action", "cancel_blocked", "close", "recover", "resume", "quit_recover"} :
       Elsewhere(Handling(step, None))
  /\ \A step \in {"signal", "set_event"} : \A r \in Request \cup {None} :
       Elsewhere(Handling(step, r))
<1>1. Free = Handling("idle", None)
  BY DEF Free, Handling
<1>2. QED BY <1>1 DEF Elsewhere, MainSteps

LEMMA ActionStep ==
  ASSUME WorkersInv, ActionCancels \/ ActionCancelsBlocked \/ ActionCloses
  PROVE  WorkersInv'
<1>1. OnlyQueue
  BY DEF ActionCancels, ActionCancelsBlocked, ActionCloses
<1>2. \/ UNCHANGED queueVars
      \/ CancelBlockedPending \/ CancelAll \/ ClearCompletedBatch
  BY DEF ActionCancels, ActionCancelsBlocked, ActionCloses
<1>3. QueueInv' /\ Moves /\ (active' # active => ~attached)
  <2>1. CASE UNCHANGED queueVars
    BY <2>1, StandingStillMoves DEF WorkersInv
  <2>2. CASE CancelBlockedPending \/ CancelAll \/ ClearCompletedBatch
    BY <2>2, WithdrawalMoves, CancelBlockedPendingStep, CancelAllStep,
       ClearCompletedBatchStep DEF WorkersInv
  <2>3. QED BY <1>2, <2>1, <2>2
<1>4. Elsewhere(main')
  BY OftenElsewhere, WorkersTypes DEF ActionCancels, ActionCancelsBlocked, ActionCloses
<1>5. QED
  BY <1>1, <1>3, <1>4, ElsewhereTyped, WorkersTypes, NothingStarted
     DEF OnlyQueue, workerVars, timerVars

LEMMA QuitStep ==
  ASSUME WorkersInv, Quit PROVE WorkersInv'
<1>1. /\ Shutdown /\ job' = job /\ controller' = controller /\ returns' = <<>>
      /\ source' = 0 /\ startPoll' \in BOOLEAN /\ joinActive' \in BOOLEAN
  BY DEF Quit
<1>2. QueueInv' /\ Moves /\ (active' # active => ~attached)
  BY <1>1, WithdrawalMoves, ShutdownStep DEF WorkersInv
<1>3. Elsewhere(main')
  BY OftenElsewhere, WorkersTypes DEF Quit
<1>4. source' \in 0..MaxGeneration
  BY <1>1, LeaseAssumption
<1>5. QED BY <1>1, <1>2, <1>3, <1>4, ElsewhereTyped, WorkersTypes, NothingStarted

(* Every other step leaves the queue, the workers and the returns alone. *)
LEMMA QueueLeftAlone ==
  ASSUME WorkersInv, UNCHANGED queueVars, job' = job, returns' = returns,
         controller' \in [Jobs -> Signals], main' = main \/ Elsewhere(main'),
         source' \in 0..MaxGeneration, startPoll' \in BOOLEAN, joinActive' \in BOOLEAN
  PROVE  WorkersInv'
<1>1. QueueInv' /\ Moves /\ active' = active
  BY StandingStillMoves DEF WorkersInv
<1>2. main' \in [at: MainSteps, request: Request \cup {None}]
      /\ (main' = main \/ main'.at # "start")
  BY ElsewhereTyped, WorkersTypes
<1>3. QED BY <1>1, <1>2, NothingStarted

LEMMA SignalStep ==
  ASSUME WorkersInv, Signal \/ SetEvent PROVE WorkersInv'
<1> DEFINE n == main.request.number
           yes == TRUE
<1>1. controller \in [Jobs -> Signals]
  BY WorkersTypes
<1>2. yes \in BOOLEAN
  OBVIOUS
<1>3. \/ controller' = controller
      \/ controller' = [controller EXCEPT ![n].requested = yes]
      \/ controller' = [controller EXCEPT ![n].event = yes]
  BY DEF Signal, SetEvent
<1> HIDE DEF yes, n
<1>4. controller' \in [Jobs -> Signals]
  <2>1. /\ [controller EXCEPT ![n].event = yes] \in [Jobs -> Signals]
        /\ [controller EXCEPT ![n].requested = yes] \in [Jobs -> Signals]
    BY <1>1, <1>2, EventIsSet
  <2>2. QED BY <1>1, <1>3, <2>1
<1>5. AfterSignal => Elsewhere(main')
  BY OftenElsewhere DEF AfterSignal
<1>6. ASSUME main' = [main EXCEPT !.at = "set_event"] PROVE Elsewhere(main')
  <2>1. main' = Handling("set_event", main.request)
    BY <1>6, WorkersTypes DEF Handling
  <2>2. QED BY <2>1, OftenElsewhere, WorkersTypes
<1>7. Elsewhere(main')
  BY <1>5, <1>6 DEF Signal, SetEvent
<1>8. QED
  BY <1>4, <1>7, WorkersTypes, QueueLeftAlone DEF Signal, SetEvent, timerVars

LEMMA TimerStep ==
  ASSUME WorkersInv, Gate!TypeOK,
         PollTick \/ RecoverConfirm \/ RecoverClear \/ StartPoll \/ QuitRecover
  PROVE  WorkersInv'
<1>1. 0 \in 0..MaxGeneration
  BY LeaseAssumption
<1>2. reapFailure # None => reapFailure.generation \in 0..MaxGeneration
  BY LeaseAssumption DEF Gate!TypeOK, Gate!Lease
<1>3. source' \in 0..MaxGeneration
  BY <1>1, <1>2, WorkersTypes
     DEF PollTick, RecoverConfirm, RecoverClear, StartPoll, EnsurePoll, QuitRecover, timerVars
<1>4. main' = main \/ Elsewhere(main')
  BY OftenElsewhere
     DEF PollTick, RecoverConfirm, RecoverClear, StartPoll, QuitRecover, Quitting
<1>5. startPoll' \in BOOLEAN /\ joinActive' \in BOOLEAN
  BY WorkersTypes
     DEF PollTick, RecoverConfirm, RecoverClear, StartPoll, QuitRecover, timerVars
<1>6. UNCHANGED <<queueVars, workerVars>>
  BY DEF PollTick, RecoverConfirm, RecoverClear, StartPoll, QuitRecover
<1>7. QED
  BY <1>3, <1>4, <1>5, <1>6, WorkersTypes, QueueLeftAlone DEF workerVars

LEMMA OthersStep ==
  ASSUME WorkersInv,
         \/ ActionClicked \/ StartJoin \/ StartRepair \/ CleanupJoinAttempt \/ OrphanExits
         \/ UNCHANGED vars
         \/ \E o \in Others : OtherStep(o)
  PROVE  WorkersInv'
<1> DEFINE Same == UNCHANGED <<queueVars, workerVars>> /\ source' = source
<1>1. CASE ActionClicked
  <2>1. Elsewhere(main')
    BY <1>1, OftenElsewhere DEF ActionClicked
  <2>2. QED
    BY <1>1, <2>1, WorkersTypes, QueueLeftAlone
       DEF ActionClicked, OnlyQueue, workerVars, timerVars
<1>2. CASE StartJoin \/ StartRepair \/ CleanupJoinAttempt
  BY <1>2, WorkersTypes, QueueLeftAlone
     DEF StartJoin, StartRepair, CleanupJoinAttempt, workerVars, timerVars
<1>3. CASE OrphanExits \/ UNCHANGED vars
  BY <1>3, WorkersTypes, QueueLeftAlone DEF OrphanExits, vars, workerVars, timerVars
<1>4. ASSUME NEW o \in Others, OtherStep(o) PROVE WorkersInv'
  <2>1. CASE OtherHelper(o) \/ OtherReleases(o)
    BY <2>1, WorkersTypes, QueueLeftAlone DEF OtherHelper, OtherReleases, workerVars, timerVars
  <2>2. CASE OtherLosesHelper(o)
    <3>1. startPoll' \in BOOLEAN
      BY <2>2 DEF OtherLosesHelper, WorkersInv, QueueInv, TypeOK
    <3>2. QED
      BY <2>2, <3>1, WorkersTypes, QueueLeftAlone DEF OtherLosesHelper, workerVars
  <2>3. QED BY <1>4, <2>1, <2>2 DEF OtherStep
<1>5. QED BY <1>1, <1>2, <1>3, <1>4

SystemCore == Gate!GateInv /\ WorkersInv

LEMMA SystemStarts ==
  ASSUME Init PROVE SystemCore
<1>1. QueueInit /\ Gate!Init
  BY DEF Init
<1>2. Gate!GateInv
  BY <1>1, GateStarts
<1>3. QueueInv
  <2> USE <1>1 DEF QueueInit
  <2>1. Frame
    BY FS_EmptySet DEF Frame, BlockedIsQuiet, ClosedQueueIsEmpty, ReportsAreFinite
  <2>2. Shape(active, pending, records, activeBatch, epoch, nextRequest, Stale)
    BY EmptyShape
  <2>3. QED BY <2>1, <2>2, InvIsShapeAndFrame
<1>4. /\ main = Free /\ returns = <<>> /\ source = 0
      /\ job = [n \in Jobs |-> [step |-> "none", request |-> None, lease |-> None,
                                outcome |-> "failed", cancelRead |-> FALSE]]
  BY DEF Init
<1>5. main \in [at: MainSteps, request: Request \cup {None}] /\ main.at = "idle"
  BY <1>4, OftenElsewhere, ElsewhereTyped DEF Free
<1>6. job \in [Jobs -> JobRecord] /\ \A n \in Jobs : job[n].step = "none"
  BY <1>4 DEF JobRecord, JobSteps, Outcomes
<1>7. WorkersTypeOK
  <2>1. source \in 0..MaxGeneration
    BY <1>4, LeaseAssumption
  <2>2. controller \in [Jobs -> Signals] /\ startPoll \in BOOLEAN /\ joinActive \in BOOLEAN
    BY DEF Init, Signals
  <2>3. returns \in Seq([dispatch: Request \cup {None}, blocked: BOOLEAN])
    <3> DEFINE Item == [dispatch: Request \cup {None}, blocked: BOOLEAN]
    <3> HIDE DEF Item
    <3>1. returns \in Seq(Item)
      BY <1>4, EmptySeq
    <3>2. QED BY <3>1 DEF Item
  <2>4. QED BY <1>5, <1>6, <2>1, <2>2, <2>3, WorkersTyped
<1>8. TicketsAreSpent
  BY <1>4, <1>5 DEF TicketsAreSpent, Tickets
<1>9. WorkerHasItsRequest
  BY <1>6 DEF WorkerHasItsRequest
<1>10. QED BY <1>2, <1>3, <1>7, <1>8, <1>9 DEF SystemCore, WorkersInv

LEMMA WorkersInvStep ==
  ASSUME WorkersInv, Gate!TypeOK, Gate!TypeOK', [Next]_vars
  PROVE  WorkersInv'
<1>1. Gate!TypeOK /\ Gate!TypeOK'
  OBVIOUS
<1>2. WorkersInv
  OBVIOUS
<1>3. CASE UserStep
  <2>1. ASSUME NEW s \in Servers, Download(s) PROVE WorkersInv'
    BY <1>2, <2>1, DownloadStep
  <2>2. ASSUME NEW resolvable \in SUBSET Servers, RetryFailed(resolvable) PROVE WorkersInv'
    BY <1>2, <2>2, RetryFailedStep
  <2>3. CASE ActionClicked \/ StartJoin \/ StartRepair
    BY <1>2, <2>3, OthersStep
  <2>4. CASE Quit
    BY <1>2, <2>4, QuitStep
  <2>5. QED BY <1>3, <2>1, <2>2, <2>3, <2>4 DEF UserStep
<1>4. CASE MainStep
  <2>1. CASE StartRequest BY <1>2, <2>1, StartRequestStep
  <2>2. CASE StartRequestFails BY <1>2, <2>2, StartRequestFailsStep
  <2>3. CASE WorkerReturned BY <1>1, <1>2, <2>3, WorkerReturnedStep
  <2>4. CASE ActionCancels \/ ActionCancelsBlocked \/ ActionCloses
    BY <1>2, <2>4, ActionStep
  <2>5. CASE Signal \/ SetEvent BY <1>2, <2>5, SignalStep
  <2>6. CASE PollTick \/ RecoverConfirm \/ RecoverClear \/ StartPoll \/ QuitRecover
    BY <1>1, <1>2, <2>6, TimerStep
  <2>7. CASE Resume BY <1>2, <2>7, ResumeStep
  <2>8. CASE CleanupJoinAttempt BY <1>2, <2>8, OthersStep
  <2>9. QED
    BY <1>4, <2>1, <2>2, <2>3, <2>4, <2>5, <2>6, <2>7, <2>8 DEF MainStep
<1>5. ASSUME NEW n \in Jobs, JobStep(n) PROVE WorkersInv'
  BY <1>1, <1>2, <1>5, JobStepKeeps
<1>6. CASE OrphanExits \/ UNCHANGED vars \/ \E o \in Others : OtherStep(o)
  BY <1>2, <1>6, OthersStep
<1>7. QED BY <1>3, <1>4, <1>5, <1>6 DEF Next

LEMMA SystemKeeps ==
  ASSUME SystemCore, [Next]_vars PROVE SystemCore'
<1>1. Gate!GateInv'
  BY GateFollows, GateKeepsInv DEF SystemCore
<1>2. WorkersInv'
  BY <1>1, WorkersInvStep DEF SystemCore, Gate!GateInv
<1>3. QED BY <1>1, <1>2 DEF SystemCore

(* The queue's and the gate's invariants hold of the system that composes
   them, and with them: a dispatch is started once, and a worker that runs
   has the active request, for any servers and number of requests, with any
   Joins and repairs beside it.                                           *)
THEOREM SystemCoreHolds == Spec => []SystemCore
<1>1. Init => SystemCore
  BY SystemStarts
<1>2. SystemCore /\ [Next]_vars => SystemCore'
  BY SystemKeeps
<1>3. QED BY <1>1, <1>2, PTL DEF Spec

(* _background_prepare_start_frozen_request never submits a worker beside
   another: whoever has not returned works for the active request.        *)
THEOREM WorkersServeTheActive == Spec => []WorkerServesActive
<1>1. SystemCore => WorkerServesActive
  BY DEF SystemCore, WorkersInv, WorkerHasItsRequest, WorkerServesActive
<1>2. QED BY <1>1, SystemCoreHolds, PTL

-----------------------------------------------------------------------------
(* A blocked queue is watched: who brings the news of a lost helper.       *)
Blocking == {n \in Jobs : job[n].step = "return_blocked"}

NewsInv == SystemCore /\ WatchInv /\ BlockedQueueIsWatched

(* Steps that neither bring news nor act on it. *)
LEMMA NoNews ==
  ASSUME NewsIsInOnePlace, BlockedQueueIsWatched, ~shutdown, ~shutdown',
         reapFailure' = reapFailure, UNCHANGED timerVars,
         BlockedReturns' = {} <=> BlockedReturns = {},
         \A i, j \in BlockedReturns' : i = j,
         Blocking' \subseteq Blocking,
         main'.at = "recover" => main.at = "recover",
         main'.at # "quit_recover",
         blocked' => blocked /\ (main.at = "resume" => main'.at = "resume")
  PROVE  NewsIsInOnePlace' /\ BlockedQueueIsWatched'
<1>1. source' = source /\ startPoll' = startPoll
  BY DEF timerVars
<1>2. \A n \in Jobs : job'[n].step = "return_blocked" => job[n].step = "return_blocked"
  BY DEF Blocking
<1>3. NewsIsInOnePlace'
  BY <1>1, <1>2 DEF NewsIsInOnePlace
<1>4. (\E i \in DOMAIN returns' : returns'[i].blocked) <=> BlockedReturns' # {}
  BY DEF BlockedReturns
<1>5. (\E i \in DOMAIN returns : returns[i].blocked) <=> BlockedReturns # {}
  BY DEF BlockedReturns
<1>6. BlockedQueueIsWatched'
  BY <1>1, <1>4, <1>5 DEF BlockedQueueIsWatched
<1>7. QED BY <1>3, <1>6

LEMMA NoNewReturns ==
  ASSUME NewsIsInOnePlace, returns' = returns
  PROVE  BlockedReturns' = BlockedReturns /\ \A i, j \in BlockedReturns' : i = j
BY DEF BlockedReturns, NewsIsInOnePlace

(* GTK handlers that leave the workers, the timer and the gate alone. *)
LEMMA HandlerNews ==
  ASSUME NewsIsInOnePlace, BlockedQueueIsWatched, ~shutdown, ~shutdown',
         OnlyQueue, main'.at \notin {"recover", "quit_recover"},
         blocked' => blocked /\ main.at # "resume"
  PROVE  NewsIsInOnePlace' /\ BlockedQueueIsWatched'
<1>1. returns' = returns /\ job' = job /\ reapFailure' = reapFailure /\ UNCHANGED timerVars
  BY DEF OnlyQueue, workerVars, leaseVars
<1>2. Blocking' \subseteq Blocking
  BY <1>1 DEF Blocking
<1>3. QED BY <1>1, <1>2, NoNewReturns, NoNews

LEMMA UserNews ==
  ASSUME SystemCore, NewsIsInOnePlace, BlockedQueueIsWatched, ~shutdown, ~shutdown', UserStep
  PROVE  NewsIsInOnePlace' /\ BlockedQueueIsWatched'
<1>1. ASSUME NEW s \in Servers, Download(s)
      PROVE  NewsIsInOnePlace' /\ BlockedQueueIsWatched'
  <2>1. main.at = "idle" /\ OnlyQueue /\ blocked' = blocked /\ ThenStart(Dispatched)
    BY <1>1 DEF Download, Enqueue, modeVars
  <2>2. main'.at \in {"idle", "start"}
    BY <2>1 DEF ThenStart, Free, Handling
  <2>3. QED BY <2>1, <2>2, HandlerNews
<1>2. ASSUME NEW resolvable \in SUBSET Servers, RetryFailed(resolvable)
      PROVE  NewsIsInOnePlace' /\ BlockedQueueIsWatched'
  <2>1. main.at = "idle" /\ OnlyQueue /\ blocked' = blocked /\ ThenStart(Dispatched)
    BY <1>2 DEF RetryFailed, Retry, EnqueueRetryBatch, modeVars
  <2>2. main'.at \in {"idle", "start"}
    BY <2>1 DEF ThenStart, Free, Handling
  <2>3. QED BY <2>1, <2>2, HandlerNews
<1>3. CASE ActionClicked
  <2>1. /\ main.at = "idle" /\ OnlyQueue /\ blocked' = blocked
        /\ main'.at \in {"cancel_blocked", "close", "action"}
    BY <1>3 DEF ActionClicked, queueVars, modeVars, Handling
  <2>2. QED BY <2>1, HandlerNews
<1>4. CASE StartJoin \/ StartRepair
  <2>1. /\ reapFailure' = reapFailure /\ main' = main
        /\ UNCHANGED <<queueVars, workerVars, timerVars>>
    BY <1>4 DEF StartJoin, StartRepair, Gate!TryAcquire
  <2>2. returns' = returns /\ job' = job /\ blocked' = blocked
    BY <2>1 DEF workerVars, queueVars, modeVars
  <2>3. Blocking' \subseteq Blocking
    BY <2>2 DEF Blocking
  <2>4. main.at # "quit_recover" BY DEF NewsIsInOnePlace
  <2>5. QED BY <2>1, <2>2, <2>3, <2>4, NoNewReturns, NoNews
<1>5. CASE Quit
  BY <1>5 DEF Quit, Shutdown
<1>6. QED BY <1>1, <1>2, <1>3, <1>4, <1>5 DEF UserStep

LEMMA OtherNews ==
  ASSUME SystemCore, NewsIsInOnePlace, BlockedQueueIsWatched, ~shutdown,
         NEW o \in Others, OtherStep(o)
  PROVE  NewsIsInOnePlace' /\ BlockedQueueIsWatched'
<1>1. UNCHANGED <<queueVars, workerVars, main>> /\ source' = source
  BY DEF OtherStep, OtherHelper, OtherReleases, OtherLosesHelper, timerVars
<1>2. returns' = returns /\ job' = job /\ UNCHANGED <<blocked, shutdown>> /\ main' = main
  BY <1>1 DEF workerVars, queueVars, modeVars
<1>3. Blocking' \subseteq Blocking /\ main.at # "quit_recover"
  BY <1>2 DEF Blocking, NewsIsInOnePlace
<1>4. CASE OtherHelper(o) \/ OtherReleases(o)
  <2>1. reapFailure' = reapFailure /\ UNCHANGED timerVars
    BY <1>4 DEF OtherHelper, OtherReleases, Gate!StartHelper, Gate!ReapHelper, Gate!Release
  <2>2. QED BY <1>2, <1>3, <2>1, NoNewReturns, NoNews
<1>5. CASE OtherLosesHelper(o)
  <2>1. o \in Owners /\ held[o] # None /\ reapFailure' = held[o] /\ startPoll'
    BY <1>5 DEF OtherLosesHelper, Gate!MarkReapFailure, Owners
  <2>2. reapFailure = None
    BY <2>1 DEF SystemCore, Gate!GateInv, Gate!HeldLeaseOwns
  <2>3. source = 0 /\ BlockedReturns = {} /\ Blocking = {} /\ main.at # "recover"
    BY <2>2 DEF NewsIsInOnePlace, Blocking
  <2>4. BlockedReturns' = {} /\ Blocking' = {}
    BY <1>2, <2>3 DEF BlockedReturns, Blocking
  <2>5. \A n \in Jobs : job'[n].step # "return_blocked"
    BY <2>4 DEF Blocking
  <2>6. NewsIsInOnePlace'
    BY <1>1, <1>2, <1>3, <2>1, <2>3, <2>4, <2>5 DEF NewsIsInOnePlace
  <2>7. BlockedQueueIsWatched'
    BY <2>1 DEF BlockedQueueIsWatched
  <2>8. QED BY <2>6, <2>7
<1>6. QED BY <1>4, <1>5 DEF OtherStep

(* A worker's callback: a blocked one passes the news to the timer. *)
LEMMA ReturnedNews ==
  ASSUME SystemCore, NewsIsInOnePlace, BlockedQueueIsWatched, ~shutdown, WorkerReturned
  PROVE  NewsIsInOnePlace' /\ BlockedQueueIsWatched'
<1>1. /\ main.at = "idle" /\ returns # <<>> /\ returns' = Tail(returns)
      /\ ThenStart(Head(returns).dispatch) /\ startPoll' = startPoll
      /\ UNCHANGED <<queueVars, leaseVars, job>>
  BY DEF WorkerReturned
<1>2. /\ job' = job /\ UNCHANGED <<blocked, shutdown>> /\ reapFailure' = reapFailure
      /\ main'.at \in {"idle", "start"}
  BY <1>1 DEF queueVars, modeVars, leaseVars, ThenStart, Free, Handling
<1> DEFINE len == Len(returns)
<1>3. /\ len \in Nat \ {0} /\ DOMAIN returns = 1..len /\ Head(returns) = returns[1]
      /\ DOMAIN returns' = 1..(len - 1)
      /\ \A i \in 1..(len - 1) : returns'[i] = returns[i + 1]
  BY <1>1, TailOfReturns DEF SystemCore, WorkersInv
<1> HIDE DEF len
<1>4. \A i \in BlockedReturns' : i + 1 \in BlockedReturns /\ i \in Nat \ {0}
  BY <1>3 DEF BlockedReturns
<1>5. \A i, j \in BlockedReturns : i = j
  BY DEF NewsIsInOnePlace
<1>6. CASE Head(returns).blocked
  <2>1. 1 \in BlockedReturns
    BY <1>3, <1>6 DEF BlockedReturns
  <2>2. BlockedReturns' = {}
    BY <1>4, <1>5, <2>1
  <2>3. reapFailure # None /\ source' = reapFailure.generation
    BY <1>6, <2>1 DEF NewsIsInOnePlace, WorkerReturned, EnsurePoll
  <2>4. ~startPoll /\ \A n \in Jobs : job[n].step # "return_blocked"
    BY <2>1 DEF NewsIsInOnePlace
  <2>5. NewsIsInOnePlace'
    BY <1>1, <1>2, <2>2, <2>3, <2>4 DEF NewsIsInOnePlace
  <2>6. BlockedQueueIsWatched'
    BY <1>2, <2>3 DEF BlockedQueueIsWatched
  <2>7. QED BY <2>5, <2>6
<1>7. CASE ~Head(returns).blocked
  <2>1. \A i \in BlockedReturns : i \in 2..len /\ i - 1 \in BlockedReturns'
    <3> SUFFICES ASSUME NEW i \in BlockedReturns PROVE i \in 2..len /\ i - 1 \in BlockedReturns'
      OBVIOUS
    <3>1. i \in 1..len /\ returns[i].blocked
      BY <1>3 DEF BlockedReturns
    <3>2. i # 1
      BY <1>3, <1>7, <3>1
    <3>3. i - 1 \in 1..(len - 1) /\ (i - 1) + 1 = i
      BY <1>3, <3>1, <3>2
    <3>4. returns'[i - 1] = returns[i]
      BY <1>3, <3>3
    <3>5. i - 1 \in BlockedReturns'
      BY <1>3, <3>1, <3>3, <3>4 DEF BlockedReturns
    <3>6. QED BY <1>3, <3>1, <3>2, <3>5
  <2>2. BlockedReturns' = {} <=> BlockedReturns = {}
    BY <1>4, <2>1
  <2>3. \A i, j \in BlockedReturns' : i = j
    BY <1>4, <1>5
  <2>4. UNCHANGED timerVars
    BY <1>1, <1>7 DEF WorkerReturned, timerVars
  <2>5. Blocking' \subseteq Blocking
    BY <1>2 DEF Blocking
  <2>6. QED BY <1>1, <1>2, <2>2, <2>3, <2>4, <2>5, NoNews
<1>8. QED BY <1>6, <1>7

(* The timer and the recovery it runs. *)
LEMMA TimerNews ==
  ASSUME SystemCore, NewsIsInOnePlace, BlockedQueueIsWatched, ~shutdown,
         \/ PollTick \/ RecoverConfirm \/ RecoverClear \/ StartPoll \/ QuitRecover
  PROVE  NewsIsInOnePlace' /\ BlockedQueueIsWatched'
<1>1. UNCHANGED <<queueVars, workerVars>>
  BY DEF PollTick, RecoverConfirm, RecoverClear, StartPoll, QuitRecover
<1>2. job' = job /\ returns' = returns /\ UNCHANGED <<blocked, shutdown>>
  BY <1>1 DEF workerVars, queueVars, modeVars
<1>3. BlockedReturns' = BlockedReturns /\ Blocking' = Blocking
  BY <1>2 DEF BlockedReturns, Blocking
<1>4. main.at # "quit_recover" /\ (main.at = "recover" => source # 0)
  BY DEF NewsIsInOnePlace
<1>5. source # 0 => /\ reapFailure # None /\ ~startPoll /\ BlockedReturns = {}
                    /\ \A n \in Jobs : job[n].step # "return_blocked"
  BY DEF NewsIsInOnePlace
<1>6. reapFailure # None => reapFailure.generation # 0
  BY DEF SystemCore, Gate!GateInv, Gate!TypeOK, Gate!Lease
<1>7. CASE PollTick
  <2>1. main.at = "idle" /\ source # 0 /\ startPoll' = startPoll
    BY <1>7 DEF PollTick
  <2>2. /\ reapFailure' = reapFailure
        /\ \/ source' = reapFailure.generation /\ main' = main
           \/ source' = source /\ main' = Handling("recover", None)
              /\ source = reapFailure.generation
    BY <1>5, <1>7, <2>1 DEF PollTick, leaseVars, Gate!RecoverRead
  <2>3. source' = reapFailure.generation /\ main'.at \in {"idle", "recover"}
    BY <2>1, <2>2 DEF Handling
  <2>4. NewsIsInOnePlace'
    BY <1>2, <1>3, <1>5, <1>6, <2>1, <2>2, <2>3 DEF NewsIsInOnePlace
  <2>5. BlockedQueueIsWatched'
    BY <1>5, <2>1, <2>2, <2>3 DEF BlockedQueueIsWatched
  <2>6. QED BY <2>4, <2>5
<1>8. CASE RecoverConfirm
  <2>1. /\ main.at = "recover" /\ reapFailure' = reapFailure /\ UNCHANGED timerVars
        /\ main' = Free \/ main' = main
    BY <1>8 DEF RecoverConfirm, Gate!RecoverConfirm, Quitting
  <2>2. main'.at \in {"idle", "recover"}
    BY <2>1 DEF Free
  <2>3. QED BY <1>2, <1>3, <2>1, <2>2, NoNewReturns, NoNews
<1>9. CASE RecoverClear
  <2>1. main.at = "recover" /\ startPoll' = startPoll
    BY <1>9 DEF RecoverClear
  <2>2. CASE reapFailure' # reapFailure
    <3>1. source' = 0 /\ main'.at = "resume"
      BY <1>9, <2>2 DEF RecoverClear, Handling
    <3>2. ~startPoll /\ BlockedReturns = {} /\ \A n \in Jobs : job[n].step # "return_blocked"
      BY <1>4, <1>5, <2>1
    <3>3. NewsIsInOnePlace'
      BY <1>2, <1>3, <2>1, <3>1, <3>2 DEF NewsIsInOnePlace
    <3>4. BlockedQueueIsWatched'
      BY <3>1 DEF BlockedQueueIsWatched
    <3>5. QED BY <3>3, <3>4
  <2>3. CASE reapFailure' = reapFailure
    <3>1. main' = Free /\ UNCHANGED timerVars
      BY <1>9, <2>1, <2>3 DEF RecoverClear, Quitting, timerVars
    <3>2. main'.at = "idle"
      BY <3>1 DEF Free
    <3>3. QED BY <1>2, <1>3, <2>1, <2>3, <3>1, <3>2, NoNewReturns, NoNews
  <2>4. QED BY <2>2, <2>3
<1>10. CASE StartPoll
  <2>1. /\ main.at = "idle" /\ main' = main /\ startPoll /\ ~startPoll'
        /\ reapFailure' = reapFailure /\ EnsurePoll
    BY <1>10 DEF StartPoll, leaseVars
  <2>2. /\ reapFailure # None /\ BlockedReturns = {}
        /\ \A n \in Jobs : job[n].step # "return_blocked"
    BY <2>1 DEF NewsIsInOnePlace
  <2>3. source' = reapFailure.generation
    BY <2>1, <2>2 DEF EnsurePoll
  <2>4. NewsIsInOnePlace'
    BY <1>2, <1>3, <2>1, <2>2, <2>3 DEF NewsIsInOnePlace
  <2>5. BlockedQueueIsWatched'
    BY <2>1, <2>2, <2>3 DEF BlockedQueueIsWatched
  <2>6. QED BY <2>4, <2>5
<1>11. CASE QuitRecover
  BY <1>4, <1>11 DEF QuitRecover
<1>12. QED BY <1>7, <1>8, <1>9, <1>10, <1>11

LEMMA MainNews ==
  ASSUME SystemCore, NewsIsInOnePlace, BlockedQueueIsWatched, ~shutdown, ~shutdown', MainStep
  PROVE  NewsIsInOnePlace' /\ BlockedQueueIsWatched'
<1>1. QueueInv /\ main.request \in Request \cup {None} /\ job \in [Jobs -> JobRecord]
  BY WorkersTypes, WorkersTyped DEF SystemCore, WorkersInv
<1>2. main.at # "quit_recover"
  BY DEF NewsIsInOnePlace
<1>3. CASE StartRequest
  <2>1. /\ main.at = "start" /\ main'.at = "idle" /\ reapFailure' = reapFailure
        /\ returns' = returns /\ UNCHANGED timerVars
    BY <1>3 DEF StartRequest, Free, leaseVars
  <2>2. blocked' = blocked
    BY <1>3 DEF StartRequest, AttachController, queueVars, modeVars
  <2>3. \A n \in Jobs : job'[n].step = "return_blocked" => job[n].step = "return_blocked"
    BY <1>1, <1>3 DEF StartRequest, JobRecord
  <2>4. Blocking' \subseteq Blocking
    BY <2>3 DEF Blocking
  <2>5. QED BY <2>1, <2>2, <2>4, NoNewReturns, NoNews
<1>4. CASE StartRequestFails
  <2>1. /\ main.at = "start" /\ OnlyQueue /\ Finish(main.request, "failed")
        /\ main.request = active /\ active # None
        /\ main'.at \in {"idle", "start"}
    <3>1. /\ main.at = "start" /\ OnlyQueue /\ Finish(main.request, "failed")
          /\ main.request = active /\ ThenStart(Dispatched)
      BY <1>4 DEF StartRequestFails, IsCurrent
    <3>2. main.request # None
      BY <3>1 DEF SystemCore, WorkersInv, TicketsAreSpent
    <3>3. QED BY <3>1, <3>2 DEF ThenStart, Free, Handling
  <2>2. blocked' = blocked
    BY <2>1 DEF Finish
  <2>3. QED BY <2>1, <2>2, HandlerNews
<1>5. CASE WorkerReturned
  BY <1>5, ReturnedNews
<1>6. CASE ActionCancels \/ ActionCancelsBlocked \/ ActionCloses
  <2>1. /\ main.at \in {"action", "cancel_blocked", "close"} /\ OnlyQueue
        /\ main'.at \in {"idle", "signal"}
    BY <1>6 DEF ActionCancels, ActionCancelsBlocked, ActionCloses, Free, Handling
  <2>2. \/ UNCHANGED queueVars
        \/ CancelBlockedPending \/ CancelAll \/ ClearCompletedBatch
    BY <1>6 DEF ActionCancels, ActionCancelsBlocked, ActionCloses
  <2>3. blocked' = blocked
    BY <1>1, <2>2, WithdrawalMoves DEF queueVars, modeVars
  <2>4. QED BY <2>1, <2>3, HandlerNews
<1>7. CASE Signal \/ SetEvent
  <2>1. /\ main.at \in {"signal", "set_event"} /\ reapFailure' = reapFailure
        /\ job' = job /\ returns' = returns /\ UNCHANGED <<blocked, shutdown>>
        /\ UNCHANGED timerVars
    BY <1>7 DEF Signal, SetEvent, leaseVars, queueVars, modeVars
  <2>2. main' = Free \/ main' = [main EXCEPT !.at = "set_event"]
    BY <1>7 DEF Signal, SetEvent, AfterSignal
  <2>3. main'.at \in {"idle", "set_event"}
    <3> DEFINE moved == [main EXCEPT !.at = "set_event"]
    <3>1. main \in [at: MainSteps, request: Request \cup {None}]
      BY WorkersTypes DEF SystemCore
    <3>2. moved.at = "set_event" /\ Free.at = "idle"
      BY <3>1 DEF Free
    <3>3. main' = Free \/ main' = moved
      BY <2>2
    <3> HIDE DEF moved
    <3>4. QED BY <3>2, <3>3
  <2>4. Blocking' \subseteq Blocking
    BY <2>1 DEF Blocking
  <2>5. QED BY <2>1, <2>3, <2>4, NoNewReturns, NoNews
<1>8. CASE PollTick \/ RecoverConfirm \/ RecoverClear \/ StartPoll \/ QuitRecover
  BY <1>8, TimerNews
<1>9. CASE Resume
  <2>1. /\ main.at = "resume" /\ OnlyQueue /\ main'.at \in {"idle", "start"}
    BY <1>9 DEF Resume, ThenStart, Free, Handling
  <2>2. ~blocked'
    BY <1>9 DEF Resume, ClearReapBlock, queueVars, modeVars
  <2>3. QED BY <2>1, <2>2, HandlerNews
<1>10. CASE CleanupJoinAttempt
  <2>1. /\ UNCHANGED <<queueVars, leaseVars, workerVars, main, timerVars>>
    BY <1>10 DEF CleanupJoinAttempt
  <2>2. /\ reapFailure' = reapFailure /\ job' = job /\ returns' = returns
        /\ blocked' = blocked /\ main' = main
    BY <2>1 DEF queueVars, modeVars, leaseVars, workerVars
  <2>3. Blocking' \subseteq Blocking
    BY <2>2 DEF Blocking
  <2>4. QED BY <1>2, <2>1, <2>2, <2>3, NoNewReturns, NoNews
<1>11. QED
  BY <1>3, <1>4, <1>5, <1>6, <1>7, <1>8, <1>9, <1>10 DEF MainStep

(* A refused, or unblocked, return of a worker. *)
LEMMA QuietReturn ==
  ASSUME SystemCore, NewsIsInOnePlace, BlockedQueueIsWatched, ~shutdown, ~shutdown',
         NEW n \in Jobs, job' = [job EXCEPT ![n].step = "done"],
         UNCHANGED <<leaseVars, main, timerVars>>, blocked' = blocked,
         \/ returns' = returns
         \/ \E d : returns' = Append(returns, [dispatch |-> d, blocked |-> blocked'])
            /\ ~blocked'
  PROVE  NewsIsInOnePlace' /\ BlockedQueueIsWatched'
<1>1. job \in [Jobs -> JobRecord] /\ WorkersTypeOK
  BY WorkersTyped DEF SystemCore, WorkersInv
<1>2. \A m \in Jobs : job'[m].step = "return_blocked" => job[m].step = "return_blocked"
  BY <1>1 DEF JobRecord
<1>3. Blocking' \subseteq Blocking /\ reapFailure' = reapFailure /\ main.at # "quit_recover"
  BY <1>2 DEF Blocking, leaseVars, NewsIsInOnePlace
<1>4. BlockedReturns' = BlockedReturns
  <2>1. CASE returns' = returns
    BY <2>1 DEF BlockedReturns
  <2>2. CASE \E d : returns' = Append(returns, [dispatch |-> d, blocked |-> blocked'])
                    /\ ~blocked'
    <3>1. PICK d, post : /\ returns' = Append(returns, post)
                         /\ post = [dispatch |-> d, blocked |-> blocked'] /\ ~blocked'
      BY <2>2
    <3>2. post.dispatch = d /\ ~post.blocked
      BY <3>1
    <3>3. /\ DOMAIN returns' = 1..Len(returns) + 1
          /\ \A i \in 1..Len(returns) : returns'[i] = returns[i]
          /\ returns'[Len(returns) + 1] = post
      BY <1>1, <3>1, <3>2, AppendedReturn
    <3>4. DOMAIN returns = 1..Len(returns) /\ Len(returns) \in Nat
      BY <1>1, TicketsAreRequests
    <3> DEFINE len == Len(returns)
    <3>5. /\ len \in Nat /\ DOMAIN returns = 1..len /\ DOMAIN returns' = 1..len + 1
          /\ \A i \in 1..len : returns'[i] = returns[i]
          /\ ~returns'[len + 1].blocked
      BY <3>2, <3>3, <3>4
    <3> HIDE DEF len
    <3>6. \A i : i \in BlockedReturns' <=> i \in BlockedReturns
      <4>1. \A i : i \in 1..len + 1 <=> i \in 1..len \/ i = len + 1
        BY <3>5
      <4>2. QED BY <3>5, <4>1 DEF BlockedReturns
    <3>7. QED BY <3>6
  <2>3. QED BY <2>1, <2>2
<1>5. \A i, j \in BlockedReturns' : i = j
  BY <1>4 DEF NewsIsInOnePlace
<1>6. QED BY <1>3, <1>4, <1>5, NoNews

LEMMA JobNews ==
  ASSUME SystemCore, NewsIsInOnePlace, BlockedQueueIsWatched, ~shutdown, ~shutdown',
         Gate!TypeOK', NEW n \in Jobs, JobStep(n)
  PROVE  NewsIsInOnePlace' /\ BlockedQueueIsWatched'
<1>1. /\ WorkersInv /\ QueueInv /\ WorkersTypeOK /\ job \in [Jobs -> JobRecord]
      /\ main.at # "quit_recover"
  BY WorkersTyped DEF SystemCore, WorkersInv, NewsIsInOnePlace
<1>2. JobIsLocal(n)
  BY <1>1, JobStepIsLocal
<1>3. job[n].request = active /\ active \in Request /\ job[n].outcome \in Outcomes
  BY <1>1, <1>2, JobRequest DEF JobIsLocal
<1>4. \A m \in Jobs : m # n => job'[m] = job[m] /\ job[m].step # "return_blocked"
  <2>1. active.number = n
    BY <1>1, <1>2 DEF WorkersInv, WorkerHasItsRequest, JobIsLocal
  <2>2. \A m \in Jobs : m # n => job[m].step \in {"none", "done"}
    BY <1>1, <2>1 DEF WorkersInv, WorkerHasItsRequest
  <2>3. QED BY <1>2, <2>2 DEF JobIsLocal, JobAlone
<1>5. active # None
  BY <1>1, <1>2 DEF WorkersInv, WorkerHasItsRequest, JobIsLocal
<1>6. CASE Acquire(n) \/ Publish(n) \/ ClearEvent(n) \/ Consent(n)
           \/ EngineStartsHelper(n) \/ EngineEnds(n) \/ EngineLosesHelper(n) \/ Cleanup(n)
  <2>1. OnlyJob /\ reapFailure' = reapFailure
    BY <1>6 DEF Acquire, Publish, ClearEvent, Consent, EngineStartsHelper, EngineEnds,
       EngineLosesHelper, Cleanup, leaseVars, Gate!TryAcquire, Gate!StartHelper,
       Gate!ReapHelper, Gate!Release
  <2>2. /\ main' = main /\ returns' = returns /\ UNCHANGED timerVars /\ blocked' = blocked
    BY <2>1 DEF OnlyJob, queueVars, modeVars
  <2>3. job'[n].step # "return_blocked"
    <3>1. CASE Acquire(n) BY <1>1, <3>1 DEF Acquire, JobRecord
    <3>2. CASE Publish(n) BY <1>1, <3>2 DEF Publish, JobRecord
    <3>3. CASE ClearEvent(n) BY <1>1, <3>3 DEF ClearEvent, JobRecord
    <3>4. CASE Consent(n) BY <1>1, <3>4 DEF Consent, JobRecord
    <3>5. CASE EngineStartsHelper(n) BY <3>5 DEF EngineStartsHelper
    <3>6. CASE EngineEnds(n) BY <1>1, <3>6 DEF EngineEnds, JobRecord
    <3>7. CASE EngineLosesHelper(n) BY <1>1, <3>7 DEF EngineLosesHelper, JobRecord
    <3>8. CASE Cleanup(n) BY <1>1, <3>8 DEF Cleanup, JobRecord
    <3>9. QED BY <1>6, <3>1, <3>2, <3>3, <3>4, <3>5, <3>6, <3>7, <3>8
  <2>4. Blocking' \subseteq Blocking
    BY <1>4, <2>3 DEF Blocking
  <2>5. QED BY <1>1, <2>1, <2>2, <2>4, NoNewReturns, NoNews
<1>7. CASE MarkUnreaped(n)
  <2>1. /\ "background" \in Owners /\ held["background"] # None
        /\ reapFailure' = held["background"]
    BY <1>7 DEF MarkUnreaped, Gate!MarkReapFailure, Owners
  <2>2. reapFailure = None
    BY <2>1 DEF SystemCore, Gate!GateInv, Gate!HeldLeaseOwns
  <2>3. source = 0 /\ ~startPoll /\ BlockedReturns = {} /\ main.at # "recover" /\ ~blocked
    BY <1>1, <1>5, <2>2 DEF NewsIsInOnePlace, QueueInv, BlockedIsQuiet
  <2>4. /\ main' = main /\ returns' = returns /\ blocked' = blocked
        /\ source' = source /\ startPoll' = startPoll
    BY <1>7 DEF MarkUnreaped, OnlyJob, queueVars, modeVars, timerVars
  <2>5. BlockedReturns' = {}
    BY <2>3, <2>4 DEF BlockedReturns
  <2>6. NewsIsInOnePlace'
    BY <1>1, <2>1, <2>3, <2>4, <2>5 DEF NewsIsInOnePlace
  <2>7. BlockedQueueIsWatched'
    BY <2>3, <2>4 DEF BlockedQueueIsWatched
  <2>8. QED BY <2>6, <2>7
<1>8. CASE Return(n)
  <2>1. /\ job' = [job EXCEPT ![n].step = "done"]
        /\ UNCHANGED <<leaseVars, main, timerVars>>
    BY <1>8 DEF Return
  <2>2. ~blocked
    BY <1>1, <1>5 DEF QueueInv, BlockedIsQuiet
  <2>3. CASE FinishAccepted(job[n].request)
    <3>1. /\ blocked' = blocked
          /\ returns' = Append(returns, [dispatch |-> Dispatched, blocked |-> blocked'])
      BY <1>8, <2>3 DEF Return, Finish, Post
    <3>2. \E d : returns' = Append(returns, [dispatch |-> d, blocked |-> blocked'])
      BY <3>1
    <3>3. QED BY <2>1, <2>2, <3>1, <3>2, QuietReturn
  <2>4. CASE ~FinishAccepted(job[n].request)
    <3>1. blocked' = blocked /\ returns' = returns
      BY <1>8, <2>4 DEF Return, Post, queueVars, modeVars
    <3>2. QED BY <2>1, <3>1, QuietReturn
  <2>5. QED BY <2>3, <2>4
<1>9. CASE ReturnBlocked(n)
  <2>1. /\ job' = [job EXCEPT ![n].step = "done"]
        /\ UNCHANGED <<leaseVars, main, timerVars>>
    BY <1>9 DEF ReturnBlocked
  <2>2. CASE BlockAccepted(job[n].request)
    <3>1. blocked' /\ returns' = Append(returns, [dispatch |-> Dispatched, blocked |-> blocked'])
      BY <1>9, <2>2 DEF ReturnBlocked, FinishBlockedReapFailure, EnterBlock, Post
    <3>2. /\ reapFailure # None /\ source = 0 /\ ~startPoll /\ BlockedReturns = {}
          /\ job[n].step = "return_blocked" /\ main.at # "recover"
      BY <1>9 DEF ReturnBlocked, NewsIsInOnePlace
    <3>3. PICK d, post : /\ returns' = Append(returns, post)
                         /\ post = [dispatch |-> d, blocked |-> blocked']
      BY <3>1
    <3>4. post.dispatch = d /\ post.blocked
      BY <3>1, <3>3
    <3> DEFINE len == Len(returns)
    <3>5. /\ len \in Nat /\ DOMAIN returns = 1..len /\ DOMAIN returns' = 1..len + 1
          /\ \A i \in 1..len : returns'[i] = returns[i]
          /\ returns'[len + 1].blocked
      BY <1>1, <3>3, <3>4, AppendedReturn, TicketsAreRequests
    <3> HIDE DEF len
    <3>6. len + 1 \in DOMAIN returns' /\ \A i \in BlockedReturns' : i = len + 1
      <4>1. \A i : i \in 1..len + 1 <=> i \in 1..len \/ i = len + 1
        BY <3>5
      <4>2. QED BY <3>2, <3>5, <4>1 DEF BlockedReturns
    <3>7. reapFailure' = reapFailure /\ main' = main /\ UNCHANGED timerVars
      BY <2>1 DEF leaseVars
    <3>8. \A m \in Jobs : job'[m].step # "return_blocked"
      BY <1>1, <1>4, <2>1 DEF JobRecord
    <3>9. NewsIsInOnePlace'
      BY <1>1, <3>2, <3>6, <3>7, <3>8 DEF NewsIsInOnePlace, timerVars
    <3>10. BlockedQueueIsWatched'
      BY <3>2, <3>5, <3>6, <3>7 DEF BlockedQueueIsWatched
    <3>11. QED BY <3>9, <3>10
  <2>3. CASE ~BlockAccepted(job[n].request)
    <3>1. blocked' = blocked /\ returns' = returns
      BY <1>9, <2>3 DEF ReturnBlocked, Post, queueVars, modeVars
    <3>2. QED BY <2>1, <3>1, QuietReturn
  <2>4. QED BY <2>2, <2>3
<1>10. QED BY <1>6, <1>7, <1>8, <1>9 DEF JobStep

(* The program is never restarted: once it is shut down it stays so. *)
LEMMA ShutdownStays ==
  ASSUME SystemCore, [Next]_vars PROVE shutdown => shutdown'
<1>1. QueueInv
  BY SMTT(30) DEF SystemCore, WorkersInv
<1>2. ASSUME NEW n \in Jobs, JobStep(n) PROVE shutdown => shutdown'
  BY <1>2 DEF JobStep, Acquire, Publish, ClearEvent, Consent, EngineStartsHelper, EngineEnds,
     EngineLosesHelper, MarkUnreaped, Cleanup, Return, ReturnBlocked, OnlyJob, Finish,
     FinishBlockedReapFailure, queueVars, modeVars
<1>3. CASE UserStep
  <2>1. CASE \E s \in Servers : Download(s)
    BY <2>1 DEF Download, Enqueue, modeVars
  <2>2. CASE \E resolvable \in SUBSET Servers : RetryFailed(resolvable)
    BY <2>2 DEF RetryFailed, Retry, EnqueueRetryBatch, modeVars
  <2>3. CASE ActionClicked \/ StartJoin \/ StartRepair
    BY <2>3 DEF ActionClicked, StartJoin, StartRepair, queueVars, modeVars
  <2>4. CASE Quit
    BY <2>4 DEF Quit, Shutdown
  <2>5. QED BY <1>3, <2>1, <2>2, <2>3, <2>4 DEF UserStep
<1>4. CASE MainStep
  <2>1. CASE StartRequest \/ StartRequestFails \/ Resume
    BY <2>1 DEF StartRequest, AttachController, StartRequestFails, Finish, Resume,
       ClearReapBlock, queueVars, modeVars
  <2>2. CASE ActionCancels \/ ActionCancelsBlocked \/ ActionCloses
    BY <2>2 DEF ActionCancels, CancelAll, ActionCancelsBlocked, CancelBlockedPending,
       ActionCloses, ClearCompletedBatch, queueVars, modeVars
  <2>3. CASE /\ MainStep
             /\ ~StartRequest /\ ~StartRequestFails /\ ~Resume
             /\ ~ActionCancels /\ ~ActionCancelsBlocked /\ ~ActionCloses
    BY <2>3 DEF MainStep, WorkerReturned, Signal, SetEvent, PollTick, RecoverConfirm,
       RecoverClear, StartPoll, QuitRecover, CleanupJoinAttempt, queueVars, modeVars
  <2>4. QED BY <1>4, <2>1, <2>2, <2>3
<1>5. CASE OrphanExits \/ UNCHANGED vars \/ \E o \in Others : OtherStep(o)
  BY <1>5 DEF OrphanExits, vars, OtherStep, OtherHelper, OtherReleases, OtherLosesHelper,
     queueVars, modeVars
<1>6. QED BY <1>2, <1>3, <1>4, <1>5 DEF Next

(* The news stays in one place, and a blocked queue watched. *)
LEMMA NewsStep ==
  ASSUME NewsInv, [Next]_vars PROVE NewsInv'
<1>1. SystemCore /\ SystemCore'
  BY SystemKeeps DEF NewsInv
<1>2. Gate!TypeOK'
  BY <1>1 DEF SystemCore, Gate!GateInv
<1>3. shutdown' => NewsInv'
  BY <1>1 DEF NewsInv, WatchInv, BlockedQueueIsWatched
<1>4. ~shutdown' => ~shutdown
  BY <1>1, ShutdownStays
<1>5. ASSUME ~shutdown' PROVE NewsIsInOnePlace' /\ BlockedQueueIsWatched'
  <2>1. NewsIsInOnePlace /\ BlockedQueueIsWatched /\ ~shutdown /\ ~shutdown' /\ SystemCore
    BY <1>1, <1>4, <1>5 DEF NewsInv, WatchInv
  <2>2. CASE UserStep BY <2>1, <2>2, UserNews
  <2>3. CASE MainStep BY <2>1, <2>3, MainNews
  <2>4. ASSUME NEW n \in Jobs, JobStep(n) PROVE NewsIsInOnePlace' /\ BlockedQueueIsWatched'
    BY <1>2, <2>1, <2>4, JobNews
  <2>5. ASSUME NEW o \in Others, OtherStep(o) PROVE NewsIsInOnePlace' /\ BlockedQueueIsWatched'
    BY <2>1, <2>5, OtherNews
  <2>6. CASE OrphanExits \/ UNCHANGED vars
    <3>1. /\ UNCHANGED <<queueVars, workerVars, main, timerVars>> /\ reapFailure' = reapFailure
      BY <2>6 DEF OrphanExits, Gate!OrphanExits, vars, leaseVars
    <3>2. job' = job /\ returns' = returns /\ blocked' = blocked /\ main' = main
      BY <3>1 DEF workerVars, queueVars, modeVars
    <3>3. Blocking' \subseteq Blocking /\ main.at # "quit_recover"
      BY <2>1, <3>2 DEF Blocking, NewsIsInOnePlace
    <3>4. QED BY <2>1, <3>1, <3>2, <3>3, NoNewReturns, NoNews
  <2>7. QED BY <2>2, <2>3, <2>4, <2>5, <2>6 DEF Next
<1>6. QED BY <1>1, <1>3, <1>5 DEF NewsInv, WatchInv

LEMMA NewsStarts ==
  ASSUME Init PROVE NewsInv
<1>1. SystemCore
  BY SystemStarts
<1>2. /\ returns = <<>> /\ source = 0 /\ ~startPoll /\ main.at = "idle"
      /\ \A n \in Jobs : job[n].step = "none"
  BY DEF Init, Free
<1>3. ~blocked /\ BlockedReturns = {}
  BY <1>2 DEF Init, QueueInit, BlockedReturns
<1>4. NewsIsInOnePlace
  BY <1>2, <1>3 DEF NewsIsInOnePlace
<1>5. QED BY <1>1, <1>3, <1>4 DEF NewsInv, WatchInv, BlockedQueueIsWatched

(* Every variable of the system has its type, and the news of a lost helper
   is in one place: for any servers, number of requests and leases, and any
   Joins and repairs beside the queue.                                    *)
THEOREM SystemInvariant == Spec => []SystemInv
<1>1. Init => NewsInv
  BY NewsStarts
<1>2. NewsInv /\ [Next]_vars => NewsInv'
  BY NewsStep
<1>3. NewsInv => SystemInv
  BY DEF NewsInv, SystemCore, WorkersInv, QueueInv, Gate!GateInv, SystemInv, SystemTypeOK
<1>4. QED BY <1>1, <1>2, <1>3, PTL DEF Spec

(* A blocked queue is never forgotten: a worker that lost its helper, its
   return, the callback that arms the timer and the timer itself pass the
   news on, and nothing drops it but the recovery that ends the failure.  *)
THEOREM BlockedQueuesAreWatched == Spec => []BlockedQueueIsWatched
<1>1. SystemInv => BlockedQueueIsWatched
  BY DEF SystemInv
<1>2. QED BY <1>1, SystemInvariant, PTL

==============================================================================
