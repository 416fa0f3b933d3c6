--------------------------- MODULE UGCSessionProofs ---------------------------
(***************************************************************************)
(* What the session of UGCSession owns and when it may say that it owns    *)
(* nothing any more; that nothing is left over between its commands; and   *)
(* that a session in which nothing goes wrong ends without a complaint;    *)
(* for every number of request ids and every set of faults.  The first     *)
(* rests on the inductive invariant IInv, the second on Conversation as    *)
(* well, the third on both and on HealthyInv.                              *)
(***************************************************************************)
EXTENDS UGCSession, SequenceTheorems, NaturalsInduction, WellFoundedInduction, TLAPS

(* The request ids that what has begun may still need. *)
IdsLeft ==
  /\ call.at = "starting" => ses.nextId + 3 =< MaxId
  /\ call.at = "running" /\ call.cancelId = NoId => ses.nextId + 2 =< MaxId
  /\ helper.at # "none" /\ ~ses.closed => ses.nextId + 1 =< MaxId

(* Before the helper is started there is nothing to read or to clean up. *)
NothingYet ==
  helper.at = "none" =>
    ses.tempClean /\ pipe = <<>> /\ queue = <<>> /\ shut.at = "none"

(* Commands and the shutdown exclude one another, and a shutdown has closed
   stdin and has not released anything yet.                                *)
OneAtATime ==
  /\ ses.closed => call.at = "none"
  /\ shut.at # "none" => ses.closed /\ ses.stdinClosed /\ ~ses.released
  /\ shut.at = "joining" => Dead

(* What released stands for. *)
ReleasedOwnsNothing ==
  ses.released =>
    /\ ses.closed /\ ses.tempClean /\ ~Alive
    /\ Dead => readerDone /\ ses.stdinClosed /\ ses.pipesClosed

(* An announced directory counts as clean only once a dead helper's has
   been removed.                                                           *)
CleanMeansRemoved == ses.tempKnown /\ ses.tempClean => Dead /\ ~tempDir

(* What the closers were told, and what is kept for the next one. *)
OutcomesHold ==
  /\ \A c \in Closers :
       /\ closer[c] = "ok" => ses.released
       /\ closer[c] = "error" => Dead
       /\ closer[c] \notin {"open", "asked"} => ses.closed
  /\ ses.teardown = "error" => Dead
  /\ ses.closed /\ ~ses.released /\ shut.at = "none" => ses.teardown # "none"

IInv == /\ TypeOK /\ IdsLeft /\ NothingYet /\ OneAtATime
        /\ ReleasedOwnsNothing /\ CleanMeansRemoved /\ OutcomesHold

-----------------------------------------------------------------------------
LEMMA MaxIdNat == MaxId \in Nat
  BY HelperAssumption DEF HelperAssumption

LEMMA EvTyped ==
  ASSUME NEW id \in Ids, NEW ok \in BOOLEAN,
         NEW type \in {"starting", "waiting", "ready", "accepted", "item", "result", "ack",
                       "recoverable", "fatal", "complete", "error", "eof"}
  PROVE  Ev(type, id, ok) \in Event
  BY DEF Ev, Event

(* Saying one thing keeps the pipe a sequence of events. *)
LEMMA EmitTyped ==
  ASSUME pipe \in Seq(Event), NEW e \in Event, Emit(<<e>>)
  PROVE  pipe' \in Seq(Event)
  <1>1. <<e>> \in Seq(Event)
    OBVIOUS
  <1> QED
    BY <1>1, ConcatProperties DEF Emit

LEMMA ReadTyped ==
  ASSUME commands \in Seq(Message), NEW cmd, Read(cmd)
  PROVE  /\ Head(commands) \in Message /\ commands' \in Seq(Message)
         /\ Head(commands).id \in Ids
  <1>1. Head(commands) \in Message /\ Tail(commands) \in Seq(Message)
    BY HeadTailProperties DEF Read
  <1> QED
    BY <1>1 DEF Read, Message

(* The helper's steps keep its types; only a running helper takes one, and
   it never becomes one that was not started.                              *)
LEMMA HelperStepTyped ==
  ASSUME HelperTypeOK, HelperStep
  PROVE  HelperTypeOK' /\ Alive /\ helper'.at # "none"
  <1> USE DEF HelperTypeOK, Alive, HelperSteps, Dead
  <1>0. NoId \in Ids /\ helper.id \in Ids /\ helper.stop \in Ids
    BY MaxIdNat DEF NoId, Ids
  <1>1. CASE Announce
    BY <1>0, <1>1, EvTyped, EmitTyped DEF Announce
  <1>2. CASE FailStart
    BY <1>2 DEF FailStart
  <1>3. CASE KeepWaiting
    <2>1. 0 \in 0..1
      OBVIOUS
    <2>2. Ev("waiting", NoId, TRUE) \in Event
      BY <1>0, EvTyped
    <2> QED
      BY <1>3, <2>1, <2>2, EmitTyped DEF KeepWaiting
  <1>4. CASE SteamReady
    BY <1>0, <1>4, EvTyped, EmitTyped DEF SteamReady
  <1>5. CASE Accept
    <2>1. PICK kind \in Kinds :
            /\ Read(kind)
            /\ helper' = [helper EXCEPT !.at = "busy", !.id = Head(commands).id,
                                        !.kind = kind, !.items = 1]
      BY <1>5 DEF Accept
    <2>2. Head(commands).id \in Ids /\ commands' \in Seq(Message)
      BY <2>1, ReadTyped
    <2>3. Ev("accepted", Head(commands).id, TRUE) \in Event
      BY <2>2, EvTyped
    <2>4. pipe' \in Seq(Event)
      BY <1>5, <2>3, EmitTyped DEF Accept
    <2>5. 1 \in 0..1
      OBVIOUS
    <2> QED
      BY <1>5, <2>1, <2>2, <2>4, <2>5 DEF Accept
  <1>6. CASE CancelNothing
    BY <1>0, <1>6, EvTyped, EmitTyped, ReadTyped DEF CancelNothing
  <1>7. CASE ReportItem
    <2>1. helper.items \in 0..1 /\ helper.items > 0
      BY <1>7 DEF ReportItem
    <2>2. helper.items - 1 \in 0..1
      BY <2>1
    <2>3. Ev("item", helper.id, TRUE) \in Event
      BY <1>0, EvTyped
    <2> QED
      BY <1>7, <2>2, <2>3, EmitTyped DEF ReportItem
  <1>8. ASSUME NEW ok \in BOOLEAN, Complete(ok) PROVE HelperTypeOK' /\ Alive /\ helper'.at # "none"
    BY <1>0, <1>8, EvTyped, EmitTyped DEF Complete
  <1>9. CASE Control
    BY <1>0, <1>9, EvTyped, EmitTyped, ReadTyped DEF Control, Listening
  <1>10. CASE CancelledResult
    BY <1>0, <1>10, EvTyped, EmitTyped DEF CancelledResult
  <1>11. CASE TakeShutdown
    BY <1>0, <1>11, EvTyped, EmitTyped, ReadTyped DEF TakeShutdown, Listening
  <1>12. CASE TakeEof
    BY <1>0, <1>12, EvTyped, EmitTyped, ReadTyped DEF TakeEof, Listening
  <1>13. CASE FailCommand
    BY <1>0, <1>13, EvTyped, EmitTyped DEF FailCommand
  <1>14. ASSUME NEW steamDown \in BOOLEAN, NEW removed \in BOOLEAN, ShutDown(steamDown, removed)
         PROVE  HelperTypeOK' /\ Alive /\ helper'.at # "none"
    BY <1>0, <1>14, EvTyped, EmitTyped DEF ShutDown
  <1>15. CASE ReportError
    BY <1>0, <1>15, EvTyped, EmitTyped DEF ReportError
  <1>16. CASE Exit
    BY <1>16 DEF Exit
  <1>17. CASE Die
    BY <1>17 DEF Die
  <1> QED
    BY <1>1, <1>2, <1>3, <1>4, <1>5, <1>6, <1>7, <1>8, <1>9, <1>10, <1>11, <1>12,
       <1>13, <1>14, <1>15, <1>16, <1>17 DEF HelperStep

-----------------------------------------------------------------------------
(* Decoding touches none of the fields that say what has been released. *)
Untouched(s, t) ==
  /\ t.nextId = s.nextId /\ t.closed = s.closed /\ t.stdinClosed = s.stdinClosed
  /\ t.pipesClosed = s.pipesClosed /\ t.released = s.released /\ t.teardown = s.teardown
  /\ t.tempKnown /\ t.tempClean => s.tempKnown /\ s.tempClean

LEMMA DecodedAllTyped ==
  ASSUME NEW s \in SessionFields, NEW events
  PROVE  DecodedAll(s, events) \in SessionFields /\ Untouched(s, DecodedAll(s, events))
  <1> DEFINE some(types) == \E e \in events : e.type \in types
  <1> DEFINE known == some({"starting"})
  <1> DEFINE ready == some({"ready"})
  <1> DEFINE fatal == some({"eof", "fatal"})
  <1>1. DecodedAll(s, events) =
          [s EXCEPT !.tempKnown = @ \/ known, !.tempClean = @ /\ ~known,
                    !.ready = @ \/ ready, !.fatal = @ \/ fatal]
    BY DEF DecodedAll
  <1>2. known \in BOOLEAN /\ ready \in BOOLEAN /\ fatal \in BOOLEAN
    OBVIOUS
  <1> HIDE DEF known, ready, fatal
  <1> QED
    BY <1>1, <1>2 DEF SessionFields, Untouched

LEMMA DecodedTyped ==
  ASSUME NEW s \in SessionFields, NEW e
  PROVE  Decoded(s, e) \in SessionFields /\ Untouched(s, Decoded(s, e))
  BY DecodedAllTyped DEF Decoded

LEMMA FailingTyped ==
  ASSUME TypeOK, NEW s \in SessionFields, Failing(s)
  PROVE  /\ ses' \in SessionFields /\ Untouched(s, ses')
         /\ call' = NoCall /\ call' \in Calls
  <1>1. call.id \in Ids /\ NoId \in Ids
    BY MaxIdNat DEF TypeOK, Calls, Ids, NoId
  <1>2. s.abandoned \cup ({call.id} \ {NoId}) \in SUBSET Ids
    BY <1>1 DEF SessionFields
  <1> QED
    BY <1>1, <1>2 DEF Failing, SessionFields, Untouched, NoCall, Calls

(* A step of run_command: the session is not closed, before and after. *)
LEMMA CallFrame ==
  ASSUME IInv, TypeOK', IdsLeft', NothingYet',
         UNCHANGED <<closer, shut, readerDone, tempDir>>,
         ~ses.closed, ses'.closed = ses.closed, ses'.released = ses.released,
         ses'.teardown = ses.teardown,
         ses'.tempKnown /\ ses'.tempClean => ses.tempKnown /\ ses.tempClean,
         Dead => Dead'
  PROVE  IInv'
  <1>1. ~ses.released /\ ~ses'.released /\ ~ses'.closed /\ shut.at = "none"
    BY DEF IInv, ReleasedOwnsNothing, OneAtATime, TypeOK, SessionFields
  <1>2. OneAtATime' /\ ReleasedOwnsNothing'
    BY <1>1 DEF OneAtATime, ReleasedOwnsNothing
  <1>3. CleanMeansRemoved'
    BY DEF IInv, CleanMeansRemoved
  <1>4. OutcomesHold'
    BY <1>1 DEF IInv, OutcomesHold
  <1> QED
    BY <1>2, <1>3, <1>4 DEF IInv

LEMMA NextIdNat ==
  ASSUME ses \in SessionFields
  PROVE  ses.nextId \in Nat /\ (ses.nextId + 1 =< MaxId => ses.nextId + 1 \in Ids)
  <1>1. ses.nextId \in Ids
    BY DEF SessionFields
  <1> QED
    BY <1>1, MaxIdNat DEF Ids, NoId

LEMMA AppendMessageTyped ==
  ASSUME commands \in Seq(Message), NEW id \in Ids, NEW target \in Ids,
         NEW cmd \in Kinds \cup {"cancel", "shutdown", "eof"}
  PROVE  Append(commands, [cmd |-> cmd, id |-> id, target |-> target]) \in Seq(Message)
  <1>1. [cmd |-> cmd, id |-> id, target |-> target] \in Message
    BY DEF Message
  <1> QED
    BY <1>1, AppendProperties

LEMMA TakeTyped ==
  ASSUME TypeOK, Take
  PROVE  queue' \in Seq(Event) /\ Head(queue) \in Event
  BY HeadTailProperties DEF TypeOK, Take

LEMMA CallStepKeeps ==
  ASSUME IInv, CallStep
  PROVE  IInv'
  <1> USE DEF OnlyCall, NoTraffic, helperVars
  <1>0. /\ TypeOK /\ IdsLeft /\ NothingYet /\ OneAtATime
        /\ HelperTypeOK /\ ses \in SessionFields /\ call \in Calls
        /\ NoId \in Ids /\ NoCall \in Calls
    BY MaxIdNat DEF IInv, TypeOK, Calls, NoCall, Ids, NoId
  <1>1. CASE CallBegin
    <2>1. helper' \in [at: HelperSteps, id: Ids, kind: Kinds, items: 0..1,
                       stop: Ids, raised: BOOLEAN, clean: BOOLEAN]
      BY <1>0, <1>1 DEF CallBegin, HelperTypeOK, HelperSteps
    <2>2. HelperTypeOK'
      BY <1>0, <1>1, <2>1 DEF CallBegin, HelperTypeOK
    <2>3. call' \in Calls /\ call'.at = "starting" /\ call'.cancelId = NoId
      BY <1>0, <1>1 DEF CallBegin, Calls, NoCall
    <2>4. TypeOK'
      BY <1>0, <1>1, <2>2, <2>3 DEF CallBegin, TypeOK
    <2>5. ses.nextId \in Nat
      BY <1>0, NextIdNat
    <2>6. IdsLeft'
      BY <1>1, <2>3, <2>5, MaxIdNat DEF CallBegin, IdsLeft
    <2>7. helper'.at # "none" /\ (Dead => Dead')
      BY <1>0, <1>1 DEF CallBegin, Dead, HelperTypeOK
    <2>8. NothingYet'
      BY <2>7 DEF NothingYet
    <2> QED
      BY <1>1, <2>4, <2>6, <2>7, <2>8, CallFrame DEF CallBegin
  <1>2. CASE WaitStops
    <2>1. TypeOK'
      BY <1>0, <1>2 DEF WaitStops, TypeOK, HelperTypeOK
    <2>2. IdsLeft' /\ NothingYet' /\ ~ses.closed /\ (Dead => Dead')
      BY <1>0, <1>2 DEF WaitStops, IdsLeft, NothingYet, NoCall, OneAtATime, Dead
    <2> QED
      BY <1>2, <2>1, <2>2, CallFrame DEF WaitStops
  <1>3. CASE WaitEvent
    <2>1. queue' \in Seq(Event) /\ queue # <<>>
      BY <1>0, <1>3, TakeTyped DEF WaitEvent, Take
    <2>2. ses' \in SessionFields /\ Untouched(ses, ses') /\ call' \in {call, NoCall}
      <3> DEFINE e == Head(queue)
      <3> DEFINE d == Decoded(ses, e)
      <3>1. d \in SessionFields /\ Untouched(ses, d)
        BY <1>0, DecodedTyped
      <3> HIDE DEF d
      <3>2. CASE ses' = d /\ UNCHANGED call
        BY <3>1, <3>2
      <3>3. CASE Failing([d EXCEPT !.startup = StartupError(e)])
        <4> DEFINE f == [d EXCEPT !.startup = StartupError(e)]
        <4>1. StartupError(e) \in StartupErrors
          BY DEF StartupError, StartupErrors
        <4>2. f \in SessionFields /\ Untouched(ses, f)
          BY <3>1, <4>1 DEF SessionFields, Untouched
        <4> HIDE DEF f
        <4> QED
          BY <1>0, <3>3, <4>2, FailingTyped DEF Untouched, f
      <3> QED
        BY <1>3, <3>2, <3>3 DEF WaitEvent, d
    <2>3. TypeOK'
      BY <1>0, <1>3, <2>1, <2>2 DEF WaitEvent, TypeOK, HelperTypeOK
    <2>4. IdsLeft' /\ NothingYet' /\ ~ses.closed /\ (Dead => Dead')
      BY <1>0, <1>3, <2>1, <2>2 DEF WaitEvent, IdsLeft, NothingYet, NoCall, OneAtATime,
         Dead, Untouched
    <2> QED
      BY <1>3, <2>2, <2>3, <2>4, CallFrame DEF WaitEvent, Untouched
  <1>4. ASSUME Failing(ses), UNCHANGED <<helperVars, queue>>, OnlyCall, call.at # "none"
        PROVE  IInv'
    <2>1. ses' \in SessionFields /\ Untouched(ses, ses') /\ call' = NoCall
      BY <1>0, <1>4, FailingTyped
    <2>2. TypeOK'
      BY <1>0, <1>4, <2>1 DEF TypeOK, HelperTypeOK
    <2>3. IdsLeft' /\ ~ses.closed /\ (Dead => Dead')
      BY <1>0, <1>4, <2>1 DEF IdsLeft, NoCall, OneAtATime, Dead, Untouched
    <2>4. ses'.tempClean = ses.tempClean
      BY <1>0, <1>4 DEF Failing, SessionFields
    <2>5. NothingYet'
      BY <1>0, <1>4, <2>4 DEF NothingYet
    <2> QED
      BY <1>4, <2>1, <2>2, <2>3, <2>5, CallFrame DEF Untouched
  <1>5. CASE WaitFindsDead
    BY <1>4, <1>5 DEF WaitFindsDead
  <1>6. CASE GiveUpCancel
    BY <1>4, <1>6 DEF GiveUpCancel
  <1>7. CASE CallFindsDead
    BY <1>4, <1>7 DEF CallFindsDead
  <1>8. ASSUME NEW kind \in Kinds, SendCommand(kind) PROVE IInv'
    <2> DEFINE id == ses.nextId + 1
    <2>1. ses.nextId \in Nat /\ ses.nextId + 3 =< MaxId
      BY <1>0, <1>8, NextIdNat DEF SendCommand, IdsLeft
    <2>2. id \in Ids /\ id + 2 =< MaxId /\ id + 1 =< MaxId
      BY <1>0, <2>1, NextIdNat, MaxIdNat
    <2>3. ~ses.closed
      BY <1>0, <1>8 DEF SendCommand, OneAtATime
    <2> HIDE DEF id
    <2>4. CASE Alive
      <3>1. ses' \in SessionFields /\ Untouched([ses EXCEPT !.nextId = id], ses')
        BY <1>0, <1>8, <2>2, <2>4 DEF SendCommand, SessionFields, Untouched, id
      <3>2. call' \in Calls /\ call'.at = "running"
        BY <1>0, <1>8, <2>2, <2>4 DEF SendCommand, Calls, id
      <3>3. commands' \in Seq(Message)
        <4>1. Append(commands, [cmd |-> kind, id |-> id, target |-> NoId]) \in Seq(Message)
          BY <1>0, <2>2, AppendMessageTyped DEF HelperTypeOK
        <4> QED
          BY <1>8, <2>4, <4>1 DEF SendCommand, id
      <3>4. TypeOK'
        BY <1>0, <1>8, <3>1, <3>2, <3>3 DEF SendCommand, TypeOK, HelperTypeOK
      <3>5. ses'.nextId = id
        BY <1>0, <1>8, <2>4 DEF SendCommand, SessionFields, id
      <3>6. IdsLeft'
        BY <2>2, <3>2, <3>5 DEF IdsLeft
      <3>7. NothingYet' /\ (Dead => Dead')
        BY <1>8, <2>4 DEF NothingYet, SendCommand, Alive, Dead
      <3>8. Untouched([ses EXCEPT !.nextId = id], ses') =>
              /\ ses'.closed = ses.closed /\ ses'.released = ses.released
              /\ ses'.teardown = ses.teardown
              /\ ses'.tempKnown /\ ses'.tempClean => ses.tempKnown /\ ses.tempClean
        BY <1>0 DEF Untouched, SessionFields
      <3> QED
        BY <1>8, <2>3, <3>1, <3>4, <3>6, <3>7, <3>8, CallFrame DEF SendCommand
    <2>5. CASE ~Alive
      <3>1. /\ ses' = [ses EXCEPT !.nextId = id, !.fatal = TRUE, !.abandoned = @ \cup {id}]
            /\ call' = NoCall /\ UNCHANGED commands
        BY <1>8, <2>5 DEF SendCommand, id
      <3>2. ses.abandoned \cup {id} \in SUBSET Ids
        BY <1>0, <2>2 DEF SessionFields
      <3>3. /\ ses' \in SessionFields /\ ses'.nextId = id
            /\ ses'.closed = ses.closed /\ ses'.released = ses.released
            /\ ses'.teardown = ses.teardown
            /\ ses'.tempKnown = ses.tempKnown /\ ses'.tempClean = ses.tempClean
        BY <1>0, <2>2, <3>1, <3>2 DEF SessionFields
      <3>4. TypeOK'
        BY <1>0, <1>8, <3>1, <3>3 DEF SendCommand, TypeOK, HelperTypeOK
      <3>5. IdsLeft'
        BY <2>2, <3>1, <3>3 DEF IdsLeft, NoCall
      <3>6. NothingYet' /\ (Dead => Dead')
        BY <1>0, <1>8, <3>3 DEF NothingYet, SendCommand, Dead
      <3> QED
        BY <1>8, <2>3, <3>3, <3>4, <3>5, <3>6, CallFrame DEF SendCommand
    <2> QED
      BY <2>4, <2>5
  <1>9. CASE SendCancel
    <2> DEFINE id == ses.nextId + 1
    <2>1. ses.nextId \in Nat /\ ses.nextId + 2 =< MaxId
      BY <1>0, <1>9, NextIdNat DEF SendCancel, IdsLeft
    <2>2. id \in Ids /\ id + 1 =< MaxId /\ id # NoId
      BY <1>0, <2>1, NextIdNat, MaxIdNat DEF NoId
    <2>3. ~ses.closed /\ call.id \in Ids
      BY <1>0, <1>9 DEF SendCancel, OneAtATime, Calls
    <2> HIDE DEF id
    <2> DEFINE s == [ses EXCEPT !.nextId = id]
    <2>4. /\ s \in SessionFields /\ s.nextId = id
          /\ s.closed = ses.closed /\ s.released = ses.released
          /\ s.teardown = ses.teardown
          /\ s.tempKnown = ses.tempKnown /\ s.tempClean = ses.tempClean
      BY <1>0, <2>2 DEF SessionFields
    <2> HIDE DEF s
    <2>5. CASE Alive
      <3>1. ses' = s
        BY <1>9, <2>5 DEF SendCancel, s, id
      <3>2. call' \in Calls /\ call'.at = "running" /\ call'.cancelId # NoId
        BY <1>0, <1>9, <2>2, <2>5 DEF SendCancel, Calls, id
      <3>3. commands' \in Seq(Message)
        <4>1. Append(commands, [cmd |-> "cancel", id |-> id, target |-> call.id]) \in Seq(Message)
          BY <1>0, <2>2, <2>3, AppendMessageTyped DEF HelperTypeOK
        <4> QED
          BY <1>9, <2>5, <4>1 DEF SendCancel, CancelMessage, id
      <3>4. TypeOK'
        BY <1>0, <1>9, <2>4, <3>1, <3>2, <3>3 DEF SendCancel, TypeOK, HelperTypeOK
      <3>5. IdsLeft'
        BY <2>2, <2>4, <3>1, <3>2 DEF IdsLeft
      <3>6. NothingYet' /\ (Dead => Dead')
        BY <1>9, <2>5 DEF NothingYet, SendCancel, Alive, Dead
      <3> QED
        BY <1>9, <2>3, <2>4, <3>1, <3>4, <3>5, <3>6, CallFrame DEF SendCancel
    <2>6. CASE ~Alive
      <3>1. Failing(s) /\ UNCHANGED commands
        BY <1>9, <2>6 DEF SendCancel, s, id
      <3>2. ses' \in SessionFields /\ Untouched(s, ses') /\ call' = NoCall
        BY <1>0, <2>4, <3>1, FailingTyped
      <3>3. TypeOK'
        BY <1>0, <1>9, <3>1, <3>2 DEF SendCancel, TypeOK, HelperTypeOK
      <3>4. IdsLeft' /\ (Dead => Dead')
        BY <1>9, <2>2, <2>4, <3>2 DEF SendCancel, IdsLeft, NoCall, Dead, Untouched
      <3>5. ses'.tempClean = ses.tempClean
        BY <2>4, <3>1 DEF Failing, SessionFields
      <3>6. NothingYet'
        BY <1>0, <1>9, <3>5 DEF NothingYet, SendCancel
      <3> QED
        BY <1>9, <2>3, <2>4, <3>2, <3>3, <3>4, <3>6, CallFrame DEF SendCancel, Untouched
    <2> QED
      BY <2>5, <2>6
  <1>10. CASE CallEvent
    <2> DEFINE e == Head(queue)
    <2>1. queue' \in Seq(Event) /\ queue # <<>>
      BY <1>0, <1>10, TakeTyped DEF CallEvent, Take
    <2>2. \/ call' \in {NoCall, [call EXCEPT !.acked = TRUE], [call EXCEPT !.answered = TRUE],
                        [call EXCEPT !.accepted = TRUE], call} /\ ses' = ses
          \/ Failing(Decoded(ses, e))
      BY <1>10 DEF CallEvent
    <2>3. /\ ses' \in SessionFields /\ Untouched(ses, ses') /\ call' \in Calls
          /\ call'.at = "none" \/ (call'.at = call.at /\ call'.cancelId = call.cancelId)
      <3>1. CASE Failing(Decoded(ses, e))
        <4>1. Decoded(ses, e) \in SessionFields /\ Untouched(ses, Decoded(ses, e))
          BY <1>0, DecodedTyped
        <4>2. /\ ses' \in SessionFields /\ Untouched(Decoded(ses, e), ses')
              /\ call' = NoCall /\ call' \in Calls
          BY <1>0, <3>1, <4>1, FailingTyped
        <4> QED
          BY <4>1, <4>2 DEF Untouched, NoCall
      <3>2. CASE ses' = ses /\ call' \in {NoCall, [call EXCEPT !.acked = TRUE],
                 [call EXCEPT !.answered = TRUE], [call EXCEPT !.accepted = TRUE], call}
        BY <1>0, <3>2 DEF Calls, NoCall, Untouched
      <3> QED
        BY <2>2, <3>1, <3>2
    <2>4. TypeOK'
      BY <1>0, <1>10, <2>1, <2>3 DEF CallEvent, TypeOK, HelperTypeOK
    <2>5. IdsLeft' /\ NothingYet' /\ ~ses.closed /\ (Dead => Dead')
      BY <1>0, <1>10, <2>1, <2>3 DEF CallEvent, IdsLeft, NothingYet, OneAtATime, Dead, Untouched
    <2> QED
      BY <1>10, <2>3, <2>4, <2>5, CallFrame DEF CallEvent, Untouched
  <1> QED
    BY <1>1, <1>2, <1>3, <1>5, <1>6, <1>7, <1>8, <1>9, <1>10 DEF CallStep

-----------------------------------------------------------------------------
(* What Marked looks at. *)
Gone(s) ==
  /\ helper.at = "none" \/ (Dead /\ s.stdinClosed /\ s.pipesClosed /\ readerDone)
  /\ s.tempClean

LEMMA MarkedTyped ==
  ASSUME NEW s \in SessionFields
  PROVE  /\ Marked(s) \in SessionFields
         /\ Marked(s).nextId = s.nextId /\ Marked(s).closed = s.closed
         /\ Marked(s).stdinClosed = s.stdinClosed /\ Marked(s).pipesClosed = s.pipesClosed
         /\ Marked(s).tempKnown = s.tempKnown /\ Marked(s).tempClean = s.tempClean
         /\ Marked(s).teardown = s.teardown
         /\ Marked(s).released <=> s.released \/ Gone(s)
  <1>1. Marked(s) = [s EXCEPT !.released = @ \/ Gone(s)]
    BY DEF Marked, Gone
  <1>2. Gone(s) \in BOOLEAN
    BY DEF Gone
  <1> QED
    BY <1>1, <1>2 DEF SessionFields

(* Leaving a shutdown: with "ok" only when everything is gone, with "error"
   only when the process is.                                               *)
LEMMA LeaveKeeps ==
  ASSUME IInv, NEW s \in SessionFields, NEW o \in {"ok", "error", "reap"}, Leave(o, s),
         shut.at # "none", HelperTypeOK', queue' \in Seq(Event),
         UNCHANGED <<helper, call, readerDone, signal, userCancel>>,
         s.closed, s.stdinClosed, ~s.released, s.nextId = ses.nextId,
         s.tempKnown /\ s.tempClean => Dead /\ ~tempDir',
         o = "ok" => Dead /\ s.pipesClosed /\ readerDone /\ s.tempClean,
         o = "error" => Dead
  PROVE  IInv'
  <1> DEFINE teardown == IF o = "ok" THEN "none" ELSE o
  <1> DEFINE t == [s EXCEPT !.teardown = teardown]
  <1>0. TypeOK /\ HelperTypeOK /\ shut \in Shutdowns /\ helper.at # "none" /\ call.at = "none"
    BY DEF IInv, TypeOK, NothingYet, OneAtATime
  <1>1. /\ t \in SessionFields /\ t.teardown = teardown
        /\ t.nextId = s.nextId /\ t.closed = s.closed
        /\ t.stdinClosed = s.stdinClosed /\ t.pipesClosed = s.pipesClosed
        /\ t.tempKnown = s.tempKnown /\ t.tempClean = s.tempClean
        /\ t.released = s.released
    BY DEF SessionFields, Errors
  <1>2. ses' = Marked(t) /\ shut' = NotShutting /\ closer' = [closer EXCEPT ![shut.by] = o]
    BY DEF Leave
  <1> HIDE DEF t
  <1>3. /\ ses' \in SessionFields /\ ses'.teardown = teardown
        /\ ses'.nextId = ses.nextId /\ ses'.closed /\ ses'.stdinClosed
        /\ ses'.pipesClosed = s.pipesClosed
        /\ ses'.tempKnown = s.tempKnown /\ ses'.tempClean = s.tempClean
        /\ ses'.released <=> Gone(t)
    BY <1>1, <1>2, MarkedTyped
  <1>4. Gone(t) <=> Dead /\ s.pipesClosed /\ readerDone /\ s.tempClean
    BY <1>0, <1>1 DEF Gone
  <1>5. shut' \in Shutdowns /\ shut'.at = "none"
    BY <1>2, MaxIdNat DEF NotShutting, Shutdowns, Closers, Ids, NoId
  <1>6. closer' \in [Closers -> Closing]
    BY <1>0, <1>2 DEF TypeOK, Closing
  <1>7. TypeOK'
    BY <1>0, <1>3, <1>5, <1>6 DEF TypeOK
  <1>8. IdsLeft' /\ NothingYet' /\ OneAtATime'
    BY <1>0, <1>3, <1>5 DEF IdsLeft, NothingYet, OneAtATime
  <1>9. ReleasedOwnsNothing' /\ CleanMeansRemoved'
    BY <1>3, <1>4 DEF ReleasedOwnsNothing, CleanMeansRemoved, Dead, Alive
  <1>10. OutcomesHold'
    <2>1. \A c \in Closers : closer'[c] = o \/ closer'[c] = closer[c]
      BY <1>0, <1>2 DEF TypeOK
    <2>2. ~ses.released
      BY DEF IInv, OneAtATime
    <2>3. \A c \in Closers : closer[c] # "ok" /\ (closer[c] = "error" => Dead)
      BY <2>2 DEF IInv, OutcomesHold
    <2>4. o = "ok" => ses'.released
      BY <1>3, <1>4
    <2>5. Dead' = Dead
      BY DEF Dead
    <2>6. \A c \in Closers :
            /\ closer'[c] = "ok" => ses'.released
            /\ closer'[c] = "error" => Dead'
            /\ closer'[c] \notin {"open", "asked"} => ses'.closed
      BY <1>3, <2>1, <2>3, <2>4, <2>5
    <2>7. teardown = "error" => Dead'
      BY <2>5
    <2>8. ~ses'.released => teardown # "none"
      BY <2>4
    <2>9. ses'.teardown = "error" => Dead'
      BY <1>3, <2>7
    <2>10. ses'.closed /\ ~ses'.released /\ shut'.at = "none" => ses'.teardown # "none"
      BY <1>3, <2>8
    <2> HIDE DEF teardown
    <2> QED
      BY <2>6, <2>9, <2>10 DEF OutcomesHold
  <1> QED
    BY <1>7, <1>8, <1>9, <1>10 DEF IInv

(* Cleaning up behind a dead process: released once the readers are gone
   and the directory is removed, an error kept otherwise.                  *)
LEMMA FinalizedKeeps ==
  ASSUME IInv, shut.at = "none", Dead, ses.closed, ~ses.released,
         NEW removed \in BOOLEAN, Finalized(removed),
         NEW c \in Closers, NEW o \in {"ok", "error", "lifted"},
         o = "ok" => readerDone /\ removed,
         closer' = [closer EXCEPT ![c] = o],
         UNCHANGED <<helper, commands, pipe, queue, shut, call, readerDone, signal,
                     userCancel, faults>>,
         ses' = IF readerDone /\ removed
                THEN Marked([CleanTemp(Closed(ses), removed) EXCEPT !.teardown = "none"])
                ELSE [CleanTemp(Closed(ses), removed) EXCEPT !.teardown = "error"]
  PROVE  IInv'
  <1> DEFINE done == readerDone /\ removed
  <1> DEFINE t == [CleanTemp(Closed(ses), removed) EXCEPT
                     !.teardown = IF done THEN "none" ELSE "error"]
  <1>0. /\ TypeOK /\ HelperTypeOK /\ ses \in SessionFields /\ helper.at # "none"
        /\ call.at = "none"
    BY DEF IInv, TypeOK, Dead, OneAtATime
  <1>1. /\ t \in SessionFields /\ t.teardown = IF done THEN "none" ELSE "error"
        /\ t.nextId = ses.nextId /\ t.closed /\ t.stdinClosed /\ t.pipesClosed
        /\ t.tempKnown = ses.tempKnown
        /\ t.tempClean <=> ses.tempClean \/ removed
        /\ ~t.released
    BY ZenonT(60), <1>0 DEF SessionFields, CleanTemp, Closed, Errors
  <1>2. ses' = IF done THEN Marked(t) ELSE t
    OBVIOUS
  <1> HIDE DEF t
  <1>3. /\ ses' \in SessionFields /\ ses'.teardown = t.teardown
        /\ ses'.nextId = ses.nextId /\ ses'.closed /\ ses'.stdinClosed /\ ses'.pipesClosed
        /\ ses'.tempKnown = ses.tempKnown
        /\ ses'.tempClean <=> ses.tempClean \/ removed
        /\ ses'.released <=> done /\ Gone(t)
    BY ZenonT(60), <1>1, <1>2, MarkedTyped
  <1>4. done => Gone(t)
    BY <1>1 DEF Gone
  <1>5. ses'.released <=> done
    BY <1>3, <1>4
  <1>6. tempDir' = (tempDir /\ ~(ses.tempKnown /\ removed))
    BY DEF Finalized
  <1>7. closer' \in [Closers -> Closing]
    BY <1>0 DEF TypeOK, Closing
  <1>8. TypeOK'
    BY <1>0, <1>3, <1>6, <1>7 DEF TypeOK, HelperTypeOK
  <1>9. IdsLeft' /\ NothingYet' /\ OneAtATime'
    BY <1>0, <1>3 DEF IdsLeft, NothingYet, OneAtATime
  <1>10. ReleasedOwnsNothing'
    BY <1>3, <1>5 DEF ReleasedOwnsNothing, Dead, Alive
  <1>11. CleanMeansRemoved'
    <2>1. tempDir' => tempDir /\ ~(ses.tempKnown /\ removed)
      BY <1>6
    <2>2. Dead'
      BY DEF Dead
    <2> QED
      BY <1>3, <2>1, <2>2 DEF IInv, CleanMeansRemoved
  <1>12. OutcomesHold'
    <2>1. \A d \in Closers : closer'[d] = o \/ closer'[d] = closer[d]
      BY <1>0 DEF TypeOK
    <2>2. \A d \in Closers : closer[d] # "ok"
      BY DEF IInv, OutcomesHold
    <2>3. Dead'
      BY DEF Dead
    <2>4. \A d \in Closers : closer'[d] = "ok" => ses'.released
      BY <1>5, <2>1, <2>2
    <2>5. ~ses'.released => ses'.teardown # "none"
      BY <1>1, <1>3, <1>5
    <2> QED
      BY <1>3, <2>3, <2>4, <2>5 DEF OutcomesHold
  <1> QED
    BY <1>8, <1>9, <1>10, <1>11, <1>12 DEF IInv

LEMMA AskCloseKeeps ==
  ASSUME IInv, NEW c \in Closers, AskClose(c)
  PROVE  IInv'
  <1> USE DEF helperVars
  <1>1. /\ ses' \in SessionFields /\ ses'.nextId = ses.nextId /\ ses'.closed = ses.closed
        /\ ses'.stdinClosed = ses.stdinClosed /\ ses'.pipesClosed = ses.pipesClosed
        /\ ses'.released = ses.released /\ ses'.teardown = ses.teardown
        /\ ses'.tempKnown = ses.tempKnown /\ ses'.tempClean = ses.tempClean
    BY DEF AskClose, IInv, TypeOK, SessionFields
  <1>2. closer' \in [Closers -> Closing]
    BY DEF AskClose, IInv, TypeOK, Closing
  <1>3. TypeOK'
    BY <1>1, <1>2 DEF AskClose, IInv, TypeOK, HelperTypeOK
  <1>4. IdsLeft' /\ NothingYet' /\ OneAtATime'
    BY <1>1 DEF AskClose, IInv, IdsLeft, NothingYet, OneAtATime, Dead
  <1>5. ReleasedOwnsNothing' /\ CleanMeansRemoved'
    BY <1>1 DEF AskClose, IInv, ReleasedOwnsNothing, CleanMeansRemoved, Dead, Alive
  <1>6. \A d \in Closers : closer'[d] = closer[d] \/ closer'[d] = "asked"
    BY DEF AskClose, IInv, TypeOK
  <1>7. OutcomesHold'
    BY <1>1, <1>6 DEF AskClose, IInv, OutcomesHold, Dead
  <1> QED
    BY <1>3, <1>4, <1>5, <1>7 DEF IInv

LEMMA CloseBeginKeeps ==
  ASSUME IInv, NEW c \in Closers, CloseBegin(c)
  PROVE  IInv'
  <1> USE DEF OnlyClose, NoLock, RequestLockFree
  <1>0. /\ TypeOK /\ HelperTypeOK /\ ses \in SessionFields /\ NoId \in Ids
        /\ call.at = "none" /\ shut.at = "none" /\ ~ses.closed /\ ~ses.released
        /\ UNCHANGED <<helper, tempDir, pipe, queue, call, readerDone, userCancel, signal, faults>>
    BY MaxIdNat DEF CloseBegin, IInv, TypeOK, Ids, NoId
  <1> DEFINE begun == [ses EXCEPT !.closed = TRUE]
  <1>1. CASE /\ helper.at = "none"
             /\ ses' = Marked(begun) /\ closer' = [closer EXCEPT ![c] = "ok"]
             /\ UNCHANGED <<shut, commands>>
    <2>1. /\ begun \in SessionFields /\ begun.closed /\ begun.nextId = ses.nextId
          /\ begun.tempKnown = ses.tempKnown /\ begun.tempClean = ses.tempClean
          /\ begun.teardown = ses.teardown
      BY <1>0 DEF SessionFields
    <2>2. ses.tempClean
      BY <1>1 DEF IInv, NothingYet
    <2>3. Gone(begun)
      BY <1>1, <2>1, <2>2 DEF Gone
    <2> HIDE DEF begun
    <2>4. /\ ses' \in SessionFields /\ ses'.released /\ ses'.closed /\ ses'.nextId = ses.nextId
          /\ ses'.tempKnown = ses.tempKnown /\ ses'.tempClean = ses.tempClean
          /\ ses'.teardown = ses.teardown
      BY <1>1, <2>1, <2>3, MarkedTyped
    <2>5. closer' \in [Closers -> Closing]
      BY <1>0, <1>1 DEF TypeOK, Closing
    <2>6. TypeOK'
      BY <1>0, <1>1, <2>4, <2>5 DEF TypeOK, HelperTypeOK
    <2>7. IdsLeft' /\ NothingYet' /\ OneAtATime'
      BY <1>0, <1>1, <2>4 DEF IInv, IdsLeft, NothingYet, OneAtATime
    <2>8. ReleasedOwnsNothing' /\ CleanMeansRemoved'
      BY <1>0, <1>1, <2>2, <2>4 DEF IInv, ReleasedOwnsNothing, CleanMeansRemoved, Dead, Alive
    <2>9. \A d \in Closers : closer'[d] = closer[d] \/ closer'[d] = "ok"
      BY <1>0, <1>1 DEF TypeOK
    <2>10. OutcomesHold'
      BY <1>0, <1>1, <2>4, <2>9 DEF IInv, OutcomesHold, Dead
    <2> QED
      BY <2>6, <2>7, <2>8, <2>10 DEF IInv
  <1>2. ASSUME NEW id \in Ids, NEW at \in {"shaking", "joining"},
               helper.at # "none", at = "joining" => Dead,
               ses' = [begun EXCEPT !.nextId = id, !.stdinClosed = TRUE],
               commands' \in Seq(Message),
               shut' \in Shutdowns, shut'.at = at,
               closer' = [closer EXCEPT ![c] = "closing"]
        PROVE  IInv'
    <2>1. /\ ses' \in SessionFields /\ ses'.closed /\ ses'.stdinClosed /\ ~ses'.released
          /\ ses'.tempKnown = ses.tempKnown /\ ses'.tempClean = ses.tempClean
          /\ ses'.teardown = ses.teardown
      BY <1>0, <1>2 DEF SessionFields
    <2>2. closer' \in [Closers -> Closing]
      BY <1>0, <1>2 DEF TypeOK, Closing
    <2>4. TypeOK'
      BY <1>0, <1>2, <2>1, <2>2 DEF TypeOK, HelperTypeOK
    <2>5. IdsLeft' /\ NothingYet' /\ OneAtATime'
      BY <1>0, <1>2, <2>1 DEF IInv, IdsLeft, NothingYet, OneAtATime, Dead
    <2>6. ReleasedOwnsNothing' /\ CleanMeansRemoved'
      BY <1>0, <2>1 DEF IInv, ReleasedOwnsNothing, CleanMeansRemoved, Dead
    <2>7. \A d \in Closers : closer'[d] = closer[d] \/ closer'[d] = "closing"
      BY <1>0, <1>2 DEF TypeOK
    <2>8. OutcomesHold'
      BY <1>0, <1>2, <2>1, <2>7 DEF IInv, OutcomesHold, Dead
    <2> QED
      BY <2>4, <2>5, <2>6, <2>8 DEF IInv
  <1>3. CASE /\ Alive
             /\ ses' = [begun EXCEPT !.nextId = ses.nextId + 1, !.stdinClosed = TRUE]
             /\ commands' = commands \o
                  <<[cmd |-> "shutdown", id |-> ses.nextId + 1, target |-> NoId],
                    [cmd |-> "eof", id |-> NoId, target |-> NoId]>>
             /\ shut' = [NotShutting EXCEPT !.at = "shaking", !.by = c, !.id = ses.nextId + 1]
             /\ closer' = [closer EXCEPT ![c] = "closing"]
    <2> DEFINE id == ses.nextId + 1
    <2>1. helper.at # "none"
      BY <1>3 DEF Alive
    <2>2. id \in Ids
      BY <1>0, <2>1, NextIdNat DEF IInv, IdsLeft
    <2> HIDE DEF id
    <2> DEFINE last == <<[cmd |-> "shutdown", id |-> id, target |-> NoId],
                         [cmd |-> "eof", id |-> NoId, target |-> NoId]>>
    <2>3. last \in Seq(Message)
      BY <1>0, <2>2 DEF Message
    <2>4. commands' = commands \o last
      BY <1>3 DEF id
    <2> HIDE DEF last
    <2>5. commands' \in Seq(Message)
      BY <1>0, <2>3, <2>4, ConcatProperties DEF HelperTypeOK
    <2>6. shut' \in Shutdowns /\ shut'.at = "shaking"
      BY <1>0, <1>3, <2>2 DEF NotShutting, Shutdowns, id
    <2> QED
      BY <1>2, <1>3, <2>1, <2>2, <2>5, <2>6 DEF id
  <1>4. CASE /\ Dead
             /\ ses' = [begun EXCEPT !.stdinClosed = TRUE]
             /\ shut' = [NotShutting EXCEPT !.at = "joining", !.by = c]
             /\ closer' = [closer EXCEPT ![c] = "closing"]
             /\ UNCHANGED commands
    <2>1. ses.nextId \in Ids /\ helper.at # "none" /\ commands \in Seq(Message)
      BY <1>0, <1>4 DEF SessionFields, Dead, HelperTypeOK
    <2>2. ses' = [begun EXCEPT !.nextId = ses.nextId, !.stdinClosed = TRUE]
      BY <1>0, <1>4 DEF SessionFields
    <2>3. shut' \in Shutdowns /\ shut'.at = "joining"
      BY <1>0, <1>4 DEF NotShutting, Shutdowns
    <2> QED
      BY <1>0, <1>2, <1>4, <2>1, <2>2, <2>3
  <1> QED
    BY <1>1, <1>3, <1>4 DEF CloseBegin

LEMMA FirstExists ==
  ASSUME NEW S \in SUBSET Nat, S # {}
  PROVE  \E i \in S : \A j \in S : i =< j
  <1>1. PICK i \in S : \A j \in S : <<j, i>> \notin OpToRel(<, Nat)
    BY NatLessThanWellFounded, WFMin
  <1>2. ASSUME NEW j \in S, ~(i =< j) PROVE FALSE
    <2>1. j < i /\ i \in Nat /\ j \in Nat
      BY <1>2
    <2> QED
      BY <1>1, <2>1 DEF OpToRel
  <1> QED
    BY <1>2

LEMMA CloseEndKeeps ==
  ASSUME IInv, NEW removed \in BOOLEAN, CloseEnd(removed)
  PROVE  IInv'
  <1> DEFINE stops == {i \in 1..Len(queue) : ~Passes(queue[i])}
  <1> DEFINE last == IF ~Drain THEN 0
                     ELSE IF stops = {} THEN Len(queue)
                     ELSE CHOOSE i \in stops : \A j \in stops : i =< j
  <1> DEFINE completed == ses.shutdownComplete \/ (last > 0 /\ Completes(queue[last]))
  <1> DEFINE failed == shut.failed # "none" \/ (last \in stops /\ ~completed)
  <1> DEFINE read == DecodedAll(ses, {queue[i] : i \in 1..last})
  <1> DEFINE decoded == [read EXCEPT !.shutdownComplete = completed, !.pipesClosed = TRUE]
  <1> DEFINE bad == \/ decoded.tempKnown /\ ~removed
                    \/ failed \/ ~completed
                    \/ shut.escalated \/ ~helper.clean
  <1> DEFINE outcome == IF ~readerDone THEN "reap" ELSE IF bad THEN "error" ELSE "ok"
  <1> DEFINE left == CleanTemp(decoded, removed)
  <1>0. /\ TypeOK /\ HelperTypeOK /\ ses \in SessionFields /\ queue \in Seq(Event)
        /\ Len(queue) \in Nat /\ shut.at = "joining" /\ Dead
        /\ ses.closed /\ ses.stdinClosed /\ ~ses.released
    BY DEF CloseEnd, IInv, TypeOK, OneAtATime
  <1>1. last \in Nat
    <2>1. stops \in SUBSET Nat
      BY <1>0
    <2> DEFINE first == CHOOSE i \in stops : \A j \in stops : i =< j
    <2>2. last \in {0, Len(queue)} \/ (stops # {} /\ last = first)
      OBVIOUS
    <2> HIDE DEF stops
    <2>3. stops # {} => first \in stops
      BY <2>1, FirstExists
    <2>4. first \in stops => first \in Nat
      BY <2>1
    <2> HIDE DEF first, last
    <2> QED
      BY <1>0, <2>2, <2>3, <2>4
  <1>2. queue' = SubSeq(queue, last + 1, Len(queue))
    BY DEF CloseEnd
  <1>3. /\ removed \/ decoded.tempKnown
        /\ tempDir' = (tempDir /\ ~(decoded.tempKnown /\ removed))
        /\ Leave(outcome, left)
        /\ UNCHANGED <<helper, commands, pipe, call, readerDone, signal, userCancel, faults>>
    BY DEF CloseEnd, OnlyClose
  <1>4. queue' \in Seq(Event)
    <2> HIDE DEF last
    <2>1. \A i \in last + 1 .. Len(queue) : queue[i] \in Event
      BY <1>0, <1>1
    <2>2. last + 1 \in Int /\ Len(queue) \in Int
      BY <1>0, <1>1
    <2> QED
      BY <1>2, <2>1, <2>2, SubSeqProperties
  <1>5. read \in SessionFields /\ Untouched(ses, read)
    BY <1>0, DecodedAllTyped
  <1>6. completed \in BOOLEAN
    <2> HIDE DEF last
    <2>1. (last > 0 /\ Completes(queue[last])) \in BOOLEAN
      OBVIOUS
    <2> QED
      BY <1>0, <2>1 DEF SessionFields
  <1> HIDE DEF last, completed, read
  <1>7. /\ decoded \in SessionFields /\ decoded.pipesClosed /\ decoded.closed
        /\ decoded.stdinClosed /\ ~decoded.released /\ decoded.nextId = ses.nextId
        /\ decoded.tempKnown /\ decoded.tempClean => ses.tempKnown /\ ses.tempClean
    BY <1>0, <1>5, <1>6 DEF SessionFields, Untouched
  <1> HIDE DEF decoded
  <1>8. /\ left \in SessionFields /\ left.pipesClosed /\ left.closed
        /\ left.stdinClosed /\ ~left.released /\ left.nextId = ses.nextId
        /\ left.tempKnown = decoded.tempKnown
        /\ left.tempClean <=> decoded.tempClean \/ removed
    BY <1>7 DEF CleanTemp, SessionFields
  <1>9. left.tempKnown /\ left.tempClean => Dead /\ ~tempDir'
    <2>1. tempDir' => tempDir /\ ~(decoded.tempKnown /\ removed)
      BY <1>3
    <2> QED
      BY <1>0, <1>7, <1>8, <2>1 DEF IInv, CleanMeansRemoved
  <1>10. outcome = "ok" => readerDone /\ left.tempClean
    <2>1. outcome = "ok" => readerDone /\ ~bad
      OBVIOUS
    <2>2. ~bad => removed
      BY <1>3
    <2> HIDE DEF bad, outcome
    <2> QED
      BY <1>8, <2>1, <2>2
  <1>11. outcome \in {"ok", "error", "reap"}
    OBVIOUS
  <1>12. HelperTypeOK'
    BY <1>0, <1>3 DEF HelperTypeOK
  <1> HIDE DEF outcome, left
  <1> QED
    BY <1>0, <1>3, <1>4, <1>8, <1>9, <1>10, <1>11, <1>12, LeaveKeeps

(* The steps of a shutdown that change no field of the session. *)
LEMMA ShutFrame ==
  ASSUME IInv, shut' \in Shutdowns, shut.at # "none", shut'.at # "none",
         shut'.at = "joining" => Dead,
         UNCHANGED <<helperVars, ses, call, closer, queue, readerDone, userCancel>>,
         signal' \in {"none", "term", "kill"}
  PROVE  IInv'
  <1> USE DEF helperVars
  <1>1. TypeOK'
    BY DEF IInv, TypeOK, HelperTypeOK
  <1>2. IdsLeft' /\ NothingYet' /\ OneAtATime'
    BY DEF IInv, IdsLeft, NothingYet, OneAtATime, Dead
  <1>3. ReleasedOwnsNothing' /\ CleanMeansRemoved' /\ OutcomesHold'
    BY DEF IInv, ReleasedOwnsNothing, CleanMeansRemoved, OutcomesHold, Dead, Alive
  <1> QED
    BY <1>1, <1>2, <1>3 DEF IInv

LEMMA ShakeEventKeeps ==
  ASSUME IInv, ShakeEvent
  PROVE  IInv'
  <1> USE DEF OnlyClose, helperVars
  <1> DEFINE e == Head(queue)
  <1> DEFINE d == Decoded(ses, e)
  <1>0. /\ TypeOK /\ HelperTypeOK /\ ses \in SessionFields /\ shut \in Shutdowns
        /\ call.at = "none" /\ ses.closed /\ ses.stdinClosed /\ ~ses.released
        /\ helper.at # "none" /\ shut.at = "shaking"
    BY DEF ShakeEvent, IInv, TypeOK, OneAtATime, NothingYet
  <1>1. d \in SessionFields /\ Untouched(ses, d)
    BY <1>0, DecodedTyped
  <1>2. Completes(e) \in BOOLEAN
    BY DEF Completes
  <1>3. ses' = [d EXCEPT !.shutdownComplete = Completes(e)]
    BY DEF ShakeEvent
  <1> HIDE DEF d
  <1>4. ses' \in SessionFields /\ Untouched(ses, ses')
    BY <1>1, <1>2, <1>3 DEF SessionFields, Untouched
  <1>5. shut' \in Shutdowns /\ shut'.at \in {"shaking", "settling"}
    <2>1. \/ shut' = shut \/ shut' = [shut EXCEPT !.at = "settling"]
          \/ shut' = [shut EXCEPT !.at = "settling", !.failed = Wrong(e)]
      BY DEF ShakeEvent
    <2>2. Wrong(e) \in {"none", "broken", "unexpected"}
      BY DEF Wrong
    <2> HIDE DEF e
    <2> QED
      BY <1>0, <2>1, <2>2 DEF Shutdowns
  <1>6. queue' \in Seq(Event)
    BY <1>0, TakeTyped DEF ShakeEvent
  <1>7. UNCHANGED <<helper, tempDir, commands, pipe, faults, call, readerDone, userCancel,
                    closer, signal>>
    BY DEF ShakeEvent
  <1>8. TypeOK'
    BY <1>0, <1>4, <1>5, <1>6, <1>7 DEF TypeOK, HelperTypeOK
  <1>9. IdsLeft' /\ NothingYet' /\ OneAtATime'
    BY <1>0, <1>4, <1>5, <1>7 DEF IdsLeft, NothingYet, OneAtATime, Untouched
  <1>10. ReleasedOwnsNothing' /\ CleanMeansRemoved'
    BY <1>0, <1>4, <1>7 DEF IInv, ReleasedOwnsNothing, CleanMeansRemoved, Untouched, Dead
  <1>11. OutcomesHold'
    BY <1>0, <1>4, <1>5, <1>7 DEF IInv, OutcomesHold, Untouched, Dead
  <1> QED
    BY <1>8, <1>9, <1>10, <1>11 DEF IInv

LEMMA ShutStepKeeps ==
  ASSUME IInv, ShutStep
  PROVE  IInv'
  <1> USE DEF OnlyShut, OnlyClose, NoTraffic, helperVars
  <1>0. /\ TypeOK /\ HelperTypeOK /\ shut \in Shutdowns /\ ses \in SessionFields
        /\ signal \in {"none", "term", "kill"}
    BY DEF IInv, TypeOK
  <1>1. CASE ShakeEnds
    <2>1. shut' \in Shutdowns /\ shut'.at = "settling"
      BY <1>0, <1>1 DEF ShakeEnds, Shutdowns
    <2> QED
      BY <1>0, <1>1, <2>1, ShutFrame DEF ShakeEnds
  <1>2. CASE Reaped
    <2>1. shut' \in Shutdowns /\ shut'.at = "joining" /\ Dead
      BY <1>0, <1>2 DEF Reaped, Shutdowns
    <2> QED
      BY <1>0, <1>2, <2>1, ShutFrame DEF Reaped
  <1>3. CASE Terminate
    <2>1. shut' \in Shutdowns /\ shut'.at = "terminating"
      BY <1>0, <1>3 DEF Terminate, Shutdowns
    <2> QED
      BY <1>0, <1>3, <2>1, ShutFrame DEF Terminate
  <1>4. CASE Kill
    <2>1. shut' \in Shutdowns /\ shut'.at = "killing"
      BY <1>0, <1>4 DEF Kill, Shutdowns
    <2> QED
      BY <1>0, <1>4, <2>1, ShutFrame DEF Kill
  <1>5. CASE LoseHelper
    <2>1. /\ Leave("reap", ses) /\ shut.at # "none"
          /\ UNCHANGED <<helper, tempDir, commands, pipe, faults, queue, call, readerDone,
                          userCancel, signal>>
      BY <1>5 DEF LoseHelper
    <2>2. ses.closed /\ ses.stdinClosed /\ ~ses.released
      BY <2>1 DEF IInv, OneAtATime
    <2>3. ses.tempKnown /\ ses.tempClean => Dead /\ ~tempDir'
      BY <2>1 DEF IInv, CleanMeansRemoved
    <2>4. HelperTypeOK' /\ queue' \in Seq(Event)
      BY <1>0, <2>1 DEF HelperTypeOK, TypeOK
    <2> QED
      BY <1>0, <2>1, <2>2, <2>3, <2>4, LeaveKeeps
  <1> QED
    BY <1>1, <1>2, <1>3, <1>4, <1>5, ShakeEventKeeps, CloseEndKeeps DEF ShutStep

LEMMA CloseAgainKeeps ==
  ASSUME IInv, NEW c \in Closers, NEW removed \in BOOLEAN, CloseAgain(c, removed)
  PROVE  IInv'
  <1> USE DEF OnlyFinalize, OnlyClose, NoLock, helperVars
  <1>0. /\ TypeOK /\ ses \in SessionFields /\ closer \in [Closers -> Closing]
        /\ shut.at = "none" /\ ses.closed /\ ~ses.released
    BY DEF CloseAgain, IInv, TypeOK
  <1>1. CASE Dead
    <2> DEFINE o == IF readerDone /\ removed THEN "ok" ELSE "error"
    <2>1. o \in {"ok", "error", "lifted"} /\ (o = "ok" => readerDone /\ removed)
      OBVIOUS
    <2>2. /\ Finalized(removed) /\ closer' = [closer EXCEPT ![c] = o]
          /\ ses' = IF readerDone /\ removed
                    THEN Marked([CleanTemp(Closed(ses), removed) EXCEPT !.teardown = "none"])
                    ELSE [CleanTemp(Closed(ses), removed) EXCEPT !.teardown = "error"]
          /\ UNCHANGED <<helper, commands, pipe, queue, shut, call, readerDone, signal,
                         userCancel, faults>>
      BY <1>1 DEF CloseAgain
    <2> HIDE DEF o
    <2> QED
      BY <1>0, <1>1, <2>1, <2>2, FinalizedKeeps
  <1>2. CASE ~Dead
    <2>1. /\ closer' = [closer EXCEPT ![c] = ses.teardown]
          /\ UNCHANGED <<helper, tempDir, commands, pipe, faults, ses, queue, shut, call,
                         readerDone, signal, userCancel>>
      BY <1>2 DEF CloseAgain
    <2>2. ses.teardown = "reap"
      BY <1>0, <1>2 DEF IInv, OutcomesHold, SessionFields, Errors
    <2>3. closer' \in [Closers -> Closing]
      BY <1>0, <2>1, <2>2 DEF Closing
    <2>4. TypeOK'
      BY <1>0, <2>1, <2>3 DEF TypeOK, HelperTypeOK
    <2>5. IdsLeft' /\ NothingYet' /\ OneAtATime' /\ ReleasedOwnsNothing' /\ CleanMeansRemoved'
      BY <2>1 DEF IInv, IdsLeft, NothingYet, OneAtATime, ReleasedOwnsNothing,
         CleanMeansRemoved, Dead, Alive
    <2>6. \A d \in Closers : closer'[d] = closer[d] \/ closer'[d] = "reap"
      BY <1>0, <2>1, <2>2
    <2>7. OutcomesHold'
      BY <1>0, <2>1, <2>6 DEF IInv, OutcomesHold, Dead
    <2> QED
      BY <2>4, <2>5, <2>7 DEF IInv
  <1> QED
    BY <1>1, <1>2

(* Another thread or a timer learns that everything is gone. *)
LEMMA OutcomeFrame ==
  ASSUME IInv, NEW c \in Closers, NEW o \in {"ok", "lifted"}, ses.released,
         closer' = [closer EXCEPT ![c] = o],
         UNCHANGED <<helperVars, ses, call, shut, queue, readerDone, signal, userCancel>>
  PROVE  IInv'
  <1> USE DEF helperVars
  <1>1. TypeOK'
    BY DEF IInv, TypeOK, HelperTypeOK, Closing
  <1>2. IdsLeft' /\ NothingYet' /\ OneAtATime' /\ ReleasedOwnsNothing' /\ CleanMeansRemoved'
    BY DEF IInv, IdsLeft, NothingYet, OneAtATime, ReleasedOwnsNothing,
       CleanMeansRemoved, Dead, Alive
  <1>3. \A d \in Closers : closer'[d] = closer[d] \/ closer'[d] = o
    BY DEF IInv, TypeOK
  <1>4. OutcomesHold'
    BY <1>3 DEF IInv, OutcomesHold, ReleasedOwnsNothing, Dead
  <1> QED
    BY <1>1, <1>2, <1>4 DEF IInv

LEMMA RecoverKeeps ==
  ASSUME IInv, NEW removed \in BOOLEAN, RecoverReaped(removed)
  PROVE  IInv'
  <1> USE DEF OnlyFinalize, OnlyClose, NoLock, helperVars
  <1>0. /\ "worker" \in Closers /\ shut.at = "none" /\ Dead /\ ses.closed
        /\ closer' = [closer EXCEPT !["worker"] = "lifted"]
        /\ UNCHANGED <<helper, commands, pipe, queue, shut, call, readerDone, signal,
                       userCancel, faults>>
    BY DEF RecoverReaped, IInv, OutcomesHold, Closers
  <1>1. CASE ses.released
    BY <1>0, <1>1, OutcomeFrame DEF RecoverReaped
  <1>2. CASE ~ses.released
    BY <1>0, <1>2, FinalizedKeeps DEF RecoverReaped
  <1> QED
    BY <1>1, <1>2

(* What the helper, the reader thread, a signal and the user do. *)
LEMMA EnvironmentKeeps ==
  ASSUME IInv, Helper \/ SignalEnds \/ ReadLine \/ ReaderEnds \/ UserCancels
  PROVE  IInv'
  <1> USE DEF helperVars, sesVars
  <1>0. TypeOK /\ HelperTypeOK
    BY DEF IInv, TypeOK
  <1>1. ASSUME HelperTypeOK', Alive, helper'.at # "none", UNCHANGED sesVars
        PROVE  IInv'
    <2>1. TypeOK'
      BY <1>0, <1>1 DEF TypeOK
    <2>2. helper.at # "none" /\ ~Dead
      BY <1>1 DEF Alive, Dead
    <2>3. IdsLeft' /\ NothingYet' /\ OneAtATime' /\ ReleasedOwnsNothing' /\ CleanMeansRemoved'
      BY <1>1, <2>2 DEF IInv, IdsLeft, NothingYet, OneAtATime, ReleasedOwnsNothing,
         CleanMeansRemoved
    <2>4. OutcomesHold'
      BY <1>1, <2>2 DEF IInv, OutcomesHold
    <2> QED
      BY <2>1, <2>3, <2>4 DEF IInv
  <1>2. CASE Helper
    BY <1>0, <1>1, <1>2, HelperStepTyped DEF Helper
  <1>3. CASE SignalEnds
    <2>1. HelperTypeOK' /\ Alive /\ helper'.at # "none"
      BY <1>0, <1>3 DEF SignalEnds, Die, HelperTypeOK, HelperSteps
    <2> QED
      BY <1>1, <1>3, <2>1 DEF SignalEnds
  <1>4. ASSUME pipe' \in Seq(Event), queue' \in Seq(Event), helper.at # "none",
               readerDone' \in BOOLEAN, readerDone => readerDone',
               userCancel' \in BOOLEAN,
               UNCHANGED <<helper, tempDir, commands, ses, call, closer, shut, signal, faults>>
        PROVE  IInv'
    <2>1. TypeOK'
      BY <1>0, <1>4 DEF TypeOK, HelperTypeOK
    <2>2. IdsLeft' /\ NothingYet' /\ OneAtATime' /\ CleanMeansRemoved' /\ OutcomesHold'
      BY <1>4 DEF IInv, IdsLeft, NothingYet, OneAtATime, CleanMeansRemoved, OutcomesHold, Dead
    <2>3. ReleasedOwnsNothing'
      BY <1>4 DEF IInv, ReleasedOwnsNothing, Dead, Alive
    <2> QED
      BY <2>1, <2>2, <2>3 DEF IInv
  <1>5. CASE ReadLine
    <2>1. Head(pipe) \in Event /\ Tail(pipe) \in Seq(Event)
      BY <1>0, <1>5, HeadTailProperties DEF ReadLine, HelperTypeOK
    <2>2. queue' \in Seq(Event)
      BY <1>0, <1>5, <2>1, AppendProperties DEF ReadLine, TypeOK
    <2>3. helper.at # "none"
      BY <1>5 DEF ReadLine, IInv, NothingYet
    <2> QED
      BY <1>0, <1>4, <1>5, <2>1, <2>2, <2>3 DEF ReadLine, OnlyReader, TypeOK
  <1>6. CASE ReaderEnds
    <2>1. Ev("eof", NoId, FALSE) \in Event
      <3>1. NoId \in Ids
        BY MaxIdNat DEF Ids, NoId
      <3> QED
        BY <3>1, EvTyped
    <2>2. queue' \in Seq(Event)
      BY <1>0, <1>6, <2>1, AppendProperties DEF ReaderEnds, TypeOK
    <2> QED
      BY <1>0, <1>4, <1>6, <2>2 DEF ReaderEnds, OnlyReader, TypeOK, HelperTypeOK, Dead
  <1>7. CASE UserCancels
    <2>1. TypeOK'
      BY <1>0, <1>7 DEF UserCancels, TypeOK, HelperTypeOK
    <2> QED
      BY <1>7, <2>1 DEF UserCancels, IInv, IdsLeft, NothingYet, OneAtATime, CleanMeansRemoved,
         OutcomesHold, ReleasedOwnsNothing, Dead, Alive
  <1> QED
    BY <1>2, <1>3, <1>5, <1>6, <1>7

-----------------------------------------------------------------------------
THEOREM InitIInv == Init => IInv
  <1> SUFFICES ASSUME Init PROVE IInv
    OBVIOUS
  <1>1. NoId \in Ids /\ 0 \in Ids /\ 1 \in 0..1
    BY MaxIdNat DEF NoId, Ids
  <1>2. HelperTypeOK
    <2>1. helper \in [at: HelperSteps, id: Ids, kind: Kinds, items: 0..1,
                      stop: Ids, raised: BOOLEAN, clean: BOOLEAN]
      BY <1>1 DEF Init, HelperInit, HelperSteps, Kinds
    <2>2. faults \subseteq AllFaults
      BY HelperAssumption DEF Init, HelperInit, HelperAssumption
    <2>3. commands \in Seq(Message) /\ pipe \in Seq(Event)
      BY DEF Init, HelperInit
    <2>4. tempDir \in BOOLEAN
      BY DEF Init, HelperInit
    <2> QED
      BY <2>1, <2>2, <2>3, <2>4 DEF HelperTypeOK
  <1>3. TypeOK
    <2>1. ses \in SessionFields
      BY <1>1 DEF Init, SessionFields, Errors, StartupErrors
    <2>2. call \in Calls /\ shut \in Shutdowns
      BY <1>1 DEF Init, Calls, NoCall, Shutdowns, NotShutting, Closers
    <2>3. closer \in [Closers -> Closing]
      BY DEF Init, Closing
    <2>4. queue \in Seq(Event)
      BY DEF Init
    <2>5. readerDone \in BOOLEAN /\ userCancel \in BOOLEAN /\ signal \in {"none", "term", "kill"}
      BY DEF Init
    <2> QED
      BY <1>2, <2>1, <2>2, <2>3, <2>4, <2>5 DEF TypeOK
  <1> QED
    BY <1>3 DEF Init, HelperInit, IInv, IdsLeft, NothingYet, OneAtATime, NotShutting, NoCall,
       ReleasedOwnsNothing, CleanMeansRemoved, OutcomesHold, Dead

THEOREM NextIInv == IInv /\ [Next]_vars => IInv'
  <1> SUFFICES ASSUME IInv, [Next]_vars PROVE IInv'
    OBVIOUS
  <1>1. CASE UNCHANGED vars
    <2>1. TypeOK'
      BY <1>1 DEF IInv, TypeOK, HelperTypeOK, vars, helperVars, sesVars
    <2> QED
      BY <1>1, <2>1 DEF vars, helperVars, sesVars, IInv, IdsLeft, NothingYet, OneAtATime,
         CleanMeansRemoved, OutcomesHold, ReleasedOwnsNothing, Dead, Alive
  <1>2. ASSUME NEW c \in Closers, AskClose(c) \/ CloseStep(c) PROVE IInv'
    <2>1. CASE CloseReleased(c)
      BY <2>1, OutcomeFrame
      DEF CloseReleased, OnlyFinalize, OnlyClose, helperVars
    <2> QED
      BY <1>2, <2>1, AskCloseKeeps, CloseBeginKeeps, CloseAgainKeeps, ShutStepKeeps
      DEF CloseStep
  <1> QED
    BY <1>1, <1>2, EnvironmentKeeps, CallStepKeeps, RecoverKeeps DEF Next, Recover

THEOREM Invariant == Spec => []IInv
  BY InitIInv, NextIInv, PTL DEF Spec

(* Every field keeps its type; the bound on request ids never cuts short
   what has begun.                                                         *)
THEOREM TypeCorrect == Spec => []TypeOK
  <1>1. IInv => TypeOK
    BY DEF IInv
  <1> QED
    BY <1>1, Invariant, PTL

(* A released session, or one that was closed without an error, owns no
   process, no reader, no pipe and no directory the helper told of.        *)
THEOREM ReleasedIsGone == Spec => []ReleasedMeansGone
  <1>1. IInv => ReleasedMeansGone
    BY DEF IInv, OutcomesHold, ReleasedOwnsNothing, CleanMeansRemoved, ReleasedMeansGone
  <1> QED
    BY <1>1, Invariant, PTL

(* close() raises anything but UGCHelperReapError only behind a dead helper. *)
THEOREM ErrorIsReaped == Spec => []ErrorMeansReaped
  <1>1. IInv => ErrorMeansReaped
    BY DEF IInv, OutcomesHold, ErrorMeansReaped, Dead, Alive
  <1> QED
    BY <1>1, Invariant, PTL

-----------------------------------------------------------------------------
(* Until the session is closed nobody has said shutdown. *)
NotSaid ==
  ~ses.closed => /\ helper.stop = NoId
                 /\ \A i \in DOMAIN commands : commands[i].cmd # "shutdown"

LastWords == ShutdownIsLast /\ NotSaid

LEMMA ClosedStays ==
  ASSUME IInv, IInv', Next, ses.closed
  PROVE  ses'.closed
  <1> USE DEF helperVars, sesVars
  <1>0. /\ ses \in SessionFields /\ call.at = "none" /\ shut \in Shutdowns
        /\ closer \in [Closers -> Closing]
    BY DEF IInv, TypeOK, OneAtATime
  <1>1. CASE UNCHANGED ses
    BY <1>1
  <1>2. ASSUME NEW c \in Closers, closer'[c] \notin {"open", "asked"} PROVE ses'.closed
    BY <1>2 DEF IInv, OutcomesHold
  <1>3. CASE Helper \/ SignalEnds \/ ReadLine \/ ReaderEnds \/ UserCancels
    BY <1>1, <1>3 DEF Helper, SignalEnds, ReadLine, ReaderEnds, OnlyReader, UserCancels
  <1>4. ~CallStep
    BY <1>0 DEF CallStep, CallBegin, WaitStops, WaitEvent, WaitFindsDead, SendCommand,
       SendCancel, GiveUpCancel, CallEvent, CallFindsDead
  <1>5. CASE Recover
    BY <1>0, <1>2, <1>5 DEF Recover, RecoverReaped, Closers
  <1>6. ASSUME NEW c \in Closers, AskClose(c) PROVE ses'.closed
    BY <1>0, <1>6 DEF AskClose, SessionFields
  <1>7. ASSUME NEW c \in Closers, CloseStep(c) PROVE ses'.closed
    <2>1. ~CloseBegin(c)
      BY DEF CloseBegin
    <2>2. CASE CloseReleased(c)
      BY <1>1, <2>2 DEF CloseReleased
    <2>3. ASSUME NEW removed \in BOOLEAN, CloseAgain(c, removed) PROVE ses'.closed
      <3>1. closer'[c] \in {"ok", "error", ses.teardown}
        BY <1>0, <2>3 DEF CloseAgain
      <3>2. ses.teardown \in Errors
        BY <1>0 DEF SessionFields
      <3> QED
        BY <1>2, <3>1, <3>2 DEF Errors
    <2>4. CASE ShakeEvent
      <3>1. shut'.at # "none"
        BY <1>0, <2>4 DEF ShakeEvent, Shutdowns
      <3> QED
        BY <3>1 DEF IInv, OneAtATime
    <2>5. CASE ShakeEnds \/ Reaped \/ Terminate \/ Kill
      BY <1>1, <2>5 DEF ShakeEnds, Reaped, Terminate, Kill, OnlyShut
    <2>6. ASSUME NEW o \in {"ok", "error", "reap"}, NEW s, Leave(o, s) PROVE ses'.closed
      <3>1. shut.by \in Closers
        BY <1>0 DEF Shutdowns
      <3>2. closer'[shut.by] = o
        BY <1>0, <2>6, <3>1 DEF Leave
      <3> QED
        BY <1>2, <3>1, <3>2
    <2>7. CASE LoseHelper
      BY <2>6, <2>7 DEF LoseHelper
    <2>8. ASSUME NEW removed \in BOOLEAN, CloseEnd(removed) PROVE ses'.closed
      BY <2>6, <2>8 DEF CloseEnd
    <2> QED
      BY <1>7, <2>1, <2>2, <2>3, <2>4, <2>5, <2>7, <2>8 DEF CloseStep, ShutStep
  <1> QED
    BY <1>3, <1>4, <1>5, <1>6, <1>7 DEF Next

(* A message that is read is gone, and only shutdown tells the helper to stop. *)
LEMMA HelperReads ==
  ASSUME TypeOK, HelperStep
  PROVE  \/ UNCHANGED commands /\ helper'.stop = helper.stop
         \/ /\ commands # <<>> /\ commands' = Tail(commands)
            /\ helper'.stop = helper.stop \/ Head(commands).cmd = "shutdown"
  <1> USE DEF TypeOK, HelperTypeOK, Read
  <1>1. CASE Announce \/ FailStart \/ KeepWaiting \/ SteamReady
    BY <1>1 DEF Announce, FailStart, KeepWaiting, SteamReady
  <1>2. CASE Accept
    BY <1>2 DEF Accept
  <1>3. CASE CancelNothing \/ ReportItem \/ CancelledResult
    BY <1>3 DEF CancelNothing, ReportItem, CancelledResult
  <1>4. CASE Control
    BY <1>4 DEF Control
  <1>5. CASE TakeShutdown
    BY <1>5 DEF TakeShutdown
  <1>6. CASE TakeEof
    BY <1>6 DEF TakeEof
  <1>7. CASE FailCommand \/ ReportError \/ Exit \/ Die
    BY <1>7 DEF FailCommand, ReportError, Exit, Die
  <1>8. ASSUME NEW ok \in BOOLEAN, Complete(ok)
        PROVE  UNCHANGED commands /\ helper'.stop = helper.stop
    BY <1>8 DEF Complete
  <1>9. ASSUME NEW steamDown \in BOOLEAN, NEW removed \in BOOLEAN, ShutDown(steamDown, removed)
        PROVE  UNCHANGED commands /\ helper'.stop = helper.stop
    BY <1>9 DEF ShutDown
  <1> QED
    BY <1>1, <1>2, <1>3, <1>4, <1>5, <1>6, <1>7, <1>8, <1>9 DEF HelperStep

LEMMA NothingSaid ==
  ASSUME LastWords, UNCHANGED commands, helper'.stop = helper.stop, ses.closed => ses'.closed
  PROVE  LastWords'
  BY DEF LastWords, ShutdownIsLast, NotSaid

LEMMA TailKeepsLast ==
  ASSUME LastWords, commands \in Seq(Message), commands # <<>>, commands' = Tail(commands),
         helper'.stop = helper.stop \/ Head(commands).cmd = "shutdown",
         UNCHANGED ses
  PROVE  LastWords'
  <1> DEFINE n == Len(commands)
  <1>1. /\ n \in Nat \ {0} /\ Len(commands') = n - 1
        /\ \A i \in 1..n - 1 : commands'[i] = commands[i + 1]
        /\ Head(commands) = commands[1]
        /\ DOMAIN commands = 1..n /\ DOMAIN commands' = 1..n - 1
    BY HeadTailProperties
  <1> HIDE DEF n
  <1>2. ShutdownIsLast'
    <2> SUFFICES ASSUME NEW i \in 1..n - 1,
                        \/ helper'.stop # NoId
                        \/ \E j \in 1..i - 1 : commands'[j].cmd = "shutdown"
                 PROVE  commands'[i].cmd = "eof"
      BY <1>1 DEF ShutdownIsLast
    <2>1. i + 1 \in 1..n /\ commands'[i] = commands[i + 1]
      BY <1>1
    <2>2. helper.stop # NoId \/ \E j \in 1..(i + 1) - 1 : commands[j].cmd = "shutdown"
      <3>1. CASE helper'.stop # NoId
        <4>1. 1 \in 1..(i + 1) - 1
          BY <1>1
        <4> QED
          BY <1>1, <3>1, <4>1
      <3>2. ASSUME NEW j \in 1..i - 1, commands'[j].cmd = "shutdown"
            PROVE  \E k \in 1..(i + 1) - 1 : commands[k].cmd = "shutdown"
        <4>1. j \in 1..n - 1 /\ j + 1 \in 1..(i + 1) - 1
          BY <1>1
        <4>2. commands[j + 1].cmd = "shutdown"
          BY <1>1, <3>2, <4>1
        <4> QED
          BY <4>1, <4>2
      <3> QED
        BY <3>1, <3>2
    <2>3. commands[i + 1].cmd = "eof"
      BY <1>1, <2>1, <2>2 DEF LastWords, ShutdownIsLast
    <2> QED
      BY <2>1, <2>3
  <1>3. NotSaid'
    <2> SUFFICES ASSUME ~ses.closed
                 PROVE  /\ helper'.stop = NoId
                        /\ \A i \in DOMAIN commands' : commands'[i].cmd # "shutdown"
      BY DEF NotSaid
    <2>1. helper.stop = NoId /\ \A i \in 1..n : commands[i].cmd # "shutdown"
      BY <1>1 DEF LastWords, NotSaid
    <2>2. 1 \in 1..n
      BY <1>1
    <2>3. helper'.stop = NoId
      BY <1>1, <2>1, <2>2
    <2>4. \A i \in 1..n - 1 : i + 1 \in 1..n
      BY <1>1
    <2> QED
      BY <1>1, <2>1, <2>3, <2>4
  <1> QED
    BY <1>2, <1>3 DEF LastWords

LEMMA AppendKeepsLast ==
  ASSUME LastWords, commands \in Seq(Message), ~ses.closed, helper'.stop = helper.stop,
         NEW m \in Message, m.cmd # "shutdown", commands' = Append(commands, m)
  PROVE  LastWords'
  <1> DEFINE n == Len(commands)
  <1>1. /\ n \in Nat /\ commands'[n + 1] = m
        /\ \A i \in 1..n : commands'[i] = commands[i]
        /\ DOMAIN commands = 1..n /\ DOMAIN commands' = 1..n + 1
    BY AppendProperties
  <1>2. helper.stop = NoId /\ \A i \in 1..n : commands[i].cmd # "shutdown"
    BY <1>1 DEF LastWords, NotSaid
  <1> HIDE DEF n
  <1>3. \A i \in 1..n + 1 : i \in 1..n \/ i = n + 1
    BY <1>1
  <1>4. \A i \in 1..n + 1 : commands'[i].cmd # "shutdown"
    BY <1>1, <1>2, <1>3
  <1>5. \A i \in 1..n + 1 : 1..i - 1 \subseteq 1..n + 1
    BY <1>1
  <1>6. ShutdownIsLast'
    BY <1>1, <1>2, <1>4, <1>5 DEF ShutdownIsLast
  <1>7. NotSaid'
    BY <1>1, <1>2, <1>4 DEF NotSaid
  <1> QED
    BY <1>6, <1>7 DEF LastWords

(* The shutdown that CloseBegin says, and the end of stdin behind it. *)
LEMMA ClosingSaysLast ==
  ASSUME LastWords, commands \in Seq(Message), ~ses.closed, ses'.closed,
         helper'.stop = helper.stop, NEW m \in Message, NEW e \in Message,
         e.cmd = "eof", commands' = commands \o <<m, e>>
  PROVE  LastWords'
  <1> DEFINE n == Len(commands)
  <1>1. /\ n \in Nat /\ commands'[n + 2] = e
        /\ \A i \in 1..n : commands'[i] = commands[i]
        /\ DOMAIN commands = 1..n /\ DOMAIN commands' = 1..n + 2
    OBVIOUS
  <1>2. helper.stop = NoId /\ \A i \in 1..n : commands[i].cmd # "shutdown"
    BY <1>1 DEF LastWords, NotSaid
  <1> HIDE DEF n
  <1>3. ShutdownIsLast'
    <2> SUFFICES ASSUME NEW i \in 1..n + 2, NEW j \in 1..i - 1, commands'[j].cmd = "shutdown"
                 PROVE  commands'[i].cmd = "eof"
      BY <1>1, <1>2 DEF ShutdownIsLast
    <2>1. j \notin 1..n
      BY <1>1, <1>2
    <2>2. i = n + 2
      BY <1>1, <2>1
    <2> QED
      BY <1>1, <2>2
  <1>4. NotSaid'
    BY DEF NotSaid
  <1> QED
    BY <1>3, <1>4 DEF LastWords

LEMMA NextLastWords ==
  ASSUME IInv, IInv', LastWords, Next
  PROVE  LastWords'
  <1> USE DEF helperVars, sesVars
  <1>0. /\ TypeOK /\ commands \in Seq(Message) /\ NoId \in Ids
        /\ ses.closed => ses'.closed
    BY ClosedStays, MaxIdNat DEF IInv, TypeOK, HelperTypeOK, Ids, NoId
  <1>1. CASE UNCHANGED <<commands, helper>>
    BY <1>0, <1>1, NothingSaid
  <1>2. CASE Helper
    BY <1>0, <1>2, HelperReads, NothingSaid, TailKeepsLast DEF Helper
  <1>3. CASE SignalEnds
    BY <1>0, <1>3, NothingSaid DEF SignalEnds, Die, TypeOK, HelperTypeOK
  <1>4. CASE ReadLine \/ ReaderEnds \/ UserCancels
    BY <1>1, <1>4 DEF ReadLine, ReaderEnds, OnlyReader, UserCancels
  <1>5. CASE CallStep
    <2>1. CASE CallBegin
      BY <1>0, <2>1, NothingSaid DEF CallBegin, TypeOK, HelperTypeOK
    <2>2. ASSUME NEW kind \in Kinds, SendCommand(kind) PROVE LastWords'
      <3>1. CASE UNCHANGED commands
        BY <1>1, <2>2, <3>1 DEF SendCommand
      <3>2. CASE commands' = Append(commands, [cmd |-> kind, id |-> ses.nextId + 1, target |-> NoId])
        <4> DEFINE m == [cmd |-> kind, id |-> ses.nextId + 1, target |-> NoId]
        <4>1. ses.nextId + 1 \in Ids /\ ~ses.closed
          <5>1. ses.nextId \in Nat /\ ses.nextId + 3 =< MaxId /\ ~ses.closed
            BY <1>0, <2>2, NextIdNat DEF SendCommand, IInv, IdsLeft, OneAtATime, TypeOK
          <5>2. ses.nextId + 1 =< MaxId
            BY <5>1, MaxIdNat
          <5> QED
            BY <1>0, <5>1, <5>2, NextIdNat DEF TypeOK
        <4>2. m \in Message /\ m.cmd # "shutdown"
          BY <1>0, <4>1 DEF Message, Kinds
        <4> HIDE DEF m
        <4> QED
          BY <1>0, <2>2, <3>2, <4>1, <4>2, AppendKeepsLast DEF SendCommand, m
      <3> QED
        BY <2>2, <3>1, <3>2 DEF SendCommand
    <2>3. CASE SendCancel
      <3>1. CASE UNCHANGED commands
        BY <1>1, <2>3, <3>1 DEF SendCancel
      <3>2. CASE commands' = Append(commands, CancelMessage(ses.nextId + 1))
        <4> DEFINE m == CancelMessage(ses.nextId + 1)
        <4>1. ses.nextId + 1 \in Ids /\ ~ses.closed /\ call.id \in Ids
          <5>1. ses.nextId \in Nat /\ ses.nextId + 2 =< MaxId /\ ~ses.closed
            BY <1>0, <2>3, NextIdNat DEF SendCancel, IInv, IdsLeft, OneAtATime, TypeOK
          <5>2. ses.nextId + 1 =< MaxId
            BY <5>1, MaxIdNat
          <5> QED
            BY <1>0, <5>1, <5>2, NextIdNat DEF TypeOK, Calls
        <4>2. m \in Message /\ m.cmd # "shutdown"
          BY <1>0, <4>1 DEF Message, CancelMessage
        <4> HIDE DEF m
        <4> QED
          BY <1>0, <2>3, <3>2, <4>1, <4>2, AppendKeepsLast DEF SendCancel, m
      <3> QED
        BY <2>3, <3>1, <3>2 DEF SendCancel
    <2>4. CASE WaitStops \/ WaitEvent \/ WaitFindsDead \/ GiveUpCancel \/ CallEvent \/ CallFindsDead
      BY <1>1, <2>4
      DEF WaitStops, WaitEvent, WaitFindsDead, GiveUpCancel, CallEvent, CallFindsDead, NoTraffic
    <2> QED
      BY <1>5, <2>1, <2>2, <2>3, <2>4 DEF CallStep
  <1>6. CASE Recover
    BY <1>1, <1>6 DEF Recover, RecoverReaped, OnlyFinalize
  <1>7. ASSUME NEW c \in Closers, AskClose(c) \/ CloseStep(c) PROVE LastWords'
    <2>1. CASE CloseBegin(c)
      <3>1. CASE UNCHANGED commands
        BY <1>1, <2>1, <3>1 DEF CloseBegin
      <3>2. ASSUME Alive,
                   ses' = [[ses EXCEPT !.closed = TRUE]
                             EXCEPT !.nextId = ses.nextId + 1, !.stdinClosed = TRUE],
                   commands' = commands \o
                     <<[cmd |-> "shutdown", id |-> ses.nextId + 1, target |-> NoId],
                       [cmd |-> "eof", id |-> NoId, target |-> NoId]>>
            PROVE  LastWords'
        <4> DEFINE m == [cmd |-> "shutdown", id |-> ses.nextId + 1, target |-> NoId]
        <4> DEFINE e == [cmd |-> "eof", id |-> NoId, target |-> NoId]
        <4>1. ses.nextId + 1 \in Ids /\ ~ses.closed
          BY <1>0, <2>1, <3>2, NextIdNat DEF CloseBegin, IInv, IdsLeft, TypeOK, Alive
        <4>2. m \in Message /\ e \in Message /\ e.cmd = "eof"
          BY <1>0, <4>1 DEF Message
        <4>3. ses'.closed /\ helper'.stop = helper.stop
          BY <1>0, <2>1, <3>2 DEF CloseBegin, TypeOK, SessionFields
        <4>4. commands' = commands \o <<m, e>>
          BY <3>2
        <4> HIDE DEF m, e
        <4> QED
          BY <1>0, <4>1, <4>2, <4>3, <4>4, ClosingSaysLast
      <3> QED
        BY <2>1, <3>1, <3>2 DEF CloseBegin
    <2>2. CASE AskClose(c) \/ CloseReleased(c) \/ (\E removed \in BOOLEAN : CloseAgain(c, removed))
      BY <1>1, <2>2 DEF AskClose, CloseReleased, CloseAgain, OnlyFinalize
    <2>3. CASE ShutStep
      BY <1>1, <2>3 DEF ShutStep, ShakeEvent, ShakeEnds, Reaped, Terminate, Kill, LoseHelper,
         CloseEnd, OnlyShut, NoTraffic
    <2> QED
      BY <1>7, <2>1, <2>2, <2>3 DEF CloseStep
  <1> QED
    BY <1>2, <1>3, <1>4, <1>5, <1>6, <1>7 DEF Next

(* shutdown is the last message a helper is sent, whichever closer sends it
   and whatever command was running: nothing follows it but the end of stdin. *)
THEOREM ShutdownSaidLast == Spec => []ShutdownIsLast
  <1>1. Init => LastWords
    BY DEF Init, HelperInit, LastWords, ShutdownIsLast, NotSaid
  <1>2. IInv /\ IInv' /\ LastWords /\ [Next]_vars => LastWords'
    <2>1. ASSUME LastWords, UNCHANGED vars PROVE LastWords'
      BY <2>1, NothingSaid DEF vars, helperVars, sesVars
    <2> QED
      BY <2>1, NextLastWords
  <1>3. LastWords => ShutdownIsLast
    BY DEF LastWords
  <1> QED
    BY <1>1, <1>2, <1>3, Invariant, PTL DEF Spec

-----------------------------------------------------------------------------
(* What passes between the launcher and the helper while commands follow
   each other: no answer is ever left to be taken for the answer to a later
   command.                                                               *)

(* Everything the helper has said and the worker has not yet taken, oldest
   first; the reader thread moves the border between the two.             *)
Line == queue \o pipe

(* What the helper says on nobody's behalf. *)
Anonymous(e) ==
  e.id = NoId /\ e.type \in {"starting", "waiting", "ready", "complete", "error", "eof"}

(* The command has not been read by the helper yet. *)
Unread == \E i \in DOMAIN commands : commands[i].cmd \in Kinds

Silent == \A i \in DOMAIN Line : Line[i].id # call.id

(* Between commands. *)
Rest ==
  /\ commands = <<>> /\ helper.at \notin {"busy", "cancelled"}
  /\ \A i \in DOMAIN Line : Anonymous(Line[i])

(* The ids of the command that runs and of its cancellation. *)
IdsAreOurs ==
  /\ call.id \in Nat /\ call.cancelId \in Nat /\ ses.nextId \in Nat
  /\ NoId < call.id /\ call.id <= ses.nextId
  /\ call.cancelId # NoId => call.id < call.cancelId /\ call.cancelId <= ses.nextId

(* The helper is sent the command, and after it at most its cancellation. *)
CommandsAreOurs ==
  \A i \in DOMAIN commands :
    \/ i = 1 /\ commands[i].cmd \in Kinds /\ commands[i].id = call.id
    \/ /\ i = Len(commands) /\ commands[i].cmd = "cancel" /\ call.cancelId # NoId
       /\ commands[i].id = call.cancelId /\ commands[i].target = call.id

(* The helper speaks of nothing else ... *)
LineIsOurs ==
  \A i \in DOMAIN Line :
    \/ Anonymous(Line[i])
    \/ Line[i].id = call.id /\ Line[i].type \in {"accepted", "item", "result", "fatal"}
    \/ Line[i].id = call.cancelId /\ Line[i].type = "ack" /\ call.cancelId # NoId

(* ... not of the command before it has read it, nor after its result, ... *)
UnreadIsSilent ==
  Unread => helper.at \notin {"busy", "cancelled"} /\ ~call.answered /\ Silent

ServedIsOurs ==
  helper.at \in {"busy", "cancelled"} =>
    /\ helper.id = call.id /\ ~call.answered
    /\ \A i \in DOMAIN Line : Line[i].id = call.id => Line[i].type # "result"

ResultIsLast ==
  /\ \A i, j \in DOMAIN Line :
       i < j /\ Line[i].id = call.id /\ Line[i].type = "result" => Line[j].id # call.id
  /\ call.answered => Silent

(* ... and acknowledges a cancellation once, when it has read it. *)
AckIsOne ==
  /\ \A i, j \in DOMAIN Line : Line[i].type = "ack" /\ Line[j].type = "ack" => i = j
  /\ call.acked \/ (\E i \in DOMAIN commands : commands[i].cmd = "cancel")
       => \A i \in DOMAIN Line : Line[i].type # "ack"
  /\ call.acked =>
       call.cancelId # NoId /\ \A i \in DOMAIN commands : commands[i].cmd # "cancel"

Conversation ==
  /\ IdsAreOurs /\ CommandsAreOurs /\ LineIsOurs
  /\ UnreadIsSilent /\ ServedIsOurs /\ ResultIsLast /\ AckIsOne

(* As long as the session has neither failed nor closed, the channel is at
   rest between commands and belongs to the running one otherwise.        *)
ConvInv ==
  ~ses.fatal /\ ~ses.closed =>
    IF call.at = "running" THEN Conversation ELSE Rest

(* A command that was not sent yet has heard nothing. *)
StartsFresh == call.at # "running" => call = [NoCall EXCEPT !.at = call.at]

-----------------------------------------------------------------------------
(* How a step changes the line: not at all, ... *)
LineStays ==
  /\ DOMAIN Line = 1..Len(Line) /\ DOMAIN Line' = 1..Len(Line) /\ Len(Line) \in Nat
  /\ \A i \in 1..Len(Line) : Line'[i] = Line[i]

(* ... by one more event, ... *)
LineGrows(e) ==
  /\ DOMAIN Line = 1..Len(Line) /\ DOMAIN Line' = 1..Len(Line) + 1 /\ Len(Line) \in Nat
  /\ \A i \in 1..Len(Line) : Line'[i] = Line[i]
  /\ Line'[Len(Line) + 1] = e

(* ... or by the oldest one that the worker takes. *)
LineShrinks ==
  /\ DOMAIN Line = 1..Len(Line) /\ DOMAIN Line' = 1..Len(Line) - 1 /\ Len(Line) \in Nat \ {0}
  /\ \A i \in 1..Len(Line) - 1 : Line'[i] = Line[i + 1]
  /\ Head(queue) = Line[1]

LEMMA ConcatAt ==
  ASSUME NEW q \in Seq(Event), NEW p \in Seq(Event)
  PROVE  /\ q \o p \in Seq(Event) /\ DOMAIN (q \o p) = 1..Len(q \o p) /\ Len(q \o p) \in Nat
         /\ Len(q \o p) = Len(q) + Len(p) /\ Len(q) \in Nat /\ Len(p) \in Nat
         /\ \A i \in 1..Len(q) : (q \o p)[i] = q[i] /\ i \in 1..Len(q \o p)
         /\ \A i \in 1..Len(p) : (q \o p)[Len(q) + i] = p[i] /\ Len(q) + i \in 1..Len(q \o p)
  <1>1. q \o p \in Seq(Event) /\ Len(q \o p) = Len(q) + Len(p)
    BY ConcatProperties
  <1>2. Len(q) \in Nat /\ Len(p) \in Nat
    BY LenProperties
  <1>3. \A i \in 1..Len(q) + Len(p) : (q \o p)[i] = IF i <= Len(q) THEN q[i] ELSE p[i - Len(q)]
    BY ConcatProperties
  <1>4. \A i \in 1..Len(q) : (q \o p)[i] = q[i] /\ i \in 1..Len(q \o p)
    BY <1>1, <1>2, <1>3
  <1>5. ASSUME NEW i \in 1..Len(p)
        PROVE  (q \o p)[Len(q) + i] = p[i] /\ Len(q) + i \in 1..Len(q \o p)
    <2>1. Len(q) + i \in 1..Len(q) + Len(p) /\ ~(Len(q) + i <= Len(q)) /\ (Len(q) + i) - Len(q) = i
      BY <1>2
    <2> QED
      BY <1>1, <1>3, <2>1
  <1> QED
    BY <1>1, <1>2, <1>4, <1>5, LenProperties

LEMMA LineIsSeq ==
  ASSUME TypeOK
  PROVE  /\ Line \in Seq(Event) /\ DOMAIN Line = 1..Len(Line) /\ Len(Line) \in Nat
         /\ Len(Line) = Len(queue) + Len(pipe) /\ Len(queue) \in Nat /\ Len(pipe) \in Nat
         /\ \A i \in 1..Len(queue) : Line[i] = queue[i] /\ i \in 1..Len(Line)
         /\ \A i \in 1..Len(pipe) : Line[Len(queue) + i] = pipe[i] /\ Len(queue) + i \in 1..Len(Line)
  BY ConcatAt DEF Line, TypeOK, HelperTypeOK

LEMMA NothingMoves ==
  ASSUME TypeOK, UNCHANGED <<queue, pipe>>
  PROVE  LineStays
  <1>1. Line' = Line
    BY DEF Line
  <1> QED
    BY <1>1, LineIsSeq DEF LineStays

LEMMA ReadLineStays ==
  ASSUME TypeOK, TypeOK', ReadLine
  PROVE  LineStays
  <1>1. /\ pipe # <<>> /\ queue' = Append(queue, Head(pipe)) /\ pipe' = Tail(pipe)
        /\ pipe \in Seq(Event) /\ queue \in Seq(Event)
    BY DEF ReadLine, TypeOK, HelperTypeOK
  <1>2. /\ Len(queue') = Len(queue) + 1 /\ Len(pipe') = Len(pipe) - 1
        /\ \A i \in 1..Len(queue) : queue'[i] = queue[i]
        /\ queue'[Len(queue) + 1] = pipe[1]
        /\ \A i \in 1..Len(pipe) - 1 : pipe'[i] = pipe[i + 1]
        /\ Len(pipe) \in Nat \ {0}
    <2>1. Head(pipe) \in Event /\ Head(pipe) = pipe[1] /\ Len(pipe) \in Nat \ {0}
      BY <1>1, EmptySeq, LenProperties
    <2> QED
      BY <1>1, <2>1, AppendProperties, HeadTailProperties
  <1>3. /\ DOMAIN Line = 1..Len(Line) /\ Len(Line) \in Nat
        /\ Len(Line) = Len(queue) + Len(pipe) /\ Len(queue) \in Nat
        /\ \A i \in 1..Len(queue) : Line[i] = queue[i]
        /\ \A i \in 1..Len(pipe) : Line[Len(queue) + i] = pipe[i]
    BY LineIsSeq
  <1>4. /\ DOMAIN Line' = 1..Len(Line') /\ Len(Line') = Len(queue') + Len(pipe')
        /\ \A i \in 1..Len(queue') : Line'[i] = queue'[i]
        /\ \A i \in 1..Len(pipe') : Line'[Len(queue') + i] = pipe'[i]
    <2>1. queue' \in Seq(Event) /\ pipe' \in Seq(Event)
      BY DEF TypeOK, HelperTypeOK
    <2> QED
      BY <2>1, ConcatAt DEF Line
  <1>5. Len(Line') = Len(Line)
    BY <1>2, <1>3, <1>4
  <1>6. ASSUME NEW i \in 1..Len(Line) PROVE Line'[i] = Line[i]
    <2>1. CASE i <= Len(queue)
      <3>1. i \in 1..Len(queue) /\ i \in 1..Len(queue')
        BY <1>2, <1>3, <2>1
      <3> QED
        BY <1>2, <1>3, <1>4, <3>1
    <2>2. CASE i = Len(queue) + 1
      <3>1. i \in 1..Len(queue') /\ 1 \in 1..Len(pipe)
        BY <1>2, <1>3, <2>2
      <3> QED
        BY <1>2, <1>3, <1>4, <2>2, <3>1
    <2>3. CASE i > Len(queue) + 1
      <3> DEFINE k == i - Len(queue')
      <3>1. /\ k \in 1..Len(pipe) - 1 /\ k + 1 \in 1..Len(pipe)
            /\ Len(queue') + k = i /\ Len(queue) + (k + 1) = i
        BY <1>2, <1>3, <2>3
      <3> HIDE DEF k
      <3>2. Line'[i] = pipe'[k]
        BY <1>2, <1>4, <3>1
      <3>3. Line[i] = pipe[k + 1]
        BY <1>3, <3>1
      <3> QED
        BY <1>2, <3>1, <3>2, <3>3
    <2> QED
      BY <1>3, <2>1, <2>2, <2>3
  <1> QED
    BY <1>3, <1>4, <1>5, <1>6 DEF LineStays

LEMMA SaidGrows ==
  ASSUME TypeOK, NEW e \in Event, UNCHANGED queue, pipe' = pipe \o <<e>>
  PROVE  LineGrows(e)
  <1>1. queue \in Seq(Event) /\ pipe \in Seq(Event) /\ <<e>> \in Seq(Event)
    BY DEF TypeOK, HelperTypeOK
  <1>2. /\ pipe' \in Seq(Event) /\ Len(pipe') = Len(pipe) + 1 /\ Len(pipe) \in Nat
        /\ \A i \in 1..Len(pipe) : pipe'[i] = pipe[i]
        /\ pipe'[Len(pipe) + 1] = e
    BY <1>1
  <1>3. /\ DOMAIN Line' = 1..Len(Line') /\ Len(Line') = Len(queue) + Len(pipe')
        /\ \A i \in 1..Len(queue) : Line'[i] = queue[i]
        /\ \A i \in 1..Len(pipe') : Line'[Len(queue) + i] = pipe'[i]
    BY SMTT(30), <1>1, <1>2, ConcatAt DEF Line
  <1>4. /\ DOMAIN Line = 1..Len(Line) /\ Len(Line) \in Nat
        /\ Len(Line) = Len(queue) + Len(pipe) /\ Len(queue) \in Nat
        /\ \A i \in 1..Len(queue) : Line[i] = queue[i]
        /\ \A i \in 1..Len(pipe) : Line[Len(queue) + i] = pipe[i]
    BY LineIsSeq
  <1>5. ASSUME NEW i \in 1..Len(Line) PROVE Line'[i] = Line[i]
    <2>1. CASE i \in 1..Len(queue)
      BY <1>3, <1>4, <2>1
    <2>2. CASE i \notin 1..Len(queue)
      <3> DEFINE k == i - Len(queue)
      <3>1. k \in 1..Len(pipe) /\ k \in 1..Len(pipe') /\ Len(queue) + k = i
        BY <1>2, <1>4, <2>2
      <3> HIDE DEF k
      <3>2. Line'[i] = pipe'[k]
        BY <1>3, <3>1
      <3>3. Line[i] = pipe[k]
        BY <1>4, <3>1
      <3> QED
        BY <1>2, <3>1, <3>2, <3>3
    <2> QED
      BY <2>1, <2>2
  <1>6. Line'[Len(Line) + 1] = e
    <2>1. Len(pipe') \in 1..Len(pipe') /\ Len(queue) + Len(pipe') = Len(Line) + 1
      BY <1>2, <1>4
    <2>2. Line'[Len(queue) + Len(pipe')] = pipe'[Len(pipe')]
      BY <1>3, <2>1
    <2> QED
      BY <1>2, <2>1, <2>2
  <1>7. Len(Line') = Len(Line) + 1
    BY <1>2, <1>3, <1>4
  <1> QED
    BY <1>3, <1>4, <1>5, <1>6, <1>7 DEF LineGrows

LEMMA TakenShrinks ==
  ASSUME TypeOK, Take, UNCHANGED pipe
  PROVE  LineShrinks
  <1>1. /\ queue \in Seq(Event) /\ pipe \in Seq(Event) /\ queue # <<>> /\ queue' = Tail(queue)
    BY DEF TypeOK, HelperTypeOK, Take
  <1>2. /\ queue' \in Seq(Event) /\ Len(queue') = Len(queue) - 1 /\ Len(queue) \in Nat \ {0}
        /\ \A i \in 1..Len(queue) - 1 : queue'[i] = queue[i + 1]
        /\ Head(queue) = queue[1]
    BY <1>1, HeadTailProperties, EmptySeq, LenProperties
  <1>3. /\ DOMAIN Line' = 1..Len(Line') /\ Len(Line') = Len(queue') + Len(pipe)
        /\ \A i \in 1..Len(queue') : Line'[i] = queue'[i]
        /\ \A i \in 1..Len(pipe) : Line'[Len(queue') + i] = pipe[i]
    BY SMTT(30), <1>1, <1>2, ConcatAt DEF Line
  <1>4. /\ DOMAIN Line = 1..Len(Line) /\ Len(Line) \in Nat
        /\ Len(Line) = Len(queue) + Len(pipe) /\ Len(pipe) \in Nat
        /\ \A i \in 1..Len(queue) : Line[i] = queue[i]
        /\ \A i \in 1..Len(pipe) : Line[Len(queue) + i] = pipe[i]
    BY LineIsSeq
  <1>5. ASSUME NEW i \in 1..Len(Line) - 1 PROVE Line'[i] = Line[i + 1]
    <2>1. CASE i \in 1..Len(queue')
      <3>1. i + 1 \in 1..Len(queue) /\ i \in 1..Len(queue) - 1
        BY <1>2, <2>1
      <3> QED
        BY <1>2, <1>3, <1>4, <2>1, <3>1
    <2>2. CASE i \notin 1..Len(queue')
      <3> DEFINE k == i - Len(queue')
      <3>1. k \in 1..Len(pipe) /\ Len(queue') + k = i /\ Len(queue) + k = i + 1
        BY <1>2, <1>4, <2>2
      <3> HIDE DEF k
      <3>2. Line'[i] = pipe[k]
        BY <1>3, <3>1
      <3>3. Line[i + 1] = pipe[k]
        BY <1>4, <3>1
      <3> QED
        BY <3>2, <3>3
    <2> QED
      BY <2>1, <2>2
  <1>6. Head(queue) = Line[1]
    <2>1. 1 \in 1..Len(queue)
      BY <1>2
    <2> QED
      BY <1>2, <1>4, <2>1
  <1>7. Len(Line') = Len(Line) - 1 /\ Len(Line) \in Nat \ {0}
    BY <1>2, <1>3, <1>4
  <1> QED
    BY <1>3, <1>4, <1>5, <1>6, <1>7 DEF LineShrinks

(* The reader ends when nothing is left to read. *)
LEMMA ReaderEndsGrows ==
  ASSUME TypeOK, ReaderEnds
  PROVE  LineGrows(Ev("eof", NoId, FALSE)) /\ Anonymous(Ev("eof", NoId, FALSE))
  <1> DEFINE e == Ev("eof", NoId, FALSE)
  <1>1. e \in Event /\ Anonymous(e)
    <2>1. NoId \in Ids
      BY MaxIdNat DEF NoId, Ids
    <2> QED
      BY <2>1, EvTyped DEF Anonymous, Ev
  <1>2. /\ pipe = <<>> /\ queue' = Append(queue, e) /\ pipe' = pipe
        /\ pipe \in Seq(Event) /\ queue \in Seq(Event)
    BY DEF ReaderEnds, OnlyReader, TypeOK, HelperTypeOK
  <1> HIDE DEF e
  <1>3. Line = queue /\ Line' = Append(queue, e)
    <2>1. Append(queue, e) \in Seq(Event)
      BY <1>1, <1>2, AppendProperties
    <2> QED
      BY <1>2, <2>1, ConcatEmptySeq DEF Line
  <1>4. Append(queue, e) \in Seq(Event) /\ Len(queue) \in Nat /\ DOMAIN queue = 1..Len(queue)
        /\ DOMAIN Append(queue, e) = 1..Len(queue) + 1
        /\ (\A i \in 1..Len(queue) : Append(queue, e)[i] = queue[i])
        /\ Append(queue, e)[Len(queue) + 1] = e
    BY <1>1, <1>2, AppendProperties, LenProperties
  <1> QED
    BY <1>1, <1>3, <1>4 DEF LineGrows, e

-----------------------------------------------------------------------------
(* Steps that say nothing of a command. *)
LEMMA RestGoesOn ==
  ASSUME Rest, UNCHANGED commands, helper'.at \notin {"busy", "cancelled"},
         \/ LineStays
         \/ \E e : LineGrows(e) /\ Anonymous(e)
         \/ LineShrinks
  PROVE  Rest'
  <1> USE DEF Rest
  <1>1. CASE LineStays
    BY <1>1 DEF LineStays, Anonymous
  <1>2. ASSUME NEW e, LineGrows(e), Anonymous(e) PROVE Rest'
    <2>1. \A i \in DOMAIN Line' : Anonymous(Line'[i])
      BY <1>2 DEF LineGrows
    <2> QED
      BY <2>1 DEF Anonymous
  <1>3. CASE LineShrinks
    <2>1. \A i \in DOMAIN Line' : Anonymous(Line'[i])
      BY <1>3 DEF LineShrinks
    <2> QED
      BY <2>1 DEF Anonymous
  <1> QED
    BY <1>1, <1>2, <1>3

LEMMA ConversationGoesOn ==
  ASSUME Conversation, UNCHANGED <<commands, call>>, ses'.nextId = ses.nextId,
         helper'.at \in {"busy", "cancelled"} =>
           helper.at \in {"busy", "cancelled"} /\ helper'.id = helper.id,
         \/ LineStays
         \/ \E e : LineGrows(e) /\ Anonymous(e)
  PROVE  Conversation'
  <1>0. /\ IdsAreOurs' /\ CommandsAreOurs' /\ Unread' = Unread
    BY DEF Conversation, IdsAreOurs, CommandsAreOurs, Unread
  <1>1. CASE LineStays
    <2>1. LineIsOurs'
      BY <1>1 DEF Conversation, LineIsOurs, LineStays, Anonymous
    <2>2. Silent => Silent'
      BY <1>1 DEF Silent, LineStays
    <2>3. UnreadIsSilent'
      BY <1>0, <2>2 DEF Conversation, UnreadIsSilent
    <2>4. ServedIsOurs'
      BY <1>1 DEF Conversation, ServedIsOurs, LineStays
    <2>5. ResultIsLast'
      BY <1>1, <2>2 DEF Conversation, ResultIsLast, LineStays
    <2>6. AckIsOne'
      BY <1>1 DEF Conversation, AckIsOne, LineStays
    <2> QED
      BY <1>0, <2>1, <2>3, <2>4, <2>5, <2>6 DEF Conversation
  <1>2. ASSUME NEW e, LineGrows(e), Anonymous(e) PROVE Conversation'
    <2>0. /\ call.id # NoId /\ e.id # call.id /\ e.type # "ack"
      BY <1>2 DEF Anonymous, Conversation, IdsAreOurs, NoId
    <2>1. LineIsOurs'
      <3>1. \A i \in DOMAIN Line' :
              \/ Anonymous(Line'[i])
              \/ Line'[i].id = call.id /\ Line'[i].type \in {"accepted", "item", "result", "fatal"}
              \/ Line'[i].id = call.cancelId /\ Line'[i].type = "ack" /\ call.cancelId # NoId
        BY <1>2 DEF Conversation, LineIsOurs, LineGrows
      <3> QED
        BY <3>1 DEF LineIsOurs, Anonymous
    <2>2. Silent => Silent'
      BY <1>2, <2>0 DEF Silent, LineGrows
    <2>3. UnreadIsSilent'
      BY <1>0, <2>2 DEF Conversation, UnreadIsSilent
    <2>4. ServedIsOurs'
      BY <1>2, <2>0 DEF Conversation, ServedIsOurs, LineGrows
    <2>5. ResultIsLast'
      BY <1>2, <2>0, <2>2 DEF Conversation, ResultIsLast, LineGrows
    <2>6. AckIsOne'
      BY <1>2, <2>0 DEF Conversation, AckIsOne, LineGrows
    <2> QED
      BY <1>0, <2>1, <2>3, <2>4, <2>5, <2>6 DEF Conversation
  <1> QED
    BY <1>1, <1>2

(* The helper reads what it was sent: the command first, then its
   cancellation, and there is nothing else.                               *)
LEMMA ReadingIsOurs ==
  ASSUME CommandsAreOurs, commands \in Seq(Message), NEW cmd, Read(cmd), UNCHANGED call
  PROVE  /\ CommandsAreOurs' /\ ~Unread'
         /\ cmd \in Kinds \cup {"cancel"}
         /\ cmd \in Kinds => Unread /\ Head(commands).id = call.id
         /\ cmd = "cancel" => /\ commands' = <<>> /\ Head(commands).id = call.cancelId
                              /\ call.cancelId # NoId /\ Head(commands).target = call.id
                              /\ \E i \in DOMAIN commands : commands[i].cmd = "cancel"
         /\ (\E i \in DOMAIN commands' : commands'[i].cmd = "cancel")
              => \E i \in DOMAIN commands : commands[i].cmd = "cancel"
  <1> DEFINE n == Len(commands)
  <1>1. /\ n \in Nat \ {0} /\ DOMAIN commands = 1..n /\ commands' \in Seq(Message)
        /\ DOMAIN commands' = 1..n - 1 /\ Len(commands') = n - 1
        /\ \A i \in 1..n - 1 : commands'[i] = commands[i + 1] /\ i + 1 \in 1..n
        /\ Head(commands) = commands[1] /\ 1 \in 1..n
        /\ commands[1].cmd = cmd
    <2>1. commands # <<>> /\ Head(commands).cmd = cmd /\ commands' = Tail(commands)
      BY DEF Read
    <2> QED
      BY <2>1, HeadTailProperties, EmptySeq, LenProperties
  <1> HIDE DEF n
  <1>2. CommandsAreOurs' /\ ~Unread'
    <2>1. \A i \in 1..n - 1 :
            /\ commands'[i].cmd \notin Kinds
            /\ i = n - 1 /\ commands'[i].cmd = "cancel" /\ call.cancelId # NoId
            /\ commands'[i].id = call.cancelId /\ commands'[i].target = call.id
      BY <1>1 DEF CommandsAreOurs, n, Kinds
    <2> QED
      BY <1>1, <2>1 DEF CommandsAreOurs, Unread
  <1>3. cmd \in Kinds \cup {"cancel"}
    BY <1>1 DEF CommandsAreOurs
  <1>4. cmd \in Kinds => Unread /\ Head(commands).id = call.id
    BY <1>1 DEF CommandsAreOurs, Unread, Kinds
  <1>5. cmd = "cancel" => /\ n = 1 /\ Head(commands).id = call.cancelId
                          /\ call.cancelId # NoId /\ Head(commands).target = call.id
    BY <1>1 DEF CommandsAreOurs, Kinds, n
  <1>6. n = 1 => commands' = <<>>
    BY <1>1, EmptySeq
  <1> QED
    BY <1>1, <1>2, <1>3, <1>4, <1>5, <1>6

(* What the helper says of the command it serves. *)
LEMMA ServingSays ==
  ASSUME Conversation, UNCHANGED <<commands, call>>, ses'.nextId = ses.nextId,
         helper.at \in {"busy", "cancelled"}, helper'.id = helper.id \/ helper'.at \notin {"busy", "cancelled"},
         NEW e, LineGrows(e), e.id = helper.id, e.type \in {"item", "result", "fatal"},
         e.type = "result" => helper'.at \notin {"busy", "cancelled"}
  PROVE  Conversation'
  <1>0. /\ IdsAreOurs' /\ CommandsAreOurs' /\ ~Unread /\ ~Unread' /\ ~call.answered
        /\ e.id = call.id
    BY DEF Conversation, IdsAreOurs, CommandsAreOurs, Unread, UnreadIsSilent, ServedIsOurs
  <1>1. LineIsOurs'
    <2>1. \A i \in DOMAIN Line' :
            \/ Anonymous(Line'[i])
            \/ Line'[i].id = call.id /\ Line'[i].type \in {"accepted", "item", "result", "fatal"}
            \/ Line'[i].id = call.cancelId /\ Line'[i].type = "ack" /\ call.cancelId # NoId
      BY <1>0 DEF Conversation, LineIsOurs, LineGrows
    <2> QED
      BY <2>1 DEF LineIsOurs, Anonymous
  <1>2. UnreadIsSilent'
    BY <1>0 DEF UnreadIsSilent
  <1>3. ServedIsOurs'
    BY <1>0 DEF Conversation, ServedIsOurs, LineGrows
  <1>4. ResultIsLast'
    BY <1>0 DEF Conversation, ServedIsOurs, ResultIsLast, LineGrows
  <1>5. AckIsOne'
    BY DEF Conversation, AckIsOne, LineGrows
  <1> QED
    BY <1>0, <1>1, <1>2, <1>3, <1>4, <1>5 DEF Conversation

(* The helper begins the command. *)
LEMMA AcceptConverses ==
  ASSUME Conversation, commands \in Seq(Message), UNCHANGED <<call, ses>>,
         NEW kind \in Kinds, Read(kind), helper'.at = "busy", helper'.id = Head(commands).id,
         LineGrows(Ev("accepted", Head(commands).id, TRUE))
  PROVE  Conversation'
  <1>0. /\ CommandsAreOurs' /\ ~Unread' /\ Unread /\ Head(commands).id = call.id
        /\ (\E i \in DOMAIN commands' : commands'[i].cmd = "cancel")
              => \E i \in DOMAIN commands : commands[i].cmd = "cancel"
    BY ReadingIsOurs DEF Conversation
  <1>1. Silent /\ ~call.answered /\ call.id # NoId
    BY <1>0 DEF Conversation, UnreadIsSilent, IdsAreOurs, NoId
  <1>2. PICK e : e = Ev("accepted", Head(commands).id, TRUE)
    OBVIOUS
  <1>3. LineGrows(e) /\ e.id = call.id /\ e.type = "accepted"
    BY <1>0, <1>2 DEF Ev
  <1>4. LineIsOurs'
    <2>1. \A i \in DOMAIN Line' :
            \/ Anonymous(Line'[i])
            \/ Line'[i].id = call.id /\ Line'[i].type \in {"accepted", "item", "result", "fatal"}
            \/ Line'[i].id = call.cancelId /\ Line'[i].type = "ack" /\ call.cancelId # NoId
      BY <1>3 DEF Conversation, LineIsOurs, LineGrows
    <2> QED
      BY <2>1 DEF LineIsOurs, Anonymous
  <1>5. ServedIsOurs' /\ ResultIsLast'
    <2>1. \A i \in 1..Len(Line) : Line'[i].id # call.id
      BY <1>1, <1>3 DEF Silent, LineGrows
    <2>2. ServedIsOurs'
      BY <1>0, <1>1, <1>3, <2>1 DEF ServedIsOurs, LineGrows
    <2>3. ResultIsLast'
      BY <1>1, <1>3, <2>1 DEF ResultIsLast, LineGrows
    <2> QED
      BY <2>2, <2>3
  <1>6. AckIsOne'
    <2>1. \A i \in DOMAIN commands' : commands'[i].cmd = "cancel"
            => \E j \in DOMAIN commands : commands[j].cmd = "cancel"
      BY <1>0
    <2>2. call.acked => \A i \in DOMAIN commands' : commands'[i].cmd # "cancel"
      BY <2>1 DEF Conversation, AckIsOne
    <2> QED
      BY <1>3, <2>1, <2>2 DEF Conversation, AckIsOne, LineGrows
  <1>7. IdsAreOurs' /\ UnreadIsSilent'
    BY <1>0 DEF Conversation, IdsAreOurs, UnreadIsSilent
  <1> QED
    BY <1>0, <1>4, <1>5, <1>6, <1>7 DEF Conversation

(* The helper acknowledges the cancellation, be it that it obeys or that the
   command has ended before.                                              *)
LEMMA AckConverses ==
  ASSUME Conversation, commands \in Seq(Message), UNCHANGED <<call, ses>>, Read("cancel"),
         helper'.id = helper.id, helper'.at \in {"busy", "cancelled"} => helper.at = "busy",
         LineGrows(Ev("ack", Head(commands).id, TRUE))
  PROVE  Conversation'
  <1>0. /\ CommandsAreOurs' /\ ~Unread' /\ Head(commands).id = call.cancelId
        /\ call.cancelId # NoId /\ commands' = <<>>
        /\ \E i \in DOMAIN commands : commands[i].cmd = "cancel"
    BY ReadingIsOurs DEF Conversation
  <1>1. PICK e : e = Ev("ack", Head(commands).id, TRUE)
    OBVIOUS
  <1>2. LineGrows(e) /\ e.id = call.cancelId /\ e.type = "ack"
    BY <1>0, <1>1 DEF Ev
  <1>3. e.id # call.id
    BY <1>0, <1>2 DEF Conversation, IdsAreOurs, NoId
  <1>4. ~call.acked /\ \A i \in DOMAIN Line : Line[i].type # "ack"
    BY <1>0 DEF Conversation, AckIsOne
  <1>5. LineIsOurs'
    <2>1. \A i \in DOMAIN Line' :
            \/ Anonymous(Line'[i])
            \/ Line'[i].id = call.id /\ Line'[i].type \in {"accepted", "item", "result", "fatal"}
            \/ Line'[i].id = call.cancelId /\ Line'[i].type = "ack" /\ call.cancelId # NoId
      BY <1>0, <1>2 DEF Conversation, LineIsOurs, LineGrows
    <2> QED
      BY <2>1 DEF LineIsOurs, Anonymous
  <1>6. ServedIsOurs'
    BY <1>2, <1>3 DEF Conversation, ServedIsOurs, LineGrows
  <1>7. ResultIsLast'
    BY SMTT(30), <1>2, <1>3 DEF Conversation, ResultIsLast, Silent, LineGrows
  <1>8. AckIsOne'
    BY <1>0, <1>2, <1>4 DEF AckIsOne, LineGrows
  <1>9. IdsAreOurs' /\ UnreadIsSilent'
    BY <1>0 DEF Conversation, IdsAreOurs, UnreadIsSilent
  <1> QED
    BY <1>0, <1>5, <1>6, <1>7, <1>8, <1>9 DEF Conversation

LEMMA HelperConverses ==
  ASSUME TypeOK, HelperStep, UNCHANGED sesVars, helper.stop = NoId,
         IF call.at = "running" THEN Conversation ELSE Rest
  PROVE  (IF call.at = "running" THEN Conversation ELSE Rest)'
  <1> USE DEF sesVars
  <1>0. /\ UNCHANGED <<queue, call, ses>> /\ NoId \in Ids /\ commands \in Seq(Message)
        /\ helper \in [at: HelperSteps, id: Ids, kind: Kinds, items: 0..1,
                       stop: Ids, raised: BOOLEAN, clean: BOOLEAN]
        /\ ses'.nextId = ses.nextId
    BY MaxIdNat DEF TypeOK, HelperTypeOK, NoId, Ids
  <1>1. ASSUME UNCHANGED commands, helper'.at \notin {"busy", "cancelled"}, helper'.id = helper.id,
               UNCHANGED pipe \/ \E e \in Event : Anonymous(e) /\ Emit(<<e>>)
        PROVE  (IF call.at = "running" THEN Conversation ELSE Rest)'
    <2>1. LineStays \/ \E e : LineGrows(e) /\ Anonymous(e)
      BY <1>0, <1>1, NothingMoves, SaidGrows DEF Emit
    <2> QED
      BY <1>0, <1>1, <2>1, RestGoesOn, ConversationGoesOn
  <1>2. \A type \in {"starting", "waiting", "ready", "complete", "error"}, ok \in BOOLEAN :
          Ev(type, NoId, ok) \in Event /\ Anonymous(Ev(type, NoId, ok))
    BY <1>0, EvTyped DEF Anonymous, Ev
  <1>3. ASSUME NEW id \in Ids, NEW ok \in BOOLEAN,
               NEW type \in {"accepted", "item", "result", "ack", "fatal"},
               Emit(<<Ev(type, id, ok)>>)
        PROVE  /\ LineGrows(Ev(type, id, ok))
               /\ Ev(type, id, ok).id = id /\ Ev(type, id, ok).type = type
    <2>1. Ev(type, id, ok) \in Event
      BY EvTyped
    <2>2. LineGrows(Ev(type, id, ok))
      BY <1>0, <1>3, <2>1, SaidGrows DEF Emit
    <2> QED
      BY <2>2 DEF Ev
  <1>4. CASE Announce
    BY <1>0, <1>1, <1>2, <1>4 DEF Announce
  <1>5. CASE FailStart \/ Exit \/ Die
    BY <1>0, <1>1, <1>5 DEF FailStart, Exit, Die
  <1>6. CASE KeepWaiting
    BY <1>0, <1>1, <1>2, <1>6 DEF KeepWaiting
  <1>7. CASE SteamReady
    BY <1>0, <1>1, <1>2, <1>7 DEF SteamReady
  <1>8. CASE ReportError
    BY <1>0, <1>1, <1>2, <1>8 DEF ReportError
  <1>9. ASSUME NEW steamDown \in BOOLEAN, NEW removed \in BOOLEAN, ShutDown(steamDown, removed)
        PROVE  (IF call.at = "running" THEN Conversation ELSE Rest)'
    BY <1>0, <1>1, <1>2, <1>9 DEF ShutDown
  <1>10. ASSUME NEW cmd, Read(cmd)
         PROVE  call.at = "running" /\ Conversation /\ cmd \in Kinds \cup {"cancel"}
                /\ Head(commands).id \in Ids
    <2>1. call.at = "running"
      BY <1>10 DEF Read, Rest
    <2> QED
      BY <1>0, <1>10, <2>1, ReadingIsOurs, ReadTyped DEF Conversation
  <1>11. ASSUME helper.at \in {"busy", "cancelled"}
         PROVE  call.at = "running" /\ Conversation /\ helper.id \in Ids
    BY <1>0, <1>11 DEF Rest
  <1>12. CASE Accept
    <2>1. PICK kind \in Kinds :
            /\ Read(kind)
            /\ helper' = [helper EXCEPT !.at = "busy", !.id = Head(commands).id,
                                        !.kind = kind, !.items = 1]
      BY <1>12 DEF Accept
    <2>2. call.at = "running" /\ Conversation /\ Head(commands).id \in Ids
      BY <1>10, <2>1
    <2>3. LineGrows(Ev("accepted", Head(commands).id, TRUE))
      BY <1>3, <1>12, <2>2 DEF Accept
    <2>4. helper'.at = "busy" /\ helper'.id = Head(commands).id
      BY <1>0, <2>1
    <2> QED
      BY <1>0, <2>1, <2>2, <2>3, <2>4, AcceptConverses
  <1>13. CASE CancelNothing
    <2>1. Read("cancel") /\ call.at = "running" /\ Conversation /\ Head(commands).id \in Ids
      BY <1>10, <1>13 DEF CancelNothing
    <2>2. LineGrows(Ev("ack", Head(commands).id, TRUE))
      BY <1>3, <1>13, <2>1 DEF CancelNothing
    <2>3. helper'.at = "idle" /\ helper'.id = helper.id
      BY <1>13 DEF CancelNothing
    <2> QED
      BY <1>0, <2>1, <2>2, <2>3, AckConverses
  <1>14. CASE Control
    <2>1. PICK cmd \in Kinds \cup {"cancel"} : Read(cmd)
      BY <1>14 DEF Control
    <2>2. helper.at = "busy" /\ call.at = "running" /\ Conversation /\ Head(commands).id \in Ids
      BY <1>10, <1>14, <2>1 DEF Control, Listening
    <2>3. ~Unread /\ helper.id = call.id
      BY <2>2 DEF Conversation, UnreadIsSilent, ServedIsOurs
    <2>4. cmd = "cancel" /\ Head(commands).target = call.id /\ Head(commands).cmd = "cancel"
      BY <1>0, <2>1, <2>2, <2>3, ReadingIsOurs DEF Conversation, Read
    <2>5. /\ helper' = [helper EXCEPT !.at = "cancelled"]
          /\ Emit(<<Ev("ack", Head(commands).id, TRUE)>>)
      BY <1>14, <2>3, <2>4 DEF Control
    <2>6. LineGrows(Ev("ack", Head(commands).id, TRUE))
      BY <1>3, <2>2, <2>5
    <2>7. helper'.id = helper.id
      BY <1>0, <2>5
    <2> QED
      BY <1>0, <2>1, <2>2, <2>4, <2>6, <2>7, AckConverses
  <1>15. CASE ReportItem
    <2>1. /\ helper.at = "busy" /\ helper'.at = "busy" /\ helper'.id = helper.id
          /\ UNCHANGED commands /\ call.at = "running" /\ Conversation /\ helper.id \in Ids
      BY <1>0, <1>11, <1>15 DEF ReportItem
    <2>2. /\ LineGrows(Ev("item", helper.id, TRUE))
          /\ Ev("item", helper.id, TRUE).id = helper.id /\ Ev("item", helper.id, TRUE).type = "item"
      BY <1>3, <1>15, <2>1 DEF ReportItem
    <2> QED
      BY <1>0, <2>1, <2>2, ServingSays
  <1>16. ASSUME NEW ok \in BOOLEAN, Complete(ok) \/ (CancelledResult /\ ok = FALSE)
         PROVE  (IF call.at = "running" THEN Conversation ELSE Rest)'
    <2>1. /\ helper.at \in {"busy", "cancelled"} /\ helper'.at = "idle"
          /\ UNCHANGED commands /\ call.at = "running" /\ Conversation /\ helper.id \in Ids
      BY <1>0, <1>11, <1>16 DEF Complete, CancelledResult
    <2>2. Emit(<<Ev("result", helper.id, ok)>>)
      BY <1>16 DEF Complete, CancelledResult
    <2>3. /\ LineGrows(Ev("result", helper.id, ok))
          /\ Ev("result", helper.id, ok).id = helper.id /\ Ev("result", helper.id, ok).type = "result"
      BY <1>3, <2>1, <2>2
    <2> QED
      BY <1>0, <2>1, <2>3, ServingSays
  <1>17. CASE FailCommand
    <2>1. /\ helper.at = "busy" /\ helper'.at = "ending"
          /\ UNCHANGED commands /\ call.at = "running" /\ Conversation /\ helper.id \in Ids
      BY <1>0, <1>11, <1>17 DEF FailCommand
    <2>2. /\ LineGrows(Ev("fatal", helper.id, FALSE))
          /\ Ev("fatal", helper.id, FALSE).id = helper.id /\ Ev("fatal", helper.id, FALSE).type = "fatal"
      BY <1>3, <1>17, <2>1 DEF FailCommand
    <2> QED
      BY <1>0, <2>1, <2>2, ServingSays
  <1>18. CASE TakeShutdown \/ TakeEof
    BY <1>10, <1>18 DEF TakeShutdown, TakeEof, Kinds
  <1> QED
    BY <1>4, <1>5, <1>6, <1>7, <1>8, <1>9, <1>12, <1>13, <1>14, <1>15, <1>16, <1>17, <1>18
    DEF HelperStep

-----------------------------------------------------------------------------
(* The worker takes an answer to the command that runs. *)
LEMMA TakingConverses ==
  ASSUME Conversation, LineShrinks, UNCHANGED <<commands, helper>>, ses'.nextId = ses.nextId,
         call'.id = call.id, call'.cancelId = call.cancelId,
         call'.answered => call.answered \/ (Line[1].id = call.id /\ Line[1].type = "result"),
         call'.acked => call.acked \/ Line[1].type = "ack"
  PROVE  Conversation'
  <1>0. /\ IdsAreOurs' /\ CommandsAreOurs' /\ Unread' = Unread
    BY DEF Conversation, IdsAreOurs, CommandsAreOurs, Unread
  <1>1. /\ 1 \in DOMAIN Line
        /\ \A i \in DOMAIN Line' : i \in DOMAIN Line /\ i + 1 \in DOMAIN Line /\ 1 < i + 1
                                   /\ Line'[i] = Line[i + 1]
        /\ \A i, j \in DOMAIN Line' : i + 1 = j + 1 => i = j
        /\ \A i, j \in DOMAIN Line' : i < j => i + 1 < j + 1
    BY DEF LineShrinks
  <1>2. LineIsOurs'
    BY <1>1 DEF Conversation, LineIsOurs, Anonymous
  <1>3. Silent => Silent'
    BY <1>1 DEF Silent
  <1>4. UnreadIsSilent'
    <2>1. Unread => Silent /\ ~call.answered
      BY DEF Conversation, UnreadIsSilent
    <2>2. Unread => ~call'.answered
      BY <1>1, <2>1 DEF Silent
    <2> QED
      BY <1>0, <1>3, <2>1, <2>2 DEF Conversation, UnreadIsSilent
  <1>5. ServedIsOurs'
    BY <1>1 DEF Conversation, ServedIsOurs
  <1>6. ResultIsLast'
    <2>1. call'.answered => Silent'
      <3>1. CASE call.answered
        BY <1>3, <3>1 DEF Conversation, ResultIsLast
      <3>2. CASE Line[1].id = call.id /\ Line[1].type = "result"
        BY <1>1, <3>2 DEF Conversation, ResultIsLast, Silent
      <3> QED
        BY <3>1, <3>2
    <2>2. \A i, j \in DOMAIN Line' :
            i < j /\ Line'[i].id = call.id /\ Line'[i].type = "result" => Line'[j].id # call.id
      BY <1>1 DEF Conversation, ResultIsLast
    <2> QED
      BY <2>1, <2>2 DEF ResultIsLast
  <1>7. AckIsOne'
    <2>1. \A i, j \in DOMAIN Line' : Line'[i].type = "ack" /\ Line'[j].type = "ack" => i = j
      BY <1>1 DEF Conversation, AckIsOne
    <2>2. Line[1].type = "ack" =>
            /\ \A i \in DOMAIN Line' : Line'[i].type # "ack"
            /\ \A i \in DOMAIN commands : commands[i].cmd # "cancel"
            /\ call.cancelId # NoId
      <3>1. Line[1].type = "ack" => \A i \in DOMAIN Line' : Line'[i].type # "ack"
        <4> SUFFICES ASSUME Line[1].type = "ack", NEW i \in DOMAIN Line', Line'[i].type = "ack"
                     PROVE  FALSE
          OBVIOUS
        <4>1. i + 1 = 1
          BY <1>1 DEF Conversation, AckIsOne
        <4> QED
          BY <1>1, <4>1
      <3>2. Line[1].type = "ack" => \A i \in DOMAIN commands : commands[i].cmd # "cancel"
        BY <1>1 DEF Conversation, AckIsOne
      <3>3. Line[1].type = "ack" => call.cancelId # NoId
        BY <1>1 DEF Conversation, LineIsOurs, Anonymous
      <3> QED
        BY <3>1, <3>2, <3>3
    <2>3. call.acked \/ (\E i \in DOMAIN commands : commands[i].cmd = "cancel")
            => \A i \in DOMAIN Line' : Line'[i].type # "ack"
      BY <1>1 DEF Conversation, AckIsOne
    <2>4. call'.acked => \/ /\ call.cancelId # NoId
                            /\ \A i \in DOMAIN commands : commands[i].cmd # "cancel"
                            /\ \A i \in DOMAIN Line' : Line'[i].type # "ack"
      <3>1. CASE call.acked
        BY <2>3, <3>1 DEF Conversation, AckIsOne
      <3>2. CASE Line[1].type = "ack"
        BY <2>2, <3>2
      <3> QED
        BY <3>1, <3>2
    <2> QED
      BY <2>1, <2>3, <2>4 DEF AckIsOne
  <1> QED
    BY <1>0, <1>2, <1>4, <1>5, <1>6, <1>7 DEF Conversation

(* With the answer that ends the command the channel is at rest again. *)
LEMMA EndingRests ==
  ASSUME Conversation, commands \in Seq(Message), LineShrinks, UNCHANGED <<commands, helper>>,
         \/ /\ Line[1].id = call.id /\ Line[1].type = "result"
            /\ call.cancelId = NoId \/ call.acked
         \/ Line[1].type = "ack" /\ call.answered
  PROVE  Rest'
  <1>1. /\ 1 \in DOMAIN Line
        /\ \A i \in DOMAIN Line' : i + 1 \in DOMAIN Line /\ 1 < i + 1 /\ i + 1 # 1
                                   /\ Line'[i] = Line[i + 1]
    BY DEF LineShrinks
  <1>2. ~Unread /\ helper.at \notin {"busy", "cancelled"}
    BY <1>1 DEF Conversation, UnreadIsSilent, Silent, ServedIsOurs
  <1>3. \A i \in DOMAIN Line' : Line'[i].id # call.id
    BY <1>1 DEF Conversation, ResultIsLast, Silent
  <1>4. \A i \in DOMAIN Line' : Line'[i].type = "ack" => call.cancelId = NoId
    BY <1>1 DEF Conversation, AckIsOne
  <1>5. \A i \in DOMAIN commands : commands[i].cmd # "cancel" \/ call.cancelId = NoId
    BY <1>1 DEF Conversation, AckIsOne
  <1>6. commands = <<>>
    <2>1. DOMAIN commands = {}
      BY <1>2, <1>5 DEF Unread, Conversation, CommandsAreOurs
    <2>2. Len(commands) \in Nat /\ DOMAIN commands = 1..Len(commands)
      BY LenProperties
    <2>3. Len(commands) = 0
      BY <2>1, <2>2
    <2> QED
      BY <2>3, EmptySeq
  <1>7. \A i \in DOMAIN Line' : Anonymous(Line'[i])
    BY <1>1, <1>3, <1>4 DEF Conversation, LineIsOurs
  <1> QED
    BY <1>2, <1>6, <1>7 DEF Rest, Anonymous

(* The command is written to a helper at rest. *)
LEMMA SendingConverses ==
  ASSUME Rest, StartsFresh, TypeOK, NEW kind \in Kinds, SendCommand(kind), Alive
  PROVE  Conversation'
  <1> DEFINE id == ses.nextId + 1
  <1> DEFINE m == [cmd |-> kind, id |-> id, target |-> NoId]
  <1>0. /\ call = [NoCall EXCEPT !.at = "starting"] /\ commands = <<>>
        /\ ses \in SessionFields /\ ses.nextId \in Nat
    BY NextIdNat DEF StartsFresh, SendCommand, Rest, TypeOK
  <1>1. /\ ses' = [ses EXCEPT !.nextId = id]
        /\ call' = [call EXCEPT !.at = "running", !.id = id]
        /\ commands' = Append(commands, m)
        /\ UNCHANGED <<helper, pipe, queue>>
    BY DEF SendCommand
  <1>2. /\ commands' = <<m>> /\ Len(commands') = 1 /\ DOMAIN commands' = {1}
        /\ commands'[1] = m /\ m.cmd = kind /\ m.id = id
    BY <1>0, <1>1
  <1>3. /\ call'.id = id /\ call'.cancelId = NoId /\ ~call'.acked /\ ~call'.answered
        /\ ses'.nextId = id /\ id \in Nat /\ id # NoId /\ NoId < id /\ NoId \in Nat
    BY <1>0, <1>1 DEF NoCall, SessionFields, NoId
  <1> HIDE DEF id, m
  <1>4. \A i \in DOMAIN Line' : Anonymous(Line'[i])
    <2>1. LineStays
      BY <1>1, NothingMoves
    <2> QED
      BY <2>1 DEF LineStays, Rest
  <1>5. IdsAreOurs'
    BY <1>3 DEF IdsAreOurs
  <1>6. CommandsAreOurs'
    BY <1>2, <1>3 DEF CommandsAreOurs
  <1>7. LineIsOurs'
    BY <1>4 DEF LineIsOurs, Anonymous
  <1>8. Silent'
    BY <1>3, <1>4 DEF Silent, Anonymous
  <1>9. UnreadIsSilent' /\ ServedIsOurs' /\ ResultIsLast'
    BY <1>1, <1>3, <1>4, <1>8 DEF UnreadIsSilent, ServedIsOurs, ResultIsLast, Rest, Anonymous
  <1>10. AckIsOne'
    BY <1>3, <1>4 DEF AckIsOne, Anonymous
  <1> QED
    BY <1>5, <1>6, <1>7, <1>9, <1>10 DEF Conversation

(* The cancellation is written behind it. *)
LEMMA CancellingConverses ==
  ASSUME Conversation, TypeOK, SendCancel, Alive
  PROVE  Conversation'
  <1> DEFINE id == ses.nextId + 1
  <1> DEFINE m == CancelMessage(id)
  <1> DEFINE n == Len(commands)
  <1>0. /\ ses \in SessionFields /\ ses.nextId \in Nat /\ commands \in Seq(Message)
        /\ n \in Nat /\ DOMAIN commands = 1..n /\ call.cancelId = NoId /\ call \in Calls
    BY NextIdNat, LenProperties DEF TypeOK, HelperTypeOK, SendCancel
  <1>1. /\ ses' = [ses EXCEPT !.nextId = id]
        /\ call' = [call EXCEPT !.cancelId = id]
        /\ commands' = Append(commands, m)
        /\ UNCHANGED <<helper, pipe, queue>>
    BY DEF SendCancel
  <1>2. /\ Len(commands') = n + 1 /\ DOMAIN commands' = 1..n + 1
        /\ commands'[n + 1] = m /\ \A i \in 1..n : commands'[i] = commands[i]
    BY <1>0, <1>1
  <1>3. /\ m.cmd = "cancel" /\ m.id = id /\ m.target = call.id
    BY DEF CancelMessage
  <1>4. /\ call'.id = call.id /\ call'.cancelId = id /\ call'.acked = call.acked
        /\ call'.answered = call.answered /\ ses'.nextId = id
        /\ id \in Nat /\ id # NoId /\ NoId < id /\ call.id < id /\ call.id <= id
    BY <1>0, <1>1 DEF Calls, SessionFields, NoId, Conversation, IdsAreOurs
  <1> HIDE DEF id, m
  <1>5. LineStays
    BY <1>1, NothingMoves
  <1>6. ~call.acked /\ \A i \in DOMAIN Line : Line[i].type # "ack"
    BY <1>0 DEF Conversation, LineIsOurs, AckIsOne, Anonymous
  <1>7. IdsAreOurs'
    BY <1>4 DEF IdsAreOurs, Conversation
  <1>8. CommandsAreOurs'
    <2>1. \A i \in 1..n : i = 1 /\ commands[i].cmd \in Kinds /\ commands[i].id = call.id
      BY <1>0 DEF Conversation, CommandsAreOurs
    <2>2. \A i \in 1..n + 1 : i \in 1..n \/ i = n + 1
      BY <1>0
    <2> HIDE DEF n
    <2> QED
      BY <1>2, <1>3, <1>4, <2>1, <2>2 DEF CommandsAreOurs
  <1>9. LineIsOurs'
    BY <1>0, <1>4, <1>5 DEF Conversation, LineIsOurs, LineStays, Anonymous
  <1>10. Silent => Silent'
    BY <1>4, <1>5 DEF Silent, LineStays
  <1>11. UnreadIsSilent'
    <2>1. Unread' => Unread
      BY <1>0, <1>2, <1>3 DEF Unread, Kinds
    <2> QED
      BY <1>1, <1>4, <1>10, <2>1 DEF Conversation, UnreadIsSilent
  <1>12. ServedIsOurs' /\ ResultIsLast'
    <2>1. ServedIsOurs'
      BY <1>1, <1>4, <1>5 DEF Conversation, ServedIsOurs, LineStays
    <2>2. ResultIsLast'
      BY <1>4, <1>5, <1>10 DEF Conversation, ResultIsLast, LineStays
    <2> QED
      BY <2>1, <2>2
  <1>13. AckIsOne'
    BY <1>4, <1>5, <1>6 DEF AckIsOne, LineStays
  <1> QED
    BY <1>7, <1>8, <1>9, <1>11, <1>12, <1>13 DEF Conversation

-----------------------------------------------------------------------------
LEMMA DecodedFatal ==
  ASSUME NEW s \in SessionFields, NEW e
  PROVE  /\ s.fatal => Decoded(s, e).fatal
         /\ Decoded(s, e) \in SessionFields
  <1> DEFINE known == \E d \in {e} : d.type \in {"starting"}
  <1> DEFINE ready == \E d \in {e} : d.type \in {"ready"}
  <1> DEFINE fatal == \E d \in {e} : d.type \in {"eof", "fatal"}
  <1>1. Decoded(s, e) =
          [s EXCEPT !.tempKnown = @ \/ known, !.tempClean = @ /\ ~known,
                    !.ready = @ \/ ready, !.fatal = @ \/ fatal]
    BY DEF Decoded, DecodedAll
  <1> HIDE DEF known, ready, fatal
  <1>2. Decoded(s, e).fatal = (s.fatal \/ fatal)
    BY <1>1 DEF SessionFields
  <1> QED
    BY <1>2, DecodedTyped

LEMMA FailingIsFatal ==
  ASSUME NEW s \in SessionFields, Failing(s)
  PROVE  ses'.fatal /\ call' = NoCall
  BY DEF Failing, SessionFields

(* A command starts without a past and leaves none behind. *)
LEMMA NextStartsFresh ==
  ASSUME TypeOK, StartsFresh, Next
  PROVE  StartsFresh'
  <1> USE DEF helperVars, sesVars
  <1>0. call \in Calls /\ ses \in SessionFields /\ (call' = call => StartsFresh')
        /\ (call' = NoCall => StartsFresh')
    BY DEF TypeOK, StartsFresh, NoCall
  <1>1. CASE CallStep
    <2>1. CASE CallBegin
      BY <2>1 DEF CallBegin, StartsFresh, NoCall
    <2>2. CASE WaitStops
      BY <1>0, <2>2 DEF WaitStops
    <2>3. CASE WaitEvent
      BY <1>0, <2>3 DEF WaitEvent, Failing
    <2>4. CASE WaitFindsDead \/ GiveUpCancel \/ CallFindsDead
      BY <1>0, <2>4 DEF WaitFindsDead, GiveUpCancel, CallFindsDead, Failing
    <2>5. ASSUME NEW kind \in Kinds, SendCommand(kind) PROVE StartsFresh'
      <3>1. call'.at = "running" \/ call' = NoCall
        BY <1>0, <2>5 DEF SendCommand, Calls
      <3> QED
        BY <1>0, <3>1 DEF StartsFresh
    <2>6. CASE SendCancel
      <3>1. call'.at = "running" \/ call' = NoCall
        BY <1>0, <2>6 DEF SendCancel, Calls, Failing
      <3> QED
        BY <1>0, <3>1 DEF StartsFresh
    <2>7. CASE CallEvent
      <3>1. call'.at = "running" \/ call' = NoCall
        <4>1. \/ call' \in {NoCall, [call EXCEPT !.acked = TRUE], [call EXCEPT !.answered = TRUE],
                            [call EXCEPT !.accepted = TRUE], call}
              \/ Failing(Decoded(ses, Head(queue)))
          BY <2>7 DEF CallEvent
        <4>2. call.at = "running"
          BY <2>7 DEF CallEvent
        <4> QED
          BY <1>0, <4>1, <4>2 DEF Failing, Calls
      <3> QED
        BY <1>0, <3>1 DEF StartsFresh
    <2> QED
      BY <1>1, <2>1, <2>2, <2>3, <2>4, <2>5, <2>6, <2>7 DEF CallStep
  <1>2. CASE Helper \/ SignalEnds \/ ReadLine \/ ReaderEnds \/ UserCancels
    BY <1>0, <1>2 DEF Helper, SignalEnds, ReadLine, ReaderEnds, OnlyReader, UserCancels
  <1>3. CASE Recover
    BY <1>0, <1>3 DEF Recover, RecoverReaped, OnlyFinalize, OnlyClose
  <1>4. ASSUME NEW c \in Closers, AskClose(c) \/ CloseStep(c) PROVE StartsFresh'
    <2>1. CASE AskClose(c) \/ CloseBegin(c) \/ CloseReleased(c)
      BY <1>0, <2>1 DEF AskClose, CloseBegin, CloseReleased, OnlyFinalize, OnlyClose
    <2>2. ASSUME NEW removed \in BOOLEAN, CloseAgain(c, removed) PROVE StartsFresh'
      BY SMTT(30), <1>0, <2>2 DEF CloseAgain, OnlyFinalize, OnlyClose
    <2>3. CASE ShutStep
      BY <1>0, <2>3 DEF ShutStep, ShakeEvent, ShakeEnds, Reaped, Terminate, Kill, LoseHelper,
         CloseEnd, OnlyShut, OnlyClose
    <2> QED
      BY <1>4, <2>1, <2>2, <2>3 DEF CloseStep
  <1> QED
    BY <1>1, <1>2, <1>3, <1>4 DEF Next

(* What run_command does to the conversation, unless the session fails. *)
LEMMA CallConverses ==
  ASSUME TypeOK, TypeOK', StartsFresh, CallStep, ~ses'.fatal,
         ~ses.fatal => IF call.at = "running" THEN Conversation ELSE Rest
  PROVE  (IF call.at = "running" THEN Conversation ELSE Rest)'
  <1> USE DEF helperVars
  <1>0. /\ call \in Calls /\ ses \in SessionFields /\ commands \in Seq(Message)
        /\ ~Failing(ses)
    <2>1. call \in Calls /\ ses \in SessionFields /\ commands \in Seq(Message)
      BY DEF TypeOK, HelperTypeOK
    <2> QED
      BY <2>1, FailingIsFatal
  <1>1. CASE CallBegin
    <2>1. Rest /\ LineStays /\ call'.at # "running"
      BY <1>1, NothingMoves DEF CallBegin, NoCall
    <2>2. helper'.at \notin {"busy", "cancelled"}
      BY <1>1, <2>1 DEF CallBegin, Rest, TypeOK, HelperTypeOK
    <2>3. UNCHANGED commands
      BY <1>1 DEF CallBegin
    <2>4. Rest'
      BY <2>1, <2>2, <2>3, RestGoesOn
    <2> QED
      BY <2>1, <2>4
  <1>2. CASE WaitStops
    <2>1. Rest /\ LineStays /\ call'.at # "running"
      BY <1>2, NothingMoves DEF WaitStops, NoTraffic, NoCall
    <2>2. Rest'
      BY <1>2, <2>1, RestGoesOn DEF WaitStops, NoTraffic, Rest
    <2> QED
      BY <2>1, <2>2
  <1>3. CASE WaitEvent
    <2> DEFINE d == Decoded(ses, Head(queue))
    <2>1. d \in SessionFields /\ (ses.fatal => d.fatal)
      BY <1>0, DecodedFatal
    <2> HIDE DEF d
    <2>2. ~Failing([d EXCEPT !.startup = StartupError(Head(queue))])
      <3>1. StartupError(Head(queue)) \in StartupErrors
        BY DEF StartupError, StartupErrors
      <3>2. [d EXCEPT !.startup = StartupError(Head(queue))] \in SessionFields
        BY <2>1, <3>1 DEF SessionFields
      <3> QED
        BY <3>2, FailingIsFatal
    <2>3. ses' = d /\ UNCHANGED call
      BY <1>3, <2>2 DEF WaitEvent, d
    <2>4. Rest /\ call'.at # "running"
      BY <1>3, <2>1, <2>3 DEF WaitEvent
    <2>5. LineShrinks
      BY <1>3, TakenShrinks DEF WaitEvent
    <2>6. Rest'
      BY <1>3, <2>4, <2>5, RestGoesOn DEF WaitEvent, Rest
    <2> QED
      BY <2>4, <2>6
  <1>4. ~WaitFindsDead /\ ~GiveUpCancel /\ ~CallFindsDead
    BY <1>0 DEF WaitFindsDead, GiveUpCancel, CallFindsDead
  <1>5. ASSUME NEW kind \in Kinds, SendCommand(kind)
        PROVE  (IF call.at = "running" THEN Conversation ELSE Rest)'
    <2>1. Alive /\ ses'.fatal = ses.fatal /\ call'.at = "running"
      BY <1>0, <1>5 DEF SendCommand, SessionFields, Calls
    <2>2. Rest
      BY <1>5, <2>1 DEF SendCommand
    <2> QED
      BY <1>5, <2>1, <2>2, SendingConverses
  <1>6. CASE SendCancel
    <2>1. [ses EXCEPT !.nextId = ses.nextId + 1].fatal = ses.fatal
      BY <1>0 DEF SessionFields
    <2>2. ~Failing([ses EXCEPT !.nextId = ses.nextId + 1])
      BY <1>0 DEF Failing, SessionFields
    <2>3. Alive /\ ses'.fatal = ses.fatal /\ call'.at = "running"
      BY <1>0, <1>6, <2>1, <2>2 DEF SendCancel, Calls
    <2>4. Conversation
      BY <1>6, <2>3 DEF SendCancel
    <2> QED
      BY <1>6, <2>3, <2>4, CancellingConverses
  <1>7. CASE CallEvent
    <2> DEFINE e == Head(queue)
    <2>0. LineShrinks /\ e = Line[1] /\ UNCHANGED <<commands, helper>> /\ call.at = "running"
      BY <1>7, TakenShrinks DEF CallEvent, LineShrinks
    <2>1. ~Failing(Decoded(ses, e))
      BY <1>0, DecodedFatal, FailingIsFatal
    <2>2. \/ Ends(e) /\ call' = NoCall /\ UNCHANGED ses
          \/ IsAck(e) /\ call' = [call EXCEPT !.acked = TRUE] /\ UNCHANGED ses
          \/ IsResult(e) /\ call' = [call EXCEPT !.answered = TRUE] /\ UNCHANGED ses
          \/ IsStart(e) /\ call' = [call EXCEPT !.accepted = TRUE] /\ UNCHANGED ses
          \/ UNCHANGED <<call, ses>>
      BY <1>7, <2>1 DEF CallEvent
    <2>3. UNCHANGED ses /\ Conversation
      BY <2>0, <2>2
    <2> HIDE DEF e
    <2>4. CASE Ends(e) /\ call' = NoCall
      <3>1. ~IsRefusal(e)
        <4>1. 1 \in DOMAIN Line
          BY <2>0 DEF LineShrinks
        <4>2. e.type # "recoverable"
          BY <2>0, <2>3, <4>1 DEF Conversation, LineIsOurs, Anonymous
        <4> QED
          BY <4>2 DEF IsRefusal
      <3>2. Rest'
        BY <1>0, <2>0, <2>3, <2>4, <3>1, EndingRests DEF Ends, IsResult, IsAck
      <3> QED
        BY <2>4, <3>2 DEF NoCall
    <2>5. CASE \/ IsAck(e) /\ call' = [call EXCEPT !.acked = TRUE]
               \/ IsResult(e) /\ call' = [call EXCEPT !.answered = TRUE]
               \/ IsStart(e) /\ call' = [call EXCEPT !.accepted = TRUE]
               \/ UNCHANGED call
      <3>1. /\ call'.at = "running" /\ call'.id = call.id /\ call'.cancelId = call.cancelId
            /\ call'.answered => call.answered \/ IsResult(e)
            /\ call'.acked => call.acked \/ IsAck(e)
        BY <1>0, <2>0, <2>5 DEF Calls
      <3>2. Conversation'
        BY <2>0, <2>3, <3>1, TakingConverses DEF IsResult, IsAck
      <3> QED
        BY <3>1, <3>2
    <2> QED
      BY <2>2, <2>4, <2>5
  <1> QED
    BY <1>1, <1>2, <1>3, <1>4, <1>5, <1>6, <1>7 DEF CallStep

LEMMA NextConverses ==
  ASSUME IInv, IInv', LastWords, StartsFresh, ConvInv, Next
  PROVE  ConvInv'
  <1> USE DEF helperVars, sesVars
  <1> SUFFICES ASSUME ~ses'.fatal, ~ses'.closed
               PROVE  (IF call.at = "running" THEN Conversation ELSE Rest)'
    BY DEF ConvInv
  <1>0. /\ TypeOK /\ TypeOK' /\ ~ses.closed /\ helper.stop = NoId
        /\ ses \in SessionFields /\ closer \in [Closers -> Closing]
        /\ ~ses.fatal => IF call.at = "running" THEN Conversation ELSE Rest
    <2>1. ~ses.closed
      BY ClosedStays
    <2> QED
      BY <2>1 DEF IInv, LastWords, NotSaid, ConvInv, TypeOK
  <1>1. ASSUME UNCHANGED <<commands, call>>, ses'.fatal = ses.fatal, ses'.nextId = ses.nextId,
               helper' = helper \/ helper'.at = "exited",
               LineStays \/ \E e : LineGrows(e) /\ Anonymous(e)
        PROVE  (IF call.at = "running" THEN Conversation ELSE Rest)'
    BY <1>0, <1>1, RestGoesOn, ConversationGoesOn DEF Rest
  <1>2. CASE Helper
    BY <1>0, <1>2, HelperConverses DEF Helper
  <1>3. CASE SignalEnds
    <2>1. /\ UNCHANGED <<commands, call, ses, queue, pipe>> /\ helper'.at = "exited"
      BY <1>0, <1>3 DEF SignalEnds, Die, TypeOK, HelperTypeOK
    <2> QED
      BY <1>0, <1>1, <2>1, NothingMoves
  <1>4. CASE ReadLine
    BY <1>0, <1>1, <1>4, ReadLineStays DEF ReadLine, OnlyReader
  <1>5. CASE ReaderEnds
    <2>1. \E e : LineGrows(e) /\ Anonymous(e)
      BY <1>0, <1>5, ReaderEndsGrows
    <2> QED
      BY <1>1, <1>5, <2>1 DEF ReaderEnds, OnlyReader
  <1>6. CASE UserCancels
    BY <1>0, <1>1, <1>6, NothingMoves DEF UserCancels
  <1>7. CASE CallStep
    BY <1>0, <1>7, CallConverses
  <1>8. ~Recover
    BY <1>0 DEF Recover, RecoverReaped, IInv, OutcomesHold, Closers
  <1>9. ASSUME NEW c \in Closers, AskClose(c)
        PROVE  (IF call.at = "running" THEN Conversation ELSE Rest)'
    <2>1. ses'.fatal = ses.fatal /\ ses'.nextId = ses.nextId
      BY <1>0, <1>9 DEF AskClose, SessionFields
    <2> QED
      BY <1>0, <1>1, <1>9, <2>1, NothingMoves DEF AskClose
  <1>10. ASSUME NEW c \in Closers, CloseStep(c) PROVE FALSE
    <2>1. ~CloseBegin(c)
      <3>1. ASSUME CloseBegin(c) PROVE FALSE
        <4>1. closer'[c] \in {"ok", "closing"}
          BY <1>0, <3>1 DEF CloseBegin
        <4> QED
          BY <4>1 DEF IInv, OutcomesHold
      <3> QED
        BY <3>1
    <2>2. ~CloseReleased(c)
      BY <1>0 DEF CloseReleased, IInv, ReleasedOwnsNothing
    <2>3. \A removed \in BOOLEAN : ~CloseAgain(c, removed)
      BY <1>0 DEF CloseAgain
    <2>4. ~ShutStep
      <3>1. shut.at = "none"
        BY <1>0 DEF IInv, OneAtATime
      <3> QED
        BY <3>1 DEF ShutStep, ShakeEvent, ShakeEnds, Reaped, Terminate, Kill, LoseHelper, CloseEnd
    <2> QED
      BY <1>10, <2>1, <2>2, <2>3, <2>4 DEF CloseStep
  <1> QED
    BY <1>2, <1>3, <1>4, <1>5, <1>6, <1>7, <1>8, <1>9, <1>10 DEF Next

-----------------------------------------------------------------------------
(* While a session has neither failed nor been closed, what is between the
   launcher and the helper belongs to the command that runs, once each and
   in order, and to nobody when none runs.                                 *)
THEOREM ConversationInvariant == Spec => [](LastWords /\ StartsFresh /\ ConvInv)
  <1> DEFINE Inv == LastWords /\ StartsFresh /\ ConvInv
  <1>1. Init => Inv
    <2>1. Init => LastWords
      BY DEF Init, HelperInit, LastWords, ShutdownIsLast, NotSaid
    <2>2. Init => StartsFresh
      BY DEF Init, StartsFresh, NoCall
    <2>3. ASSUME Init PROVE Rest
      <3>1. queue \o pipe = <<>>
        BY <2>3 DEF Init, HelperInit
      <3> QED
        BY <2>3, <3>1 DEF Init, HelperInit, Rest, Line
    <2>4. Init => call.at # "running"
      BY DEF Init, NoCall
    <2>5. Init => ConvInv
      BY <2>3, <2>4 DEF ConvInv
    <2> QED
      BY <2>1, <2>2, <2>5
  <1>2. IInv /\ IInv' /\ Inv /\ [Next]_vars => Inv'
    <2>1. ASSUME Inv, UNCHANGED vars PROVE Inv'
      <3> USE DEF vars, helperVars, sesVars
      <3>1. LastWords'
        BY <2>1, NothingSaid
      <3>2. StartsFresh'
        BY <2>1 DEF StartsFresh
      <3>3. Line' = Line
        BY <2>1 DEF Line
      <3>4. ConvInv'
        BY <2>1, <3>3 DEF ConvInv, Conversation, Rest, IdsAreOurs, CommandsAreOurs, LineIsOurs,
           UnreadIsSilent, Unread, Silent, ServedIsOurs, ResultIsLast, AckIsOne, Anonymous
      <3> QED
        BY <3>1, <3>2, <3>4
    <2>2. ASSUME IInv, IInv', Inv, Next PROVE Inv'
      <3>1. LastWords'
        BY <2>2, NextLastWords
      <3>2. StartsFresh'
        BY <2>2, NextStartsFresh DEF IInv
      <3>3. ConvInv'
        BY <2>2, NextConverses
      <3> QED
        BY <3>1, <3>2, <3>3
    <2> QED
      BY <2>1, <2>2
  <1> QED
    BY <1>1, <1>2, Invariant, PTL DEF Spec

(* No answer is left over: when a command has returned and the session has
   neither failed nor been closed, the helper is at rest, it has nothing to
   read, and no event on its way bears the id of any request.              *)
THEOREM NothingIsLeftOver == Spec => []QuietBetweenCommands
  <1>1. IInv /\ ConvInv => QuietBetweenCommands
    <2> SUFFICES ASSUME TypeOK, Rest
                 PROVE  /\ helper.at \notin {"busy", "cancelled"} /\ commands = <<>>
                        /\ \A e \in InFlight : e.id = NoId
      BY DEF QuietBetweenCommands, IInv, ConvInv
    <2>1. \A e \in InFlight : \E i \in DOMAIN Line : e = Line[i]
      <3>1. pipe \in Seq(Event) /\ queue \in Seq(Event)
        BY DEF TypeOK, HelperTypeOK
      <3>2. DOMAIN pipe = 1..Len(pipe) /\ DOMAIN queue = 1..Len(queue)
        BY <3>1, LenProperties
      <3> QED
        BY <3>2, LineIsSeq DEF InFlight
    <2> QED
      BY <2>1 DEF Rest, Anonymous
  <1> QED
    BY <1>1, Invariant, ConversationInvariant, PTL

-----------------------------------------------------------------------------
(* A session in which nothing goes wrong: no timer runs out, no call fails,
   the helper does not die and every directory can be removed.            *)
StartsUp(e) == e.type \in {"starting", "waiting", "ready"}

(* Nobody has complained of anything. *)
NoTrouble ==
  /\ ~ses.fatal /\ signal = "none" /\ ses.abandoned = {} /\ ses.teardown = "none"
  /\ \A c \in Closers : closer[c] \notin {"error", "reap", "lifted"}
  /\ ~helper.raised /\ helper.clean
  /\ shut.failed = "none" /\ ~shut.escalated
  /\ shut.at \notin {"terminating", "killing"}
  /\ readerDone => Dead /\ pipe = <<>>

(* Until the session is closed its helper serves, *)
Serves ==
  ~ses.closed =>
    /\ helper.at \in {"none", "starting", "init", "idle", "busy", "cancelled"}
    /\ ~ses.shutdownComplete
    /\ ses.ready => helper.at \in {"idle", "busy", "cancelled"}
    /\ call.at = "running" => ses.ready

(* what it says before the first command ends with session_ready, *)
StartingUp ==
  ~ses.closed /\ call.at # "running" =>
    /\ \A i \in DOMAIN Line : StartsUp(Line[i])
    /\ \A i \in DOMAIN Line : Line[i].type = "ready" =>
         helper.at = "idle" /\ \A j \in DOMAIN Line : j <= i
    /\ ses.ready => DOMAIN Line = {}

(* and what it says of a command begins with the acceptance, which is said
   once.                                                                  *)
AcceptedFirst ==
  ~ses.closed /\ call.at = "running" =>
    /\ \A i \in DOMAIN Line : Line[i].type \in {"accepted", "item", "result", "ack"}
    /\ call.accepted => ~Unread /\ \A i \in DOMAIN Line : Line[i].type # "accepted"
    /\ ~call.accepted /\ ~Unread => \E i \in DOMAIN Line : Line[i].type = "accepted"
    /\ \A i, j \in DOMAIN Line :
         i < j /\ Line[j].type = "accepted" => Line[i].id # call.id

(* While it is being shut down, the helper says nothing but what belongs to
   that, session_shutdown_complete once and before the end of its output. *)
PartingWords ==
  /\ \A i \in DOMAIN Line :
       \/ StartsUp(Line[i])
       \/ Line[i].type = "accepted" /\ Line[i].id = shut.id
       \/ /\ Line[i].type = "complete" /\ Line[i].id = shut.id /\ Line[i].ok
          /\ ~ses.shutdownComplete /\ helper.at \in {"leaving", "exited"}
       \/ Line[i].type = "eof" /\ readerDone
  /\ \A i, j \in DOMAIN Line :
       i < j /\ Line[j].type = "complete" => Line[i].type \notin {"complete", "eof"}

(* It reads the shutdown first, and the launcher is told when it is done. *)
Parting ==
  /\ shut.id # NoId
  /\ helper.at \in {"starting", "init", "idle", "ending", "leaving", "exited"}
  /\ helper.at \in {"starting", "init", "idle"} =>
       commands # <<>> /\ Head(commands).cmd = "shutdown" /\ Head(commands).id = shut.id
  /\ helper.at \in {"starting", "init", "idle", "ending"} => ~ses.shutdownComplete
  /\ helper.at \in {"ending", "leaving", "exited"} => helper.stop = shut.id
  /\ helper.at \in {"leaving", "exited"} =>
       ses.shutdownComplete \/ \E i \in DOMAIN Line : Line[i].type = "complete"
  /\ shut.at = "shaking" => ~ses.shutdownComplete
  /\ shut.at = "settling" => ses.shutdownComplete \/ Dead

Farewell == shut.at # "none" => PartingWords /\ Parting

HealthyInv ==
  faults = {} => NoTrouble /\ Serves /\ StartingUp /\ AcceptedFirst /\ Farewell

-----------------------------------------------------------------------------
LEMMA FaultsStay ==
  ASSUME [Next]_vars
  PROVE  faults' = faults
  <1> USE DEF helperVars, sesVars, NoTraffic, OnlyReader, OnlyFinalize, OnlyShut
  <1>1. HelperStep => faults' = faults
    BY DEF HelperStep, Announce, FailStart, KeepWaiting, SteamReady, Accept, CancelNothing,
       ReportItem, Complete, Control, CancelledResult, TakeShutdown, TakeEof, FailCommand,
       ShutDown, ReportError, Exit, Die
  <1>2. CallStep => faults' = faults
    BY DEF CallStep, CallBegin, WaitStops, WaitEvent, WaitFindsDead, SendCommand, SendCancel,
       GiveUpCancel, CallEvent, CallFindsDead
  <1>3. ShutStep => faults' = faults
    BY DEF ShutStep, ShakeEvent, ShakeEnds, Reaped, Terminate, Kill, LoseHelper, CloseEnd
  <1>4. \A c \in Closers : CloseStep(c) => faults' = faults
    BY <1>3 DEF CloseStep, CloseBegin, CloseReleased, CloseAgain
  <1>5. \A c \in Closers : AskClose(c) => faults' = faults
    BY DEF AskClose
  <1>6. Recover => faults' = faults
    BY DEF Recover, RecoverReaped
  <1>7. SignalEnds \/ ReadLine \/ ReaderEnds \/ UserCancels => faults' = faults
    BY DEF SignalEnds, Die, ReadLine, ReaderEnds, UserCancels
  <1>8. UNCHANGED vars => faults' = faults
    BY DEF vars
  <1> QED
    BY <1>1, <1>2, <1>4, <1>5, <1>6, <1>7, <1>8 DEF Next, Helper

(* What a helper to which nothing happens may do, and say. *)
Speaks(from, to, types) ==
  /\ helper.at \in from /\ helper'.at \in to /\ UNCHANGED commands
  /\ helper'.stop = helper.stop
  /\ \E e \in Event : LineGrows(e) /\ e.type \in types
                      /\ (helper.at \in {"busy", "cancelled"} => e.id = helper.id)

Says(type, id) == LineGrows(Ev(type, id, TRUE))

LEMMA HealthyHelperMoves ==
  ASSUME TypeOK, HelperStep, UNCHANGED queue, faults = {}, helper.clean, ~helper.raised
  PROVE  /\ helper'.clean /\ ~helper'.raised /\ helper.at \notin {"none", "exited"}
         /\ \/ Speaks({"starting", "init"}, {"init"}, {"starting", "waiting"})
            \/ Speaks({"init"}, {"idle"}, {"ready"})
            \/ Speaks({"busy", "cancelled"}, {"busy", "cancelled", "idle"}, {"item", "result"})
            \/ /\ helper.at = "idle" /\ helper'.at = "busy" /\ Says("accepted", Head(commands).id)
               /\ \E kind \in Kinds : Read(kind)
            \/ /\ helper.at = "idle" /\ helper'.at = "idle" /\ Says("ack", Head(commands).id)
               /\ Read("cancel")
            \/ /\ helper.at = "busy" /\ helper'.at = "cancelled" /\ Says("ack", Head(commands).id)
               /\ Read("cancel")
            \/ /\ helper.at = "busy" /\ helper'.at = "busy"
               /\ \E cmd \in Kinds \cup {"cancel"} : Read(cmd)
               /\ ~(Head(commands).cmd = "cancel" /\ Head(commands).target = helper.id)
            \/ /\ Read("shutdown") /\ helper'.at = "ending" /\ Says("accepted", Head(commands).id)
               /\ helper.at \in {"init", "idle", "busy"} /\ helper'.stop = Head(commands).id
            \/ Read("eof") /\ helper.at \in {"init", "idle", "busy"}
            \/ /\ helper.at = "ending" /\ helper'.at = "leaving" /\ Says("complete", helper.stop)
               /\ UNCHANGED commands /\ helper'.stop = helper.stop
            \/ /\ helper.at = "leaving" /\ helper'.at = "exited" /\ LineStays
               /\ UNCHANGED commands /\ helper'.stop = helper.stop
  <1>0. /\ NoId \in Ids /\ commands \in Seq(Message)
        /\ helper \in [at: HelperSteps, id: Ids, kind: Kinds, items: 0..1,
                       stop: Ids, raised: BOOLEAN, clean: BOOLEAN]
        /\ helper.id \in Ids /\ helper.stop \in Ids
    BY MaxIdNat DEF TypeOK, HelperTypeOK, NoId, Ids
  <1>1. ASSUME NEW id \in Ids, NEW ok \in BOOLEAN,
               NEW type \in {"starting", "waiting", "ready", "accepted", "item", "result", "ack",
                             "recoverable", "complete"},
               Emit(<<Ev(type, id, ok)>>)
        PROVE  /\ LineGrows(Ev(type, id, ok))
               /\ \E e \in Event : LineGrows(e) /\ e.type = type /\ e.id = id
    <2> DEFINE e == Ev(type, id, ok)
    <2>1. e \in Event /\ e.type = type /\ e.id = id
      BY EvTyped DEF Ev
    <2>2. pipe' = pipe \o <<e>>
      BY <1>1 DEF Emit
    <2> HIDE DEF e
    <2>3. LineGrows(e)
      BY <2>1, <2>2, SaidGrows
    <2>4. \E x \in Event : LineGrows(x) /\ x.type = type /\ x.id = id
      BY <2>1, <2>3
    <2>5. LineGrows(Ev(type, id, ok))
      BY <2>3 DEF e
    <2> QED
      BY <2>4, <2>5
  <1>2. CASE Announce
    <2>1. \E e \in Event : LineGrows(e) /\ e.type = "starting" /\ e.id = NoId
      BY <1>0, <1>1, <1>2 DEF Announce
    <2>2. PICK e \in Event : LineGrows(e) /\ e.type \in {"starting", "waiting"}
      BY <2>1
    <2>3. /\ helper.at \in {"starting", "init"} /\ helper'.at \in {"init"} /\ UNCHANGED commands
          /\ helper'.stop = helper.stop /\ helper.at \notin {"busy", "cancelled"}
          /\ helper'.clean = helper.clean /\ helper'.raised = helper.raised
      BY <1>0, <1>2 DEF Announce
    <2>4. Speaks({"starting", "init"}, {"init"}, {"starting", "waiting"})
      BY <2>2, <2>3 DEF Speaks
    <2> QED
      BY <2>3, <2>4
  <1>3. CASE KeepWaiting
    <2>1. \E e \in Event : LineGrows(e) /\ e.type = "waiting" /\ e.id = NoId
      BY <1>0, <1>1, <1>3 DEF KeepWaiting
    <2>2. PICK e \in Event : LineGrows(e) /\ e.type \in {"starting", "waiting"}
      BY <2>1
    <2>3. /\ helper.at \in {"starting", "init"} /\ helper'.at \in {"init"} /\ UNCHANGED commands
          /\ helper'.stop = helper.stop /\ helper.at \notin {"busy", "cancelled"}
          /\ helper'.clean = helper.clean /\ helper'.raised = helper.raised
      BY <1>0, <1>3 DEF KeepWaiting
    <2>4. Speaks({"starting", "init"}, {"init"}, {"starting", "waiting"})
      BY <2>2, <2>3 DEF Speaks
    <2> QED
      BY <2>3, <2>4
  <1>4. CASE SteamReady
    <2>1. \E e \in Event : LineGrows(e) /\ e.type = "ready" /\ e.id = NoId
      BY <1>0, <1>1, <1>4 DEF SteamReady
    <2>2. PICK e \in Event : LineGrows(e) /\ e.type \in {"ready"}
      BY <2>1
    <2>3. /\ helper.at \in {"init"} /\ helper'.at \in {"idle"} /\ UNCHANGED commands
          /\ helper'.stop = helper.stop /\ helper.at \notin {"busy", "cancelled"}
          /\ helper'.clean = helper.clean /\ helper'.raised = helper.raised
      BY <1>0, <1>4 DEF SteamReady
    <2>4. Speaks({"init"}, {"idle"}, {"ready"})
      BY <2>2, <2>3 DEF Speaks
    <2> QED
      BY <2>3, <2>4
  <1>5. ASSUME NEW ok \in BOOLEAN, ReportItem \/ Complete(ok) \/ CancelledResult
        PROVE  /\ Speaks({"busy", "cancelled"}, {"busy", "cancelled", "idle"}, {"item", "result"})
               /\ helper'.clean /\ ~helper'.raised /\ helper.at \notin {"none", "exited"}
    <2>1. \E type \in {"item", "result"}, b \in BOOLEAN : Emit(<<Ev(type, helper.id, b)>>)
      BY <1>5 DEF ReportItem, Complete, CancelledResult
    <2>2. \E e \in Event : LineGrows(e) /\ e.type \in {"item", "result"} /\ e.id = helper.id
      <3>1. PICK type \in {"item", "result"}, b \in BOOLEAN : Emit(<<Ev(type, helper.id, b)>>)
        BY <2>1
      <3> DEFINE e == Ev(type, helper.id, b)
      <3>2. e \in Event /\ e.type = type /\ e.id = helper.id
        BY <1>0, <3>1, EvTyped DEF Ev
      <3>3. pipe' = pipe \o <<e>>
        BY <3>1 DEF Emit
      <3> HIDE DEF e
      <3>4. LineGrows(e)
        BY <3>2, <3>3, SaidGrows
      <3> QED
        BY <3>1, <3>2, <3>4
    <2>3. /\ helper.at \in {"busy", "cancelled"} /\ helper'.at \in {"busy", "cancelled", "idle"}
          /\ UNCHANGED commands /\ helper'.stop = helper.stop
          /\ helper'.clean = helper.clean /\ helper'.raised = helper.raised
      BY <1>0, <1>5 DEF ReportItem, Complete, CancelledResult
    <2>4. Speaks({"busy", "cancelled"}, {"busy", "cancelled", "idle"}, {"item", "result"})
      BY <2>2, <2>3 DEF Speaks
    <2> QED
      BY <2>3, <2>4
  <1>6. CASE Accept
    <2>1. PICK kind \in Kinds :
            /\ Read(kind)
            /\ helper' = [helper EXCEPT !.at = "busy", !.id = Head(commands).id,
                                        !.kind = kind, !.items = 1]
      BY <1>6 DEF Accept
    <2>2. Head(commands).id \in Ids
      BY <1>0, <2>1, ReadTyped
    <2>3. Says("accepted", Head(commands).id)
      BY <1>1, <1>6, <2>2 DEF Accept, Says
    <2>4. /\ helper.at = "idle" /\ helper'.at = "busy"
          /\ helper'.clean = helper.clean /\ helper'.raised = helper.raised
      BY <1>0, <1>6, <2>1 DEF Accept
    <2> QED
      BY <2>1, <2>3, <2>4
  <1>7. CASE CancelNothing
    <2>1. Read("cancel") /\ Head(commands).id \in Ids
      BY <1>0, <1>7, ReadTyped DEF CancelNothing
    <2>2. Says("ack", Head(commands).id)
      BY <1>1, <1>7, <2>1 DEF CancelNothing, Says
    <2> QED
      BY <1>7, <2>1, <2>2 DEF CancelNothing
  <1>8. CASE Control
    <2>1. PICK cmd \in Kinds \cup {"cancel"} : Read(cmd)
      BY <1>8 DEF Control
    <2>2. helper.at = "busy" /\ Head(commands).id \in Ids
      BY <1>0, <1>8, <2>1, ReadTyped DEF Control, Listening
    <2>3. CASE Head(commands).cmd = "cancel" /\ Head(commands).target = helper.id
      <3>1. /\ helper' = [helper EXCEPT !.at = "cancelled"]
            /\ Emit(<<Ev("ack", Head(commands).id, TRUE)>>)
        BY <1>8, <2>3 DEF Control
      <3>2. Says("ack", Head(commands).id)
        BY <1>1, <2>2, <3>1 DEF Says
      <3>3. Read("cancel")
        BY <2>1, <2>3 DEF Read
      <3>4. /\ helper'.at = "cancelled" /\ helper'.clean = helper.clean
            /\ helper'.raised = helper.raised
        BY <1>0, <3>1
      <3> QED
        BY <2>2, <3>2, <3>3, <3>4
    <2>4. CASE ~(Head(commands).cmd = "cancel" /\ Head(commands).target = helper.id)
      <3>1. helper' = helper
        BY <1>8, <2>4 DEF Control
      <3> QED
        BY <2>1, <2>2, <2>4, <3>1
    <2> QED
      BY <2>3, <2>4
  <1>9. CASE TakeShutdown
    <2>1. Read("shutdown") /\ Head(commands).id \in Ids
      BY <1>0, <1>9, ReadTyped DEF TakeShutdown
    <2>2. Says("accepted", Head(commands).id)
      BY <1>1, <1>9, <2>1 DEF TakeShutdown, Says
    <2>3. /\ helper'.at = "ending" /\ helper'.stop = Head(commands).id
          /\ helper.at \in {"init", "idle", "busy"}
          /\ helper'.clean = helper.clean /\ helper'.raised = helper.raised
      BY <1>0, <1>9 DEF TakeShutdown, Listening
    <2> QED
      BY <2>1, <2>2, <2>3
  <1>10. CASE TakeEof
    <2>1. /\ Read("eof") /\ helper.at \in {"init", "idle", "busy"}
          /\ helper'.clean = helper.clean /\ helper'.raised = helper.raised
      BY <1>0, <1>10 DEF TakeEof, Listening
    <2> QED
      BY <2>1
  <1>11. ASSUME NEW steamDown \in BOOLEAN, NEW removed \in BOOLEAN, ShutDown(steamDown, removed)
         PROVE  /\ helper.at = "ending" /\ helper'.at = "leaving" /\ Says("complete", helper.stop)
                /\ UNCHANGED commands /\ helper'.stop = helper.stop
                /\ helper'.clean /\ ~helper'.raised
    <2>1. steamDown /\ removed
      BY <1>11 DEF ShutDown
    <2>2. (steamDown /\ removed) = TRUE
      BY <2>1
    <2>3. Emit(<<Ev("complete", helper.stop, TRUE)>>)
      BY <1>11, <2>2 DEF ShutDown
    <2>4. Says("complete", helper.stop)
      BY <1>0, <1>1, <2>3 DEF Says
    <2>5. /\ helper.at = "ending" /\ helper'.at = "leaving"
          /\ UNCHANGED commands /\ helper'.stop = helper.stop
          /\ helper'.clean /\ ~helper'.raised
      BY <1>0, <1>11, <2>1 DEF ShutDown
    <2> QED
      BY <2>4, <2>5
  <1>12. CASE Exit
    <2>1. LineStays
      BY <1>12, NothingMoves DEF Exit
    <2>2. /\ helper.at = "leaving" /\ helper'.at = "exited" /\ UNCHANGED commands
          /\ helper'.stop = helper.stop
          /\ helper'.clean = helper.clean /\ helper'.raised = helper.raised
      BY <1>0, <1>12 DEF Exit
    <2> QED
      BY <2>1, <2>2
  <1>13. ~FailStart /\ ~FailCommand /\ ~ReportError /\ ~("death" \in faults /\ Die)
    BY DEF FailStart, FailCommand, ReportError
  <1> QED
    BY <1>2, <1>3, <1>4, <1>5, <1>6, <1>7, <1>8, <1>9, <1>10, <1>11, <1>12, <1>13 DEF HelperStep

(* A step that moves neither the helper nor what it has said. *)
LEMMA HealthyFrame ==
  ASSUME NoTrouble, Serves, StartingUp, AcceptedFirst, Farewell, LineStays,
         UNCHANGED <<helper, commands, shut, signal, readerDone>>,
         call' = call \/ (call.at # "running" /\ call'.at # "running"),
         ses'.fatal = ses.fatal, ses'.abandoned = ses.abandoned, ses'.teardown = ses.teardown,
         ses'.closed = ses.closed, ses'.shutdownComplete = ses.shutdownComplete,
         ses'.ready = ses.ready,
         \A c \in Closers : closer'[c] \notin {"error", "reap", "lifted"},
         readerDone => pipe' = <<>>
  PROVE  NoTrouble' /\ Serves' /\ StartingUp' /\ AcceptedFirst' /\ Farewell'
  <1>1. NoTrouble'
    BY DEF NoTrouble, Dead
  <1>2. Serves'
    BY DEF Serves
  <1>3. StartingUp'
    BY DEF StartingUp, StartsUp, LineStays
  <1>4. AcceptedFirst'
    BY DEF AcceptedFirst, LineStays, Unread
  <1>5. PartingWords => PartingWords'
    BY DEF PartingWords, StartsUp, LineStays
  <1>6. Parting => Parting'
    BY DEF Parting, LineStays, Dead
  <1> QED
    BY <1>1, <1>2, <1>3, <1>4, <1>5, <1>6 DEF Farewell

(* The helper starts up. *)
LEMMA HelperStartsUp ==
  ASSUME Serves, StartingUp, UNCHANGED <<ses, call>>, ~ses.closed, call.at # "running",
         \/ Speaks({"starting", "init"}, {"init"}, {"starting", "waiting"})
         \/ Speaks({"init"}, {"idle"}, {"ready"})
  PROVE  Serves' /\ StartingUp'
  <1>1. PICK e \in Event :
          /\ LineGrows(e) /\ helper.at \in {"starting", "init"}
          /\ \/ helper'.at = "init" /\ e.type \in {"starting", "waiting"}
             \/ helper'.at = "idle" /\ e.type = "ready"
    BY DEF Speaks
  <1>2. ~ses.ready /\ \A i \in DOMAIN Line : StartsUp(Line[i]) /\ Line[i].type # "ready"
    BY <1>1 DEF Serves, StartingUp
  <1>3. Serves'
    BY <1>1, <1>2 DEF Serves
  <1>4. StartingUp'
    <2>1. \A i \in DOMAIN Line' : \/ StartsUp(Line'[i]) /\ Line'[i].type # "ready"
                                  \/ i = Len(Line) + 1 /\ Line'[i] = e
      BY <1>1, <1>2 DEF LineGrows, StartsUp
    <2>2. \A j \in DOMAIN Line' : j <= Len(Line) + 1
      BY <1>1 DEF LineGrows
    <2>3. StartsUp(e)
      BY <1>1 DEF StartsUp
    <2>4. \A i \in DOMAIN Line' : StartsUp(Line'[i])
      BY <2>1, <2>3
    <2> QED
      BY <1>1, <1>2, <2>1, <2>2, <2>4 DEF StartingUp, StartsUp
  <1> QED
    BY <1>3, <1>4

(* The helper says something more of the command. *)
LEMMA AcceptedGrows ==
  ASSUME AcceptedFirst, UNCHANGED <<call, ses>>, ~ses.closed, call.at = "running",
         ~Unread, ~Unread', NEW e, LineGrows(e), e.type \in {"item", "result", "ack"}
  PROVE  AcceptedFirst'
  <1>1. \A i \in DOMAIN Line' : \/ i \in DOMAIN Line /\ Line'[i] = Line[i]
                                \/ i = Len(Line) + 1 /\ Line'[i] = e
    BY DEF LineGrows
  <1>2. \A i \in DOMAIN Line : i \in DOMAIN Line' /\ Line'[i] = Line[i] /\ i < Len(Line) + 1
    BY DEF LineGrows
  <1>3. \A i, j \in DOMAIN Line' :
          i < j /\ Line'[j].type = "accepted" => Line'[i].id # call.id
    <2> SUFFICES ASSUME NEW i \in DOMAIN Line', NEW j \in DOMAIN Line', i < j,
                        Line'[j].type = "accepted"
                 PROVE  Line'[i].id # call.id
      OBVIOUS
    <2>1. j \in DOMAIN Line /\ Line'[j] = Line[j]
      BY <1>1
    <2>2. i \in DOMAIN Line /\ Line'[i] = Line[i]
      BY <2>1 DEF LineGrows
    <2> QED
      BY <2>1, <2>2 DEF AcceptedFirst
  <1> QED
    BY <1>1, <1>2, <1>3 DEF AcceptedFirst

(* The helper begins with it. *)
LEMMA AcceptedComes ==
  ASSUME AcceptedFirst, UNCHANGED <<call, ses>>, ~ses.closed, call.at = "running",
         Unread, Silent, ~Unread', NEW e, LineGrows(e), e.type = "accepted"
  PROVE  AcceptedFirst'
  <1>1. \A i \in DOMAIN Line' : \/ i \in DOMAIN Line /\ Line'[i] = Line[i]
                                \/ i = Len(Line) + 1 /\ Line'[i] = e
    BY DEF LineGrows
  <1>2. Len(Line) + 1 \in DOMAIN Line' /\ Line'[Len(Line) + 1] = e
    BY DEF LineGrows
  <1>3. \A i, j \in DOMAIN Line' : i < j => Line'[i].id # call.id
    <2> SUFFICES ASSUME NEW i \in DOMAIN Line', NEW j \in DOMAIN Line', i < j
                 PROVE  Line'[i].id # call.id
      OBVIOUS
    <2>1. i \in DOMAIN Line /\ Line'[i] = Line[i]
      BY DEF LineGrows
    <2> QED
      BY <2>1 DEF Silent
  <1> QED
    BY <1>1, <1>2, <1>3 DEF AcceptedFirst

(* The helper serves the command that runs. *)
LEMMA HelperServes ==
  ASSUME TypeOK, HelperStep, UNCHANGED sesVars, faults = {}, helper.clean, ~helper.raised,
         Serves, AcceptedFirst, Conversation, ~ses.closed, call.at = "running"
  PROVE  Serves' /\ AcceptedFirst'
  <1> USE DEF sesVars
  <1>0. /\ UNCHANGED <<queue, call, ses>> /\ commands \in Seq(Message)
        /\ helper.at \in {"idle", "busy", "cancelled"}
    BY DEF TypeOK, HelperTypeOK, Serves
  <1>1. ASSUME NEW cmd, Read(cmd)
        PROVE  /\ cmd \in Kinds \cup {"cancel"} /\ ~Unread'
               /\ cmd \in Kinds => Unread /\ Silent /\ Head(commands).id = call.id
               /\ cmd = "cancel" => ~Unread /\ Head(commands).target = call.id
               /\ Head(commands).cmd = cmd
    <2>1. /\ cmd \in Kinds \cup {"cancel"} /\ ~Unread'
          /\ cmd \in Kinds => Unread /\ Head(commands).id = call.id
          /\ cmd = "cancel" => Head(commands).target = call.id
      BY <1>0, <1>1, ReadingIsOurs DEF Conversation
    <2>2. Unread => Silent
      BY DEF Conversation, UnreadIsSilent
    <2>3. Unread => commands[1].cmd \in Kinds
      BY DEF Conversation, CommandsAreOurs, Unread, Kinds
    <2>4. Head(commands) = commands[1] /\ Head(commands).cmd = cmd
      BY <1>0, <1>1, HeadTailProperties DEF Read
    <2> QED
      BY <2>1, <2>2, <2>3, <2>4 DEF Kinds
  <1>2. helper.at \in {"busy", "cancelled"} => ~Unread /\ helper.id = call.id
    BY DEF Conversation, UnreadIsSilent, ServedIsOurs
  <1>3. ASSUME helper'.at \in {"idle", "busy", "cancelled"} PROVE Serves'
    BY <1>0, <1>3 DEF Serves
  <1>4. CASE Speaks({"busy", "cancelled"}, {"busy", "cancelled", "idle"}, {"item", "result"})
    <2>1. PICK e \in Event : LineGrows(e) /\ e.type \in {"item", "result"}
      BY <1>4 DEF Speaks
    <2>2. /\ helper.at \in {"busy", "cancelled"} /\ UNCHANGED commands
          /\ helper'.at \in {"idle", "busy", "cancelled"}
      BY <1>4 DEF Speaks
    <2>3. ~Unread /\ ~Unread'
      BY <1>2, <2>2 DEF Unread
    <2> QED
      BY <1>0, <1>3, <2>1, <2>2, <2>3, AcceptedGrows
  <1>5. ASSUME NEW kind \in Kinds, Read(kind), Says("accepted", Head(commands).id),
               helper'.at = "busy"
        PROVE  Serves' /\ AcceptedFirst'
    <2> DEFINE e == Ev("accepted", Head(commands).id, TRUE)
    <2>1. LineGrows(e) /\ e.type = "accepted"
      BY <1>5 DEF Says, Ev
    <2> HIDE DEF e
    <2>2. Unread /\ Silent /\ ~Unread'
      BY <1>1, <1>5
    <2> QED
      BY <1>0, <1>3, <1>5, <2>1, <2>2, AcceptedComes
  <1>6. ASSUME Read("cancel"), Says("ack", Head(commands).id),
               helper'.at \in {"idle", "cancelled"}
        PROVE  Serves' /\ AcceptedFirst'
    <2> DEFINE e == Ev("ack", Head(commands).id, TRUE)
    <2>1. LineGrows(e) /\ e.type = "ack"
      BY <1>6 DEF Says, Ev
    <2> HIDE DEF e
    <2>2. ~Unread /\ ~Unread'
      BY <1>1, <1>6
    <2> QED
      BY <1>0, <1>3, <1>6, <2>1, <2>2, AcceptedGrows
  <1>7. ASSUME NEW cmd \in Kinds \cup {"cancel"}, Read(cmd), helper.at = "busy",
               ~(Head(commands).cmd = "cancel" /\ Head(commands).target = helper.id)
        PROVE  FALSE
    BY <1>1, <1>2, <1>7
  <1>8. ~Read("shutdown") /\ ~Read("eof")
    BY <1>1 DEF Kinds
  <1>9. \/ Speaks({"busy", "cancelled"}, {"busy", "cancelled", "idle"}, {"item", "result"})
        \/ /\ helper'.at = "busy" /\ Says("accepted", Head(commands).id)
           /\ \E kind \in Kinds : Read(kind)
        \/ /\ helper'.at \in {"idle", "cancelled"} /\ Says("ack", Head(commands).id)
           /\ Read("cancel")
        \/ /\ helper.at = "busy" /\ \E cmd \in Kinds \cup {"cancel"} : Read(cmd)
           /\ ~(Head(commands).cmd = "cancel" /\ Head(commands).target = helper.id)
    <2>1. /\ ~Speaks({"starting", "init"}, {"init"}, {"starting", "waiting"})
          /\ ~Speaks({"init"}, {"idle"}, {"ready"})
      BY <1>0 DEF Speaks
    <2> QED
      BY <1>0, <1>8, <2>1, HealthyHelperMoves
  <1> QED
    BY <1>4, <1>5, <1>6, <1>7, <1>9

(* Whatever belongs to the shutdown, but for its end, may follow. *)
LEMMA PartingGrows ==
  ASSUME PartingWords, UNCHANGED <<shut, ses>>, ~readerDone, UNCHANGED readerDone,
         helper.at \notin {"leaving", "exited"}, NEW e \in Event, LineGrows(e),
         \/ StartsUp(e)
         \/ e.type = "accepted" /\ e.id = shut.id
         \/ /\ e.type = "complete" /\ e.id = shut.id /\ e.ok
            /\ ~ses.shutdownComplete /\ helper'.at = "leaving"
  PROVE  PartingWords'
  <1>1. \A i \in DOMAIN Line' : \/ i \in DOMAIN Line /\ Line'[i] = Line[i]
                                \/ i = Len(Line) + 1 /\ Line'[i] = e
    BY DEF LineGrows
  <1>2. \A i \in DOMAIN Line : \/ StartsUp(Line[i])
                               \/ Line[i].type = "accepted" /\ Line[i].id = shut.id
    BY DEF PartingWords
  <1>3. \A i, j \in DOMAIN Line' : i < j => i \in DOMAIN Line /\ Line'[i] = Line[i]
    BY DEF LineGrows
  <1>4. \A i \in DOMAIN Line' :
          \/ StartsUp(Line'[i])
          \/ Line'[i].type = "accepted" /\ Line'[i].id = shut.id
          \/ /\ Line'[i].type = "complete" /\ Line'[i].id = shut.id /\ Line'[i].ok
             /\ ~ses.shutdownComplete /\ helper'.at = "leaving"
    BY <1>1, <1>2 DEF StartsUp
  <1>5. \A i, j \in DOMAIN Line' :
          i < j /\ Line'[j].type = "complete" => Line'[i].type \notin {"complete", "eof"}
    BY <1>2, <1>3 DEF StartsUp
  <1> QED
    BY <1>4, <1>5 DEF PartingWords, StartsUp

(* The helper shuts down. *)
LEMMA HelperParts ==
  ASSUME TypeOK, HelperStep, UNCHANGED sesVars, faults = {}, NoTrouble, PartingWords, Parting
  PROVE  PartingWords' /\ Parting'
  <1> USE DEF sesVars
  <1>0. /\ UNCHANGED <<queue, shut, ses, readerDone>> /\ helper.clean /\ ~helper.raised
        /\ ~readerDone
        /\ helper.at \in {"starting", "init", "idle", "ending", "leaving"}
    <2>1. helper.at # "exited" /\ helper.clean /\ ~helper.raised
      BY HealthyHelperMoves DEF NoTrouble
    <2> QED
      BY <2>1 DEF NoTrouble, Parting, Dead
  <1>1. ASSUME NEW cmd, Read(cmd), helper.at \in {"init", "idle", "busy"}
        PROVE  cmd = "shutdown" /\ Head(commands).id = shut.id
    BY <1>0, <1>1 DEF Read, Parting
  <1>2. CASE \/ Speaks({"starting", "init"}, {"init"}, {"starting", "waiting"})
             \/ Speaks({"init"}, {"idle"}, {"ready"})
    <2>1. PICK e \in Event :
            /\ LineGrows(e) /\ helper.at \in {"starting", "init"} /\ StartsUp(e)
            /\ helper'.at \in {"init", "idle"}
      BY <1>2 DEF Speaks, StartsUp
    <2>2. UNCHANGED commands
      BY <1>2 DEF Speaks
    <2>3. PartingWords'
      BY <1>0, <2>1, PartingGrows
    <2>4. Parting'
      BY <1>0, <2>1, <2>2 DEF Parting, Dead
    <2> QED
      BY <2>3, <2>4
  <1>3. ASSUME Read("shutdown"), helper'.at = "ending", Says("accepted", Head(commands).id),
               helper.at \in {"init", "idle", "busy"}, helper'.stop = Head(commands).id
        PROVE  PartingWords' /\ Parting'
    <2> DEFINE e == Ev("accepted", Head(commands).id, TRUE)
    <2>0. Head(commands).id = shut.id /\ Head(commands).id \in Ids
      BY <1>1, <1>3, ReadTyped DEF TypeOK, HelperTypeOK
    <2>1. LineGrows(e) /\ e.type = "accepted" /\ e.id = shut.id /\ e \in Event
      BY <1>3, <2>0, EvTyped DEF Says, Ev
    <2> HIDE DEF e
    <2>2. PartingWords'
      BY <1>0, <1>3, <2>1, PartingGrows
    <2>3. Parting'
      BY <1>0, <1>3, <2>0 DEF Parting, Dead
    <2> QED
      BY <2>2, <2>3
  <1>4. ASSUME helper.at = "ending", helper'.at = "leaving", Says("complete", helper.stop),
               UNCHANGED commands, helper'.stop = helper.stop
        PROVE  PartingWords' /\ Parting'
    <2> DEFINE e == Ev("complete", helper.stop, TRUE)
    <2>0. helper.stop = shut.id /\ helper.stop \in Ids /\ ~ses.shutdownComplete
      BY <1>4 DEF Parting, TypeOK, HelperTypeOK
    <2>1. LineGrows(e) /\ e.type = "complete" /\ e.id = shut.id /\ e.ok /\ e \in Event
      BY <1>4, <2>0, EvTyped DEF Says, Ev
    <2> HIDE DEF e
    <2>2. PartingWords'
      BY <1>0, <1>4, <2>0, <2>1, PartingGrows
    <2>3. \E i \in DOMAIN Line' : Line'[i].type = "complete"
      <3>1. Len(Line) + 1 \in DOMAIN Line' /\ Line'[Len(Line) + 1].type = "complete"
        BY <2>1 DEF LineGrows
      <3> QED
        BY <3>1
    <2>4. Parting'
      BY <1>0, <1>4, <2>0, <2>3 DEF Parting, Dead
    <2> QED
      BY <2>2, <2>4
  <1>5. ASSUME helper.at = "leaving", helper'.at = "exited", LineStays,
               UNCHANGED commands, helper'.stop = helper.stop
        PROVE  PartingWords' /\ Parting'
    <2>1. PartingWords'
      BY <1>0, <1>5 DEF PartingWords, LineStays, StartsUp
    <2>2. Parting'
      BY <1>0, <1>5 DEF Parting, LineStays, Dead
    <2> QED
      BY <2>1, <2>2
  <1>6. \A kind \in Kinds \cup {"cancel"} : helper.at = "idle" => ~Read(kind)
    BY <1>1 DEF Kinds
  <1>7. ~(Read("eof") /\ helper.at \in {"init", "idle", "busy"})
    BY <1>1
  <1>8. \/ Speaks({"starting", "init"}, {"init"}, {"starting", "waiting"})
        \/ Speaks({"init"}, {"idle"}, {"ready"})
        \/ /\ Read("shutdown") /\ helper'.at = "ending" /\ Says("accepted", Head(commands).id)
           /\ helper.at \in {"init", "idle", "busy"} /\ helper'.stop = Head(commands).id
        \/ /\ helper.at = "ending" /\ helper'.at = "leaving" /\ Says("complete", helper.stop)
           /\ UNCHANGED commands /\ helper'.stop = helper.stop
        \/ /\ helper.at = "leaving" /\ helper'.at = "exited" /\ LineStays
           /\ UNCHANGED commands /\ helper'.stop = helper.stop
    <2>1. ~Speaks({"busy", "cancelled"}, {"busy", "cancelled", "idle"}, {"item", "result"})
      BY <1>0 DEF Speaks
    <2>2. helper.at \notin {"busy", "cancelled"}
      BY <1>0
    <2> QED
      BY <1>0, <1>6, <1>7, <2>1, <2>2, HealthyHelperMoves
  <1> QED
    BY <1>2, <1>3, <1>4, <1>5, <1>8

(* Once the session is closed and nobody shuts the helper down, it is gone. *)
LEMMA ClosedIsGone ==
  ASSUME IInv, NoTrouble, ses.closed, shut.at = "none"
  PROVE  ses.released /\ ~Alive
  BY DEF IInv, OutcomesHold, NoTrouble, ReleasedOwnsNothing

LEMMA HelperIsHealthy ==
  ASSUME IInv, ConvInv, faults = {}, HealthyInv, Helper
  PROVE  NoTrouble' /\ Serves' /\ StartingUp' /\ AcceptedFirst' /\ Farewell'
  <1> USE DEF sesVars
  <1>0. /\ TypeOK /\ HelperStep /\ UNCHANGED sesVars
        /\ NoTrouble /\ Serves /\ StartingUp /\ AcceptedFirst /\ Farewell
        /\ helper.clean /\ ~helper.raised
    BY DEF IInv, Helper, HealthyInv, NoTrouble
  <1>1. helper'.clean /\ ~helper'.raised /\ helper.at \notin {"none", "exited"} /\ Alive
    BY <1>0, HealthyHelperMoves DEF Alive
  <1>2. NoTrouble'
    BY <1>0, <1>1 DEF NoTrouble, Dead
  <1>3. CASE ~ses.closed
    <2>1. shut.at = "none"
      BY <1>3 DEF IInv, OneAtATime
    <2>2. Farewell'
      BY <1>0, <2>1 DEF Farewell
    <2>3. IF call.at = "running" THEN Conversation ELSE Rest
      BY <1>0, <1>3 DEF ConvInv, NoTrouble
    <2>4. CASE call.at = "running"
      <3>1. Serves' /\ AcceptedFirst'
        BY <1>0, <1>3, <2>3, <2>4, HelperServes
      <3>2. StartingUp'
        BY <1>0, <2>4 DEF StartingUp
      <3> QED
        BY <1>2, <2>2, <3>1, <3>2
    <2>5. CASE call.at # "running"
      <3>1. /\ commands = <<>> /\ helper.at \in {"starting", "init", "idle"}
        BY <1>0, <1>1, <1>3, <2>3, <2>5 DEF Rest, Serves
      <3>2. \A cmd : ~Read(cmd)
        BY <3>1 DEF Read
      <3>3. \/ Speaks({"starting", "init"}, {"init"}, {"starting", "waiting"})
            \/ Speaks({"init"}, {"idle"}, {"ready"})
        <4>1. ~Speaks({"busy", "cancelled"}, {"busy", "cancelled", "idle"}, {"item", "result"})
          BY <3>1 DEF Speaks
        <4> QED
          BY <1>0, <3>1, <3>2, <4>1, HealthyHelperMoves
      <3>4. Serves' /\ StartingUp'
        BY <1>0, <1>3, <2>5, <3>3, HelperStartsUp
      <3>5. AcceptedFirst'
        BY <1>0, <2>5 DEF AcceptedFirst
      <3> QED
        BY <1>2, <2>2, <3>4, <3>5
    <2> QED
      BY <2>4, <2>5
  <1>4. CASE ses.closed
    <2>1. Serves' /\ StartingUp' /\ AcceptedFirst'
      BY <1>0, <1>4 DEF Serves, StartingUp, AcceptedFirst
    <2>2. shut.at # "none"
      BY <1>0, <1>1, <1>4, ClosedIsGone
    <2>3. PartingWords' /\ Parting'
      BY <1>0, <2>2, HelperParts DEF Farewell
    <2> QED
      BY <1>2, <2>1, <2>3 DEF Farewell
  <1> QED
    BY <1>3, <1>4

-----------------------------------------------------------------------------
(* The reader thread, the user and those who ask for the end. *)
LEMMA EnvironmentIsHealthy ==
  ASSUME IInv, IInv', faults = {}, HealthyInv,
         \/ ReadLine \/ ReaderEnds \/ UserCancels \/ SignalEnds
         \/ \E c \in Closers : AskClose(c)
  PROVE  NoTrouble' /\ Serves' /\ StartingUp' /\ AcceptedFirst' /\ Farewell'
  <1>0. /\ TypeOK /\ TypeOK' /\ ses \in SessionFields /\ closer \in [Closers -> Closing]
        /\ NoTrouble /\ Serves /\ StartingUp /\ AcceptedFirst /\ Farewell
        /\ \A c \in Closers : closer[c] \notin {"error", "reap", "lifted"}
        /\ readerDone => pipe = <<>>
    BY DEF IInv, TypeOK, HealthyInv, NoTrouble
  <1>1. CASE ReadLine
    <2>1. LineStays
      BY <1>0, <1>1, ReadLineStays
    <2>2. ~readerDone
      BY <1>0, <1>1 DEF ReadLine
    <2> QED
      BY <1>0, <1>1, <2>1, <2>2, HealthyFrame DEF ReadLine, OnlyReader
  <1>2. CASE UserCancels
    <2>1. LineStays
      BY <1>0, <1>2, NothingMoves DEF UserCancels, helperVars
    <2> QED
      BY <1>0, <1>2, <2>1, HealthyFrame DEF UserCancels, helperVars
  <1>3. ASSUME NEW c \in Closers, AskClose(c)
        PROVE  NoTrouble' /\ Serves' /\ StartingUp' /\ AcceptedFirst' /\ Farewell'
    <2>1. LineStays
      BY <1>0, <1>3, NothingMoves DEF AskClose, helperVars
    <2>2. \A d \in Closers : closer'[d] \notin {"error", "reap", "lifted"}
      BY <1>0, <1>3 DEF AskClose
    <2>3. /\ ses'.fatal = ses.fatal /\ ses'.abandoned = ses.abandoned
          /\ ses'.teardown = ses.teardown /\ ses'.closed = ses.closed
          /\ ses'.shutdownComplete = ses.shutdownComplete /\ ses'.ready = ses.ready
      BY <1>0, <1>3 DEF AskClose, SessionFields
    <2> QED
      BY <1>0, <1>3, <2>1, <2>2, <2>3, HealthyFrame DEF AskClose, helperVars
  <1>4. CASE ReaderEnds
    <2> DEFINE e == Ev("eof", NoId, FALSE)
    <2>0. /\ UNCHANGED <<helper, commands, ses, call, closer, shut, signal>>
          /\ readerDone' /\ Dead /\ Dead' /\ pipe' = <<>> /\ ses.closed
      BY <1>0, <1>4 DEF ReaderEnds, OnlyReader, Serves, Dead
    <2>1. LineGrows(e) /\ e.type = "eof"
      BY <1>0, <1>4, ReaderEndsGrows DEF Ev
    <2> HIDE DEF e
    <2>2. NoTrouble'
      BY <1>0, <2>0 DEF NoTrouble
    <2>3. Serves' /\ StartingUp' /\ AcceptedFirst'
      BY <2>0 DEF Serves, StartingUp, AcceptedFirst
    <2>4. /\ \A i \in DOMAIN Line' : \/ i \in DOMAIN Line /\ Line'[i] = Line[i]
                                     \/ i = Len(Line) + 1 /\ Line'[i] = e
          /\ \A i, j \in DOMAIN Line' : i < j => i \in DOMAIN Line /\ Line'[i] = Line[i]
          /\ \A i \in DOMAIN Line : i \in DOMAIN Line' /\ Line'[i] = Line[i]
      BY <2>1 DEF LineGrows
    <2>5. PartingWords => PartingWords'
      BY <2>0, <2>1, <2>4 DEF PartingWords, StartsUp
    <2>6. Parting => Parting'
      BY <2>0, <2>4 DEF Parting
    <2> QED
      BY <1>0, <2>0, <2>2, <2>3, <2>5, <2>6 DEF Farewell
  <1>5. ~SignalEnds
    BY <1>0 DEF SignalEnds, NoTrouble
  <1> QED
    BY <1>1, <1>2, <1>3, <1>4, <1>5

-----------------------------------------------------------------------------
(* What decoding an event of a healthy session changes. *)
LEMMA DecodedHealthy ==
  ASSUME NEW s \in SessionFields, NEW events, \A e \in events : e.type \notin {"eof", "fatal"}
  PROVE  LET d == DecodedAll(s, events)
         IN /\ d \in SessionFields /\ d.fatal = s.fatal /\ d.abandoned = s.abandoned
            /\ d.teardown = s.teardown /\ d.closed = s.closed
            /\ d.shutdownComplete = s.shutdownComplete
            /\ d.ready <=> s.ready \/ \E e \in events : e.type = "ready"
  <1> DEFINE known == \E e \in events : e.type \in {"starting"}
  <1> DEFINE ready == \E e \in events : e.type \in {"ready"}
  <1> DEFINE fatal == \E e \in events : e.type \in {"eof", "fatal"}
  <1> DEFINE d == DecodedAll(s, events)
  <1>1. d = [s EXCEPT !.tempKnown = @ \/ known, !.tempClean = @ /\ ~known,
                      !.ready = @ \/ ready, !.fatal = @ \/ fatal]
    BY DEF DecodedAll
  <1>2. ~fatal /\ (ready <=> \E e \in events : e.type = "ready") /\ known \in BOOLEAN
        /\ ready \in BOOLEAN /\ fatal \in BOOLEAN
    OBVIOUS
  <1>3. d \in SessionFields
    BY DecodedAllTyped
  <1> HIDE DEF known, ready, fatal, d
  <1>4. /\ d.abandoned = s.abandoned /\ d.teardown = s.teardown /\ d.closed = s.closed
        /\ d.shutdownComplete = s.shutdownComplete
        /\ d.fatal = (s.fatal \/ fatal) /\ d.ready = (s.ready \/ ready)
    BY <1>1 DEF SessionFields
  <1>5. d.fatal = s.fatal
    BY <1>2, <1>4 DEF SessionFields
  <1>6. d.ready <=> s.ready \/ \E e \in events : e.type = "ready"
    BY <1>2, <1>4
  <1> QED
    BY <1>3, <1>4, <1>5, <1>6 DEF d

(* The worker waits for session_ready and hears it. *)
LEMMA WaitingIsHealthy ==
  ASSUME TypeOK, NoTrouble, Serves, StartingUp, ~ses.closed, shut.at = "none", WaitEvent
  PROVE  NoTrouble' /\ Serves' /\ StartingUp' /\ AcceptedFirst' /\ Farewell'
  <1> DEFINE e == Head(queue)
  <1>0. /\ LineShrinks /\ e = Line[1] /\ call.at = "starting" /\ ~ses.ready
        /\ ses \in SessionFields
        /\ UNCHANGED <<helper, commands, pipe, closer, shut, readerDone, signal>>
    BY TakenShrinks DEF WaitEvent, LineShrinks, OnlyCall, helperVars, TypeOK
  <1>1. /\ 1 \in DOMAIN Line
        /\ \A i \in DOMAIN Line' : i + 1 \in DOMAIN Line /\ 1 < i + 1 /\ Line'[i] = Line[i + 1]
        /\ \A i, j \in DOMAIN Line' : j + 1 <= i + 1 => j <= i
        /\ \A i \in DOMAIN Line' : ~(i + 1 <= 1)
    BY <1>0 DEF LineShrinks
  <1>2. StartsUp(e)
    BY <1>0, <1>1 DEF StartingUp
  <1>3. ses' = Decoded(ses, e) /\ UNCHANGED call
    BY <1>2 DEF WaitEvent, StartsUp
  <1> HIDE DEF e
  <1>4. \A d \in {e} : d.type \notin {"eof", "fatal"}
    BY <1>2 DEF StartsUp
  <1>5. /\ ses'.fatal = ses.fatal /\ ses'.abandoned = ses.abandoned
        /\ ses'.teardown = ses.teardown /\ ses'.closed = ses.closed
        /\ ses'.shutdownComplete = ses.shutdownComplete
        /\ ses'.ready => ses.ready \/ e.type = "ready"
    BY <1>0, <1>3, <1>4, DecodedHealthy DEF Decoded
  <1>6. NoTrouble'
    BY <1>0, <1>5 DEF NoTrouble, Dead
  <1>7. e.type = "ready" => helper.at = "idle" /\ DOMAIN Line' = {}
    BY <1>0, <1>1 DEF StartingUp
  <1>8. Serves'
    BY <1>0, <1>3, <1>5, <1>7 DEF Serves
  <1>9. StartingUp'
    BY <1>0, <1>1, <1>5, <1>7 DEF StartingUp, StartsUp
  <1>10. AcceptedFirst' /\ Farewell'
    BY <1>0, <1>3 DEF AcceptedFirst, Farewell
  <1> QED
    BY <1>6, <1>8, <1>9, <1>10

(* The command is sent. *)
LEMMA SendingIsHealthy ==
  ASSUME TypeOK, NoTrouble, Serves, StartingUp, Rest, StartsFresh, ~ses.closed, shut.at = "none",
         NEW kind \in Kinds, SendCommand(kind)
  PROVE  NoTrouble' /\ Serves' /\ StartingUp' /\ AcceptedFirst' /\ Farewell'
  <1> DEFINE id == ses.nextId + 1
  <1> DEFINE m == [cmd |-> kind, id |-> id, target |-> NoId]
  <1>0. /\ call = [NoCall EXCEPT !.at = "starting"] /\ commands = <<>> /\ ses.ready
        /\ ses \in SessionFields /\ Alive
    BY DEF StartsFresh, SendCommand, Rest, TypeOK, Serves, Alive
  <1>1. /\ ses' = [ses EXCEPT !.nextId = id]
        /\ call' = [call EXCEPT !.at = "running", !.id = id]
        /\ commands' = Append(commands, m)
        /\ UNCHANGED <<helper, pipe, queue, closer, shut, readerDone, signal>>
    BY <1>0 DEF SendCommand, OnlyCall
  <1>2. commands' = <<m>> /\ m.cmd = kind
    BY <1>0, <1>1
  <1>3. /\ call'.at = "running" /\ ~call'.accepted
    BY <1>0, <1>1 DEF NoCall
  <1>4. /\ ses'.fatal = ses.fatal /\ ses'.abandoned = ses.abandoned
        /\ ses'.teardown = ses.teardown /\ ses'.closed = ses.closed
        /\ ses'.shutdownComplete = ses.shutdownComplete /\ ses'.ready = ses.ready
    BY <1>0, <1>1 DEF SessionFields
  <1> HIDE DEF m, id
  <1>5. Unread'
    <2>1. 1 \in DOMAIN commands' /\ commands'[1] = m
      BY <1>2
    <2> QED
      BY <1>2, <2>1 DEF Unread
  <1>6. DOMAIN Line' = {}
    <2>1. LineStays
      BY <1>1, NothingMoves
    <2>2. DOMAIN Line = {}
      BY <1>0, <1>1, <1>4 DEF StartingUp, SendCommand, NoCall
    <2> QED
      BY <2>1, <2>2 DEF LineStays
  <1>7. NoTrouble'
    BY <1>1, <1>4 DEF NoTrouble, Dead
  <1>8. Serves'
    BY <1>0, <1>1, <1>4 DEF Serves
  <1>9. AcceptedFirst'
    BY <1>3, <1>5, <1>6 DEF AcceptedFirst
  <1>10. StartingUp' /\ Farewell'
    BY <1>1, <1>3 DEF StartingUp, Farewell
  <1> QED
    BY <1>7, <1>8, <1>9, <1>10

(* So is its cancellation. *)
LEMMA CancellingIsHealthy ==
  ASSUME TypeOK, NoTrouble, Serves, AcceptedFirst, ~ses.closed, shut.at = "none", SendCancel
  PROVE  NoTrouble' /\ Serves' /\ StartingUp' /\ AcceptedFirst' /\ Farewell'
  <1> DEFINE id == ses.nextId + 1
  <1> DEFINE m == CancelMessage(id)
  <1> DEFINE n == Len(commands)
  <1>0. /\ ses \in SessionFields /\ Alive /\ call \in Calls /\ call.at = "running"
        /\ commands \in Seq(Message) /\ n \in Nat /\ DOMAIN commands = 1..n
    BY LenProperties DEF SendCancel, TypeOK, HelperTypeOK, Serves, Alive
  <1>1. /\ ses' = [ses EXCEPT !.nextId = id]
        /\ call' = [call EXCEPT !.cancelId = id]
        /\ commands' = Append(commands, m)
        /\ UNCHANGED <<helper, pipe, queue, closer, shut, readerDone, signal>>
    BY <1>0 DEF SendCancel, OnlyCall
  <1>2. /\ DOMAIN commands' = 1..n + 1
        /\ commands'[n + 1] = m /\ \A i \in 1..n : commands'[i] = commands[i]
    BY <1>0, <1>1
  <1>3. m.cmd \notin Kinds
    BY DEF CancelMessage, Kinds
  <1>4. /\ ses'.fatal = ses.fatal /\ ses'.abandoned = ses.abandoned
        /\ ses'.teardown = ses.teardown /\ ses'.closed = ses.closed
        /\ ses'.shutdownComplete = ses.shutdownComplete /\ ses'.ready = ses.ready
    BY <1>0, <1>1 DEF SessionFields
  <1>5. call'.at = "running" /\ call'.accepted = call.accepted /\ call'.id = call.id
    BY <1>0, <1>1 DEF Calls
  <1> HIDE DEF m, id
  <1>6. Unread' <=> Unread
    <2>1. \A i \in 1..n + 1 : i \in 1..n \/ i = n + 1
      BY <1>0
    <2>2. \A i \in 1..n : i \in 1..n + 1
      BY <1>0
    <2> HIDE DEF n
    <2> QED
      BY <1>0, <1>2, <1>3, <2>1, <2>2 DEF Unread
  <1>7. LineStays
    BY <1>1, NothingMoves
  <1>8. NoTrouble'
    BY <1>1, <1>4 DEF NoTrouble, Dead
  <1>9. Serves'
    BY <1>0, <1>1, <1>4 DEF Serves
  <1>10. AcceptedFirst'
    BY <1>0, <1>5, <1>6, <1>7 DEF AcceptedFirst, LineStays
  <1>11. StartingUp' /\ Farewell'
    BY <1>1, <1>5 DEF StartingUp, Farewell
  <1> QED
    BY <1>8, <1>9, <1>10, <1>11

(* The worker takes what is said of its command, and it is never anything
   it did not expect.                                                     *)
LEMMA AnswerIsExpected ==
  ASSUME Conversation, AcceptedFirst, ~ses.closed, call.at = "running", 1 \in DOMAIN Line,
         NEW e, e = Line[1], \A i \in DOMAIN Line : i # 1 => 1 < i
  PROVE  /\ e.type \in {"accepted", "item", "result", "ack"}
         /\ e.type = "accepted" => IsStart(e) /\ ~Unread
                                   /\ \A i \in DOMAIN Line : i # 1 => Line[i].type # "accepted"
         /\ e.type = "item" => IsItem(e)
         /\ e.type = "result" => IsResult(e)
         /\ e.type = "ack" => IsAck(e)
  <1>1. e.type \in {"accepted", "item", "result", "ack"}
    BY DEF AcceptedFirst
  <1>2. /\ e.type \in {"accepted", "item", "result"} => e.id = call.id
        /\ e.type = "ack" => e.id = call.cancelId
    BY <1>1 DEF Conversation, LineIsOurs, Anonymous
  <1>3. e.id = call.id => ~Unread
    BY DEF Conversation, UnreadIsSilent, Silent
  <1>4. e.type = "accepted" => ~call.accepted
    BY DEF AcceptedFirst
  <1>5. e.type = "accepted" => \A i \in DOMAIN Line : i # 1 => Line[i].type # "accepted"
    BY <1>2 DEF AcceptedFirst
  <1>6. e.type \in {"item", "result"} => call.accepted
    <2> SUFFICES ASSUME e.type \in {"item", "result"}, ~call.accepted PROVE FALSE
      OBVIOUS
    <2>1. ~Unread /\ e.id = call.id
      BY <1>2, <1>3
    <2>2. PICK i \in DOMAIN Line : Line[i].type = "accepted"
      BY <2>1 DEF AcceptedFirst
    <2>3. 1 < i
      BY <2>2
    <2> QED
      BY <2>1, <2>2, <2>3 DEF AcceptedFirst
  <1>7. e.type = "result" => ~call.answered
    BY <1>2 DEF Conversation, ResultIsLast, Silent
  <1>8. e.type = "ack" => ~call.acked
    BY DEF Conversation, AckIsOne
  <1> QED
    BY <1>1, <1>2, <1>3, <1>4, <1>5, <1>6, <1>7, <1>8 DEF IsStart, IsItem, IsResult, IsAck

LEMMA AnsweringIsHealthy ==
  ASSUME TypeOK, NoTrouble, Serves, AcceptedFirst, Conversation, ~ses.closed, shut.at = "none",
         ConvInv', CallEvent
  PROVE  NoTrouble' /\ Serves' /\ StartingUp' /\ AcceptedFirst' /\ Farewell'
  <1> DEFINE e == Head(queue)
  <1>0. /\ LineShrinks /\ e = Line[1] /\ call.at = "running" /\ call \in Calls /\ ses.ready
        /\ UNCHANGED <<helper, commands, pipe, closer, shut, readerDone, signal>>
    BY TakenShrinks DEF CallEvent, LineShrinks, OnlyCall, helperVars, TypeOK, Serves
  <1>1. /\ 1 \in DOMAIN Line
        /\ \A i \in DOMAIN Line : i # 1 => 1 < i
        /\ \A i \in DOMAIN Line' : i + 1 \in DOMAIN Line /\ 1 < i + 1 /\ i + 1 # 1
                                   /\ Line'[i] = Line[i + 1]
        /\ \A i, j \in DOMAIN Line' : i < j => i + 1 < j + 1
        /\ \A i \in DOMAIN Line : i # 1 => i - 1 \in DOMAIN Line' /\ Line'[i - 1] = Line[i]
    BY <1>0 DEF LineShrinks
  <1>2. /\ e.type \in {"accepted", "item", "result", "ack"}
        /\ e.type = "accepted" => IsStart(e) /\ ~Unread
                                  /\ \A i \in DOMAIN Line : i # 1 => Line[i].type # "accepted"
        /\ e.type = "item" => IsItem(e)
        /\ e.type = "result" => IsResult(e)
        /\ e.type = "ack" => IsAck(e)
    BY <1>0, <1>1, AnswerIsExpected
  <1>3. /\ IsAck(e) => e.type = "ack"
        /\ IsResult(e) => e.type = "result"
        /\ IsStart(e) => e.type = "accepted"
        /\ IsItem(e) => e.type = "item"
        /\ IsRefusal(e) => e.type = "recoverable"
    BY DEF IsAck, IsResult, IsStart, IsItem, IsRefusal
  <1>4. Ends(e) => e.type \in {"result", "ack"}
    BY <1>2, <1>3 DEF Ends
  <1>5. /\ UNCHANGED ses
        /\ \/ Ends(e) /\ call' = NoCall
           \/ e.type = "ack" /\ call' = [call EXCEPT !.acked = TRUE]
           \/ e.type = "result" /\ call' = [call EXCEPT !.answered = TRUE]
           \/ e.type = "accepted" /\ call' = [call EXCEPT !.accepted = TRUE]
           \/ e.type = "item" /\ UNCHANGED call
    <2>1. CASE Ends(e)
      BY <1>2, <1>3, <1>4, <2>1 DEF CallEvent
    <2>2. CASE ~Ends(e)
      <3>1. IsAck(e) \/ IsResult(e) \/ IsStart(e) \/ IsItem(e)
        BY <1>2
      <3> HIDE DEF e
      <3>2. \/ IsAck(e) /\ call' = [call EXCEPT !.acked = TRUE] /\ UNCHANGED ses
            \/ IsResult(e) /\ call' = [call EXCEPT !.answered = TRUE] /\ UNCHANGED ses
            \/ IsStart(e) /\ call' = [call EXCEPT !.accepted = TRUE] /\ UNCHANGED ses
            \/ IsItem(e) /\ UNCHANGED <<call, ses>>
        BY <2>2, <3>1 DEF CallEvent, e
      <3> QED
        BY <1>3, <3>2
    <2> QED
      BY <2>1, <2>2
  <1> HIDE DEF e
  <1>6. NoTrouble' /\ Farewell'
    BY <1>0, <1>5 DEF NoTrouble, Dead, Farewell
  <1>7. Serves'
    BY <1>0, <1>5 DEF Serves
  <1>8. CASE Ends(e) /\ call' = NoCall
    <2>1. call'.at # "running"
      BY <1>8 DEF NoCall
    <2>2. Rest'
      BY <1>5, <2>1 DEF ConvInv, NoTrouble
    <2>3. DOMAIN Line' = {}
      <3>1. ASSUME NEW i \in DOMAIN Line' PROVE FALSE
        <4>1. Line'[i].type \in {"accepted", "item", "result", "ack"}
          BY <1>0, <1>1 DEF AcceptedFirst
        <4>2. Anonymous(Line'[i])
          BY <2>2 DEF Rest, Anonymous
        <4> QED
          BY <4>1, <4>2 DEF Anonymous
      <3> QED
        BY <3>1
    <2>4. StartingUp' /\ AcceptedFirst'
      BY <2>1, <2>3 DEF StartingUp, AcceptedFirst
    <2> QED
      BY <1>6, <1>7, <2>4
  <1>9. CASE ~(Ends(e) /\ call' = NoCall)
    <2>1. /\ call'.at = "running" /\ call'.id = call.id
          /\ e.type = "accepted" => call'.accepted
          /\ e.type # "accepted" => call'.accepted = call.accepted
      BY <1>0, <1>2, <1>5, <1>9 DEF Calls
    <2>2. Unread' = Unread
      BY <1>0 DEF Unread
    <2>3. /\ \A i \in DOMAIN Line' : Line'[i].type \in {"accepted", "item", "result", "ack"}
          /\ \A i, j \in DOMAIN Line' :
               i < j /\ Line'[j].type = "accepted" => Line'[i].id # call.id
      BY <1>0, <1>1 DEF AcceptedFirst
    <2>4. call'.accepted => ~Unread /\ \A i \in DOMAIN Line' : Line'[i].type # "accepted"
      <3>1. CASE e.type = "accepted"
        BY <1>1, <1>2, <3>1
      <3>2. CASE e.type # "accepted"
        BY <1>0, <1>1, <2>1, <3>2 DEF AcceptedFirst
      <3> QED
        BY <3>1, <3>2
    <2>5. ~call'.accepted /\ ~Unread => \E i \in DOMAIN Line' : Line'[i].type = "accepted"
      <3> SUFFICES ASSUME ~call'.accepted, ~Unread
                   PROVE  \E i \in DOMAIN Line' : Line'[i].type = "accepted"
        OBVIOUS
      <3>1. e.type # "accepted" /\ ~call.accepted
        BY <2>1
      <3>2. PICK i \in DOMAIN Line : Line[i].type = "accepted"
        BY <1>0, <3>1 DEF AcceptedFirst
      <3>3. i # 1
        BY <1>0, <3>1, <3>2
      <3> QED
        BY <1>1, <3>2, <3>3
    <2>6. AcceptedFirst' /\ StartingUp'
      BY <2>1, <2>2, <2>3, <2>4, <2>5 DEF AcceptedFirst, StartingUp
    <2> QED
      BY <1>6, <1>7, <2>6
  <1> QED
    BY <1>8, <1>9

LEMMA CallIsHealthy ==
  ASSUME IInv, IInv', StartsFresh, ConvInv, ConvInv', faults = {}, HealthyInv, CallStep
  PROVE  NoTrouble' /\ Serves' /\ StartingUp' /\ AcceptedFirst' /\ Farewell'
  <1>0. /\ TypeOK /\ ses \in SessionFields /\ helper \in [at: HelperSteps, id: Ids, kind: Kinds,
             items: 0..1, stop: Ids, raised: BOOLEAN, clean: BOOLEAN]
        /\ NoTrouble /\ Serves /\ StartingUp /\ AcceptedFirst /\ Farewell /\ ~Late
        /\ \A c \in Closers : closer[c] \notin {"error", "reap", "lifted"}
        /\ readerDone => pipe = <<>>
    BY DEF IInv, TypeOK, HelperTypeOK, HealthyInv, NoTrouble, Late
  <1>1. ~ses.closed /\ shut.at = "none"
    <2>1. ~ses.closed
      BY DEF IInv, OneAtATime, CallStep, CallBegin, WaitStops, WaitEvent, WaitFindsDead,
         SendCommand, SendCancel, GiveUpCancel, CallEvent, CallFindsDead
    <2> QED
      BY <2>1 DEF IInv, OneAtATime
  <1>2. IF call.at = "running" THEN Conversation ELSE Rest
    BY <1>0, <1>1 DEF ConvInv, NoTrouble
  <1>3. ~Dead
    BY <1>0, <1>1 DEF Serves, Dead
  <1>4. CASE CallBegin
    <2>1. /\ call'.at = "starting" /\ call.at # "running" /\ UNCHANGED ses
          /\ UNCHANGED <<commands, pipe, queue, closer, shut, signal, readerDone>>
      BY <1>4 DEF CallBegin, OnlyCall, NoCall
    <2>2. LineStays
      BY <1>0, <2>1, NothingMoves
    <2>3. CASE helper.at # "none"
      <3>1. UNCHANGED helper
        BY <1>4, <2>3 DEF CallBegin
      <3> QED
        BY <1>0, <2>1, <2>2, <3>1, HealthyFrame
    <2>4. CASE helper.at = "none"
      <3>1. /\ helper'.at = "starting" /\ helper'.raised = helper.raised
            /\ helper'.clean = helper.clean
        BY <1>0, <1>4, <2>4 DEF CallBegin
      <3>2. ~readerDone /\ ~ses.ready
        BY <1>0, <1>1, <2>4 DEF NoTrouble, Dead, Serves
      <3>3. DOMAIN Line' = {}
        <4>1. queue = <<>> /\ pipe = <<>>
          BY <2>4 DEF IInv, NothingYet
        <4>2. Len(queue) = 0 /\ Len(pipe) = 0
          BY <4>1
        <4>3. Len(Line) = 0
          BY <1>0, <4>2, LineIsSeq
        <4> QED
          BY <2>2, <4>3 DEF LineStays
      <3>4. NoTrouble'
        BY <1>0, <2>1, <3>1, <3>2 DEF NoTrouble
      <3>5. Serves' /\ StartingUp'
        BY <1>0, <1>1, <2>1, <3>1, <3>2, <3>3 DEF Serves, StartingUp
      <3>6. AcceptedFirst' /\ Farewell'
        BY <1>1, <2>1 DEF AcceptedFirst, Farewell
      <3> QED
        BY <3>4, <3>5, <3>6
    <2> QED
      BY <2>3, <2>4
  <1>5. CASE WaitStops
    <2>1. /\ call'.at # "running" /\ call.at # "running" /\ UNCHANGED ses
          /\ UNCHANGED <<helper, commands, pipe, queue, closer, shut, signal, readerDone>>
      BY <1>5 DEF WaitStops, OnlyCall, NoTraffic, helperVars, NoCall
    <2>2. LineStays
      BY <1>0, <2>1, NothingMoves
    <2> QED
      BY <1>0, <2>1, <2>2, HealthyFrame
  <1>6. CASE WaitEvent
    BY <1>0, <1>1, <1>6, WaitingIsHealthy
  <1>7. ASSUME NEW kind \in Kinds, SendCommand(kind)
        PROVE  NoTrouble' /\ Serves' /\ StartingUp' /\ AcceptedFirst' /\ Farewell'
    <2>1. Rest
      BY <1>2, <1>7 DEF SendCommand
    <2> QED
      BY <1>0, <1>1, <1>7, <2>1, SendingIsHealthy
  <1>8. CASE SendCancel
    BY <1>0, <1>1, <1>8, CancellingIsHealthy
  <1>9. CASE CallEvent
    <2>1. Conversation
      BY <1>2, <1>9 DEF CallEvent
    <2> QED
      BY <1>0, <1>1, <1>9, <2>1, AnsweringIsHealthy
  <1>10. ~WaitFindsDead /\ ~CallFindsDead /\ ~GiveUpCancel
    BY <1>0, <1>3 DEF WaitFindsDead, CallFindsDead, GiveUpCancel
  <1> QED
    BY <1>4, <1>5, <1>6, <1>7, <1>8, <1>9, <1>10 DEF CallStep

-----------------------------------------------------------------------------
(* The session is closed: the helper is told to shut down, or was never
   started.                                                               *)
LEMMA ClosingIsHealthy ==
  ASSUME IInv, IInv', StartsFresh, ConvInv, faults = {}, HealthyInv,
         NEW c \in Closers, CloseBegin(c)
  PROVE  NoTrouble' /\ Serves' /\ StartingUp' /\ AcceptedFirst' /\ Farewell'
  <1> DEFINE id == ses.nextId + 1
  <1> DEFINE begun == [ses EXCEPT !.closed = TRUE]
  <1>0. /\ TypeOK /\ ses \in SessionFields /\ closer \in [Closers -> Closing]
        /\ NoTrouble /\ Serves /\ StartingUp
        /\ ~ses.closed /\ call.at = "none" /\ shut.at = "none"
    BY DEF IInv, TypeOK, HealthyInv, CloseBegin, NoLock, RequestLockFree
  <1>1. UNCHANGED <<helper, pipe, queue, signal, readerDone, call>>
    BY DEF CloseBegin, OnlyClose
  <1>2. Rest /\ ~Dead
    BY <1>0 DEF ConvInv, NoTrouble, Serves, Dead
  <1>3. LineStays
    BY <1>0, <1>1, NothingMoves
  <1>4. /\ begun \in SessionFields /\ begun.closed /\ begun.fatal = ses.fatal
        /\ begun.abandoned = ses.abandoned /\ begun.teardown = ses.teardown
        /\ begun.shutdownComplete = ses.shutdownComplete
    BY <1>0 DEF SessionFields
  <1> HIDE DEF begun
  <1>5. ASSUME ses'.closed PROVE Serves' /\ StartingUp' /\ AcceptedFirst'
    BY <1>5 DEF Serves, StartingUp, AcceptedFirst
  <1>6. CASE helper.at = "none"
    <2>1. ses' = Marked(begun) /\ closer' = [closer EXCEPT ![c] = "ok"] /\ UNCHANGED shut
      BY <1>2, <1>6 DEF CloseBegin, begun, Alive
    <2>2. /\ ses'.closed /\ ses'.fatal = ses.fatal /\ ses'.abandoned = ses.abandoned
          /\ ses'.teardown = ses.teardown
      BY <1>4, <2>1 DEF Marked, SessionFields
    <2>3. \A d \in Closers : closer'[d] \notin {"error", "reap", "lifted"}
      BY <1>0, <2>1 DEF NoTrouble
    <2>4. NoTrouble'
      BY <1>0, <1>1, <2>1, <2>2, <2>3 DEF NoTrouble, Dead
    <2>5. Farewell'
      BY <1>0, <2>1 DEF Farewell
    <2> QED
      BY <1>5, <2>2, <2>4, <2>5
  <1>7. CASE Alive
    <2>0. helper.at \in {"starting", "init", "idle"} /\ ~ses.shutdownComplete
      BY <1>0, <1>2, <1>7 DEF Serves, Rest, Alive
    <2>1. /\ ses' = [begun EXCEPT !.nextId = id, !.stdinClosed = TRUE]
          /\ commands' = commands \o
                <<[cmd |-> "shutdown", id |-> id, target |-> NoId],
                  [cmd |-> "eof", id |-> NoId, target |-> NoId]>>
          /\ shut' = [NotShutting EXCEPT !.at = "shaking", !.by = c, !.id = id]
          /\ closer' = [closer EXCEPT ![c] = "closing"]
      BY <1>2, <1>7 DEF CloseBegin, begun, Alive
    <2>2. /\ ses'.closed /\ ses'.fatal = ses.fatal /\ ses'.abandoned = ses.abandoned
          /\ ses'.teardown = ses.teardown /\ ses'.shutdownComplete = ses.shutdownComplete
      BY <1>4, <2>1 DEF SessionFields
    <2>3. \A d \in Closers : closer'[d] \notin {"error", "reap", "lifted"}
      BY <1>0, <2>1 DEF NoTrouble
    <2>4. /\ shut'.at = "shaking" /\ shut'.id = id /\ shut'.failed = "none" /\ ~shut'.escalated
      BY <2>1 DEF NotShutting
    <2>5. id # NoId
      BY <1>0, NextIdNat DEF NoId
    <2>6. commands' # <<>> /\ Head(commands').cmd = "shutdown" /\ Head(commands').id = id
      <3> DEFINE m == [cmd |-> "shutdown", id |-> id, target |-> NoId]
      <3> DEFINE n == [cmd |-> "eof", id |-> NoId, target |-> NoId]
      <3>1. m.cmd = "shutdown" /\ m.id = id
        OBVIOUS
      <3>2. commands' = commands \o <<m, n>> /\ commands = <<>>
        BY <1>2, <2>1 DEF Rest
      <3> HIDE DEF m, n
      <3>3. commands' = <<m, n>>
        BY <3>2
      <3> QED
        BY <3>1, <3>3
    <2> HIDE DEF id
    <2>7. NoTrouble'
      BY <1>0, <1>1, <2>2, <2>3, <2>4 DEF NoTrouble, Dead
    <2>8. PartingWords'
      <3>1. \A i \in DOMAIN Line' : StartsUp(Line'[i])
        BY <1>0, <1>3 DEF StartingUp, LineStays, StartsUp
      <3> QED
        BY <3>1 DEF PartingWords, StartsUp
    <2>9. Parting'
      BY <1>1, <2>0, <2>2, <2>4, <2>5, <2>6 DEF Parting
    <2> QED
      BY <1>5, <2>2, <2>7, <2>8, <2>9 DEF Farewell
  <1> QED
    BY <1>2, <1>6, <1>7 DEF Alive, Dead

(* One event of the shutdown is taken. *)
LEMMA PartingIsHeard ==
  ASSUME TypeOK, NoTrouble, PartingWords, Parting, ses.closed, ShakeEvent
  PROVE  NoTrouble' /\ ses'.closed /\ PartingWords' /\ Parting'
  <1> DEFINE e == Head(queue)
  <1>0. /\ LineShrinks /\ e = Line[1] /\ shut.at = "shaking" /\ shut \in Shutdowns
        /\ ses \in SessionFields /\ ~ses.shutdownComplete
        /\ UNCHANGED <<helper, commands, pipe, closer, call, readerDone, signal>>
    BY TakenShrinks DEF ShakeEvent, LineShrinks, OnlyClose, helperVars, TypeOK, Parting
  <1>1. /\ 1 \in DOMAIN Line
        /\ \A i \in DOMAIN Line : i # 1 => 1 < i
        /\ \A i \in DOMAIN Line' : i + 1 \in DOMAIN Line /\ 1 < i + 1 /\ Line'[i] = Line[i + 1]
        /\ \A i, j \in DOMAIN Line' : i < j => i + 1 < j + 1
        /\ \A i \in DOMAIN Line : i # 1 => i - 1 \in DOMAIN Line' /\ Line'[i - 1] = Line[i]
    BY <1>0 DEF LineShrinks
  <1>2. ses' = [Decoded(ses, e) EXCEPT !.shutdownComplete = Completes(e)]
    BY DEF ShakeEvent
  <1>3. shut' = CASE Passes(e) -> shut
                  [] Completes(e) -> [shut EXCEPT !.at = "settling"]
                  [] OTHER -> [shut EXCEPT !.at = "settling", !.failed = Wrong(e)]
    BY DEF ShakeEvent
  <1> HIDE DEF e
  <1>4. \/ StartsUp(e)
        \/ e.type = "accepted" /\ e.id = shut.id
        \/ /\ e.type = "complete" /\ e.id = shut.id /\ e.ok
           /\ helper.at \in {"leaving", "exited"}
    <2>1. e.type # "eof"
      <3> SUFFICES ASSUME e.type = "eof" PROVE FALSE
        OBVIOUS
      <3>1. helper.at = "exited"
        BY <1>0, <1>1 DEF PartingWords, StartsUp, NoTrouble, Dead
      <3>2. PICK i \in DOMAIN Line : Line[i].type = "complete"
        BY <1>0, <3>1 DEF Parting
      <3>3. 1 < i
        BY <1>0, <1>1, <3>2
      <3> QED
        BY <1>0, <1>1, <3>2, <3>3 DEF PartingWords
    <2> QED
      BY <1>0, <1>1, <2>1 DEF PartingWords
  <1>5. ~Quarantined(e)
    BY DEF Quarantined, NoTrouble
  <1>6. \A d \in {e} : d.type \notin {"eof", "fatal"}
    BY <1>4 DEF StartsUp
  <1> DEFINE s == Decoded(ses, e)
  <1> DEFINE done == Completes(e)
  <1>7. /\ s \in SessionFields /\ s.fatal = ses.fatal /\ s.abandoned = ses.abandoned
        /\ s.teardown = ses.teardown /\ s.closed = ses.closed
    BY <1>0, <1>6, DecodedHealthy DEF Decoded
  <1>8. done \in BOOLEAN
    BY DEF Completes
  <1>9. done <=> e.type = "complete"
    BY <1>4, <1>5 DEF Completes, StartsUp
  <1>10. ses' = [s EXCEPT !.shutdownComplete = done]
    BY <1>2
  <1> HIDE DEF s, done
  <1>11. /\ ses'.fatal = ses.fatal /\ ses'.abandoned = ses.abandoned
         /\ ses'.teardown = ses.teardown /\ ses'.closed = ses.closed
         /\ ses'.shutdownComplete = done
    BY <1>7, <1>8, <1>10 DEF SessionFields
  <1>12. /\ shut'.id = shut.id /\ shut'.failed = shut.failed /\ shut'.escalated = shut.escalated
         /\ e.type = "complete" => shut'.at = "settling"
         /\ e.type # "complete" => shut'.at = "shaking"
    <2>1. CASE e.type = "complete"
      <3>1. ~Passes(e) /\ Completes(e)
        BY <1>5, <1>9, <2>1 DEF Passes, Expected, done
      <3>2. shut' = [shut EXCEPT !.at = "settling"]
        BY <1>3, <3>1
      <3> QED
        BY <1>0, <2>1, <3>2 DEF Shutdowns
    <2>2. CASE e.type # "complete"
      <3>1. Passes(e)
        BY <1>4, <2>2 DEF Passes, Expected, StartsUp
      <3>2. ~Completes(e)
        BY <1>9, <2>2 DEF done
      <3>3. shut' = shut
        BY <1>3, <3>1, <3>2
      <3> QED
        BY <1>0, <2>2, <3>3
    <2> QED
      BY <2>1, <2>2
  <1>13. NoTrouble'
    BY <1>0, <1>11, <1>12 DEF NoTrouble, Dead
  <1>14. PartingWords'
    <2>1. \A i \in DOMAIN Line' : Line'[i].type = "complete" => e.type # "complete"
      BY <1>0, <1>1 DEF PartingWords
    <2>2. \A i \in DOMAIN Line' : Line'[i].type = "complete" => ~ses'.shutdownComplete
      BY <1>9, <1>11, <2>1
    <2>3. \A i \in DOMAIN Line' :
            \/ StartsUp(Line'[i])
            \/ Line'[i].type = "accepted" /\ Line'[i].id = shut.id
            \/ /\ Line'[i].type = "complete" /\ Line'[i].id = shut.id /\ Line'[i].ok
               /\ helper.at \in {"leaving", "exited"}
            \/ Line'[i].type = "eof" /\ readerDone
      BY <1>1 DEF PartingWords, StartsUp
    <2>4. \A i, j \in DOMAIN Line' :
            i < j /\ Line'[j].type = "complete" => Line'[i].type \notin {"complete", "eof"}
      BY <1>1 DEF PartingWords
    <2> QED
      BY <1>0, <1>12, <2>2, <2>3, <2>4 DEF PartingWords, StartsUp
  <1>15. Parting'
    <2>1. e.type = "complete" => helper.at \in {"leaving", "exited"}
      BY <1>4 DEF StartsUp
    <2>2. helper.at \in {"leaving", "exited"} /\ e.type # "complete"
            => \E i \in DOMAIN Line' : Line'[i].type = "complete"
      <3> SUFFICES ASSUME helper.at \in {"leaving", "exited"}, e.type # "complete"
                   PROVE  \E i \in DOMAIN Line' : Line'[i].type = "complete"
        OBVIOUS
      <3>1. PICK i \in DOMAIN Line : Line[i].type = "complete"
        BY <1>0 DEF Parting
      <3>2. i # 1
        BY <1>0, <3>1
      <3> QED
        BY <1>1, <3>1, <3>2
    <2> QED
      BY <1>0, <1>9, <1>11, <1>12, <2>1, <2>2 DEF Parting, Dead
  <1> QED
    BY <1>0, <1>7, <1>11, <1>13, <1>14, <1>15 DEF SessionFields

(* The closer leaves without an error: whatever of the helper's last words
   was still queued when its process was found dead is drained, up to
   session_shutdown_complete.                                             *)
LEMMA LeavingIsHealthy ==
  ASSUME IInv, faults = {}, NoTrouble, PartingWords, Parting,
         NEW removed \in BOOLEAN, CloseEnd(removed)
  PROVE  NoTrouble' /\ ses'.closed /\ shut'.at = "none"
  <1> DEFINE stops == {i \in 1..Len(queue) : ~Passes(queue[i])}
  <1> DEFINE first == CHOOSE i \in stops : \A j \in stops : i =< j
  <1> DEFINE last == IF ~Drain THEN 0
                     ELSE IF stops = {} THEN Len(queue)
                     ELSE CHOOSE i \in stops : \A j \in stops : i =< j
  <1> DEFINE completed == ses.shutdownComplete \/ (last > 0 /\ Completes(queue[last]))
  <1> DEFINE failed == shut.failed # "none" \/ (last \in stops /\ ~completed)
  <1> DEFINE events == {queue[i] : i \in 1..last}
  <1> DEFINE read == DecodedAll(ses, events)
  <1> DEFINE decoded == [read EXCEPT !.shutdownComplete = completed, !.pipesClosed = TRUE]
  <1> DEFINE bad == \/ decoded.tempKnown /\ ~removed
                    \/ failed \/ ~completed
                    \/ shut.escalated \/ ~helper.clean
  <1> DEFINE outcome == IF ~readerDone THEN "reap" ELSE IF bad THEN "error" ELSE "ok"
  <1> DEFINE left == CleanTemp(decoded, removed)
  <1>0. /\ TypeOK /\ ses \in SessionFields /\ queue \in Seq(Event) /\ Len(queue) \in Nat
        /\ shut.at = "joining" /\ Dead /\ ses.closed /\ shut \in Shutdowns
        /\ closer \in [Closers -> Closing]
    BY DEF CloseEnd, IInv, TypeOK, OneAtATime
  <1>1. readerDone /\ removed /\ pipe = <<>>
    BY DEF CloseEnd, Late, NoTrouble
  <1>2. Line = queue /\ DOMAIN Line = 1..Len(queue)
    <2>1. Line = queue
      BY <1>0, <1>1, ConcatEmptySeq DEF Line
    <2> QED
      BY <1>0, <2>1, LenProperties
  <1>3. Leave(outcome, left) /\ UNCHANGED <<helper, commands, pipe, call, readerDone, signal>>
    BY DEF CloseEnd, OnlyClose
  <1>4. /\ \A i \in 1..Len(queue) :
             \/ StartsUp(queue[i])
             \/ queue[i].type = "accepted" /\ queue[i].id = shut.id
             \/ queue[i].type = "complete" /\ queue[i].id = shut.id /\ queue[i].ok
             \/ queue[i].type = "eof"
        /\ \A i, j \in 1..Len(queue) :
             i < j /\ queue[j].type = "complete" => queue[i].type \notin {"complete", "eof"}
    BY <1>2 DEF PartingWords
  <1>5. \A i \in 1..Len(queue) : /\ ~Quarantined(queue[i])
                                 /\ Completes(queue[i]) <=> queue[i].type = "complete"
                                 /\ i \in stops <=> queue[i].type \in {"complete", "eof"}
    BY <1>4 DEF NoTrouble, Quarantined, Completes, Passes, Expected, StartsUp
  <1>6. /\ completed /\ last \in 0..Len(queue)
        /\ \A i \in 1..last : queue[i].type \notin {"eof", "fatal"}
    <2>1. CASE ses.shutdownComplete
      <3>1. ~Drain
        BY <2>1 DEF Drain
      <3>2. last = 0
        BY <3>1
      <3> HIDE DEF last
      <3> QED
        BY <1>0, <2>1, <3>2
    <2>2. CASE ~ses.shutdownComplete
      <3>1. Drain
        BY <1>1, <2>2 DEF Drain, NoTrouble, Parting
      <3>2. PICK k \in 1..Len(queue) : queue[k].type = "complete"
        BY <1>0, <1>2, <2>2 DEF Parting, Dead
      <3>3. k \in stops /\ stops \in SUBSET Nat
        BY <1>0, <1>5, <3>2
      <3>4. last = first
        BY <3>1, <3>3
      <3>5. stops \subseteq 1..Len(queue)
        OBVIOUS
      <3> HIDE DEF stops
      <3>6. first \in stops /\ \A j \in stops : first =< j
        BY <3>3, FirstExists
      <3> HIDE DEF first, last
      <3>7. last \in 1..Len(queue) /\ last =< k /\ last \in stops /\ last > 0
        BY <1>0, <3>3, <3>4, <3>5, <3>6
      <3>8. queue[last].type = "complete"
        <4> SUFFICES ASSUME queue[last].type = "eof" PROVE FALSE
          BY <1>5, <3>7
        <4>1. last # k /\ last < k
          BY <3>2, <3>7
        <4> QED
          BY <1>4, <3>2, <3>7, <4>1
      <3>9. Completes(queue[last])
        BY <1>5, <3>7, <3>8
      <3>10. ASSUME NEW i \in 1..last PROVE queue[i].type \notin {"eof", "fatal"}
        <4>1. i \in 1..Len(queue) /\ (i = last \/ i < last)
          BY <1>0, <3>7
        <4>2. CASE i = last
          BY <3>8, <4>2
        <4>3. CASE i < last
          BY <1>4, <3>7, <3>8, <4>1, <4>3 DEF StartsUp
        <4> QED
          BY <4>1, <4>2, <4>3
      <3> QED
        BY <1>0, <3>7, <3>9, <3>10
    <2> QED
      BY <2>1, <2>2
  <1>7. ~failed
    BY <1>6 DEF NoTrouble
  <1>8. ~bad
    BY <1>1, <1>6, <1>7 DEF NoTrouble
  <1>9. outcome = "ok"
    BY <1>1, <1>8
  <1> HIDE DEF bad, outcome, failed, last, completed
  <1>10. \A e \in events : e.type \notin {"eof", "fatal"}
    BY <1>6
  <1>11. completed \in BOOLEAN
    <2>1. (last > 0 /\ Completes(queue[last])) \in BOOLEAN
      OBVIOUS
    <2> QED
      BY <1>0, <2>1 DEF SessionFields, completed
  <1> HIDE DEF events
  <1>12. /\ read \in SessionFields /\ read.fatal = ses.fatal /\ read.abandoned = ses.abandoned
         /\ read.closed = ses.closed
    BY <1>0, <1>10, DecodedHealthy
  <1> HIDE DEF read
  <1>13. /\ decoded \in SessionFields /\ decoded.fatal = ses.fatal
         /\ decoded.abandoned = ses.abandoned /\ decoded.closed = ses.closed
    BY <1>11, <1>12 DEF SessionFields
  <1> HIDE DEF decoded
  <1>14. /\ left \in SessionFields /\ left.fatal = ses.fatal
         /\ left.abandoned = ses.abandoned /\ left.closed = ses.closed
    BY <1>13 DEF CleanTemp, SessionFields
  <1> HIDE DEF left
  <1> DEFINE t == [left EXCEPT !.teardown = "none"]
  <1>15. /\ closer' = [closer EXCEPT ![shut.by] = "ok"] /\ ses' = Marked(t) /\ shut' = NotShutting
    BY <1>3, <1>9 DEF Leave
  <1>16. /\ t \in SessionFields /\ t.fatal = ses.fatal
         /\ t.abandoned = ses.abandoned /\ t.closed = ses.closed /\ t.teardown = "none"
    BY <1>14 DEF SessionFields, Errors
  <1> HIDE DEF t
  <1>17. /\ ses'.fatal = ses.fatal /\ ses'.abandoned = ses.abandoned /\ ses'.closed = ses.closed
         /\ ses'.teardown = "none"
    BY <1>15, <1>16 DEF Marked, SessionFields
  <1>18. shut'.at = "none" /\ shut'.failed = "none" /\ ~shut'.escalated
    BY <1>15 DEF NotShutting
  <1>19. \A c \in Closers : closer'[c] \notin {"error", "reap", "lifted"}
    BY <1>0, <1>15 DEF NoTrouble
  <1>20. NoTrouble'
    BY <1>0, <1>3, <1>17, <1>18, <1>19 DEF NoTrouble, Dead
  <1> QED
    BY <1>0, <1>17, <1>18, <1>20

LEMMA ClosersAreHealthy ==
  ASSUME IInv, IInv', StartsFresh, ConvInv, faults = {}, HealthyInv,
         NEW c \in Closers, CloseStep(c)
  PROVE  NoTrouble' /\ Serves' /\ StartingUp' /\ AcceptedFirst' /\ Farewell'
  <1>0. /\ TypeOK /\ ses \in SessionFields /\ closer \in [Closers -> Closing] /\ ~Late
        /\ NoTrouble /\ Serves /\ StartingUp /\ AcceptedFirst /\ Farewell
        /\ \A d \in Closers : closer[d] \notin {"error", "reap", "lifted"}
        /\ readerDone => pipe = <<>>
    BY DEF IInv, TypeOK, HealthyInv, NoTrouble, Late
  <1>1. CASE CloseBegin(c)
    BY <1>1, ClosingIsHealthy
  <1>2. CASE CloseReleased(c)
    <2>1. UNCHANGED <<helper, commands, pipe, queue, shut, signal, readerDone, call, ses>>
      BY <1>2 DEF CloseReleased, OnlyFinalize, OnlyClose
    <2>2. \A d \in Closers : closer'[d] \notin {"error", "reap", "lifted"}
      BY <1>0, <1>2 DEF CloseReleased
    <2>3. LineStays
      BY <1>0, <2>1, NothingMoves
    <2> QED
      BY <1>0, <2>1, <2>2, <2>3, HealthyFrame
  <1>3. \A removed \in BOOLEAN : ~CloseAgain(c, removed)
    BY <1>0, ClosedIsGone DEF CloseAgain, NoLock
  <1>4. ASSUME shut.at # "none"
        PROVE  ses.closed /\ PartingWords /\ Parting
    BY <1>0, <1>4 DEF IInv, OneAtATime, Farewell
  <1>5. ASSUME ses'.closed
        PROVE  Serves' /\ StartingUp' /\ AcceptedFirst'
    BY <1>5 DEF Serves, StartingUp, AcceptedFirst
  <1>6. CASE ShakeEvent
    <2>1. NoTrouble' /\ ses'.closed /\ PartingWords' /\ Parting'
      BY <1>0, <1>4, <1>6, PartingIsHeard DEF ShakeEvent
    <2> QED
      BY <1>5, <2>1 DEF Farewell
  <1>7. ASSUME shut.at # "none", UNCHANGED <<helper, commands, pipe, queue, signal, readerDone, ses, closer>>,
               shut'.at \in {"settling", "joining"}, shut'.id = shut.id,
               shut'.failed = shut.failed, shut'.escalated = shut.escalated,
               shut'.at = "settling" => Dead
        PROVE  NoTrouble' /\ Serves' /\ StartingUp' /\ AcceptedFirst' /\ Farewell'
    <2>1. NoTrouble'
      BY <1>0, <1>7 DEF NoTrouble, Dead
    <2>2. LineStays
      BY <1>0, <1>7, NothingMoves
    <2>3. PartingWords'
      BY <1>4, <1>7, <2>2 DEF PartingWords, LineStays, StartsUp
    <2>4. Parting'
      BY <1>4, <1>7, <2>2 DEF Parting, LineStays, Dead
    <2> QED
      BY <1>4, <1>5, <1>7, <2>1, <2>3, <2>4 DEF Farewell
  <1>8. CASE ShakeEnds
    <2>1. shut' = [shut EXCEPT !.at = "settling"] /\ shut \in Shutdowns /\ Dead
      BY <1>0, <1>8 DEF ShakeEnds, TypeOK
    <2>2. UNCHANGED <<helper, commands, pipe, queue, signal, readerDone, ses, closer>>
      BY <1>8 DEF ShakeEnds, OnlyClose, NoTraffic, helperVars
    <2> QED
      BY <1>7, <1>8, <2>1, <2>2 DEF ShakeEnds, Shutdowns
  <1>9. CASE Reaped
    <2>1. shut' = [shut EXCEPT !.at = "joining"] /\ shut \in Shutdowns
      BY <1>0, <1>9 DEF Reaped, TypeOK
    <2>2. UNCHANGED <<helper, commands, pipe, queue, signal, readerDone, ses, closer>>
      BY <1>9 DEF Reaped, OnlyShut, OnlyClose, NoTraffic, helperVars
    <2> QED
      BY <1>7, <1>9, <2>1, <2>2 DEF Reaped, Shutdowns
  <1>10. ~Terminate
    BY <1>0, <1>4 DEF Terminate, Parting, Dead, Alive
  <1>11. ~Kill /\ ~LoseHelper
    BY <1>0 DEF Kill, LoseHelper, NoTrouble
  <1>12. ASSUME NEW removed \in BOOLEAN, CloseEnd(removed)
         PROVE  NoTrouble' /\ Serves' /\ StartingUp' /\ AcceptedFirst' /\ Farewell'
    <2>1. shut.at # "none"
      BY <1>12 DEF CloseEnd
    <2>2. NoTrouble' /\ ses'.closed /\ shut'.at = "none"
      BY <1>0, <1>4, <1>12, <2>1, LeavingIsHealthy
    <2> QED
      BY <1>5, <2>2 DEF Farewell
  <1> QED
    BY <1>1, <1>2, <1>3, <1>6, <1>8, <1>9, <1>10, <1>11, <1>12 DEF CloseStep, ShutStep

LEMMA HealthyInvInit == Init => HealthyInv
  <1> SUFFICES ASSUME Init
               PROVE  NoTrouble /\ Serves /\ StartingUp /\ AcceptedFirst /\ Farewell
    BY DEF HealthyInv
  <1>1. NoTrouble
    BY DEF Init, HelperInit, NoTrouble, NotShutting
  <1>2. DOMAIN Line = {}
    <2>1. Line = <<>>
      BY DEF Init, HelperInit, Line
    <2> QED
      BY <2>1
  <1>3. Serves
    BY DEF Init, HelperInit, Serves, NoCall
  <1>4. StartingUp
    BY <1>2 DEF StartingUp
  <1>5. AcceptedFirst /\ Farewell
    BY DEF Init, AcceptedFirst, Farewell, NoCall, NotShutting
  <1> QED
    BY <1>1, <1>3, <1>4, <1>5

LEMMA HealthyInvStep ==
  ASSUME IInv, IInv', StartsFresh, ConvInv, ConvInv', HealthyInv, [Next]_vars
  PROVE  HealthyInv'
  <1> SUFFICES ASSUME faults' = {}
               PROVE  NoTrouble' /\ Serves' /\ StartingUp' /\ AcceptedFirst' /\ Farewell'
    BY DEF HealthyInv
  <1>0. /\ faults = {} /\ TypeOK /\ NoTrouble /\ Serves /\ StartingUp /\ AcceptedFirst /\ Farewell
    BY FaultsStay DEF HealthyInv, IInv
  <1>1. CASE UNCHANGED vars
    <2>1. LineStays
      BY <1>0, <1>1, NothingMoves DEF vars, helperVars, sesVars
    <2>2. /\ UNCHANGED <<helper, commands, shut, signal, readerDone, call, ses, closer, pipe>>
          /\ \A c \in Closers : closer[c] \notin {"error", "reap", "lifted"}
          /\ readerDone => pipe = <<>>
      BY <1>0, <1>1 DEF vars, helperVars, sesVars, NoTrouble
    <2> QED
      BY <1>0, <2>1, <2>2, HealthyFrame
  <1>2. CASE Helper
    BY <1>0, <1>2, HelperIsHealthy
  <1>3. CASE SignalEnds \/ ReadLine \/ ReaderEnds \/ UserCancels \/ \E c \in Closers : AskClose(c)
    BY <1>0, <1>3, EnvironmentIsHealthy
  <1>4. CASE CallStep
    BY <1>0, <1>4, CallIsHealthy
  <1>5. ~Recover
    BY <1>0 DEF Recover, RecoverReaped, NoTrouble, Closers
  <1>6. ASSUME NEW c \in Closers, CloseStep(c)
        PROVE  NoTrouble' /\ Serves' /\ StartingUp' /\ AcceptedFirst' /\ Farewell'
    BY <1>0, <1>6, ClosersAreHealthy
  <1> QED
    BY <1>1, <1>2, <1>3, <1>4, <1>5, <1>6 DEF Next

(* The course of a session in which nothing goes wrong: the helper serves
   until the session is closed, what it says is what the launcher expects
   at that moment, and its last words are said and heard before its end.   *)
THEOREM HealthyInvariant == Spec => []HealthyInv
  <1>1. Init => HealthyInv
    BY HealthyInvInit
  <1>2. /\ IInv /\ IInv'
        /\ LastWords /\ StartsFresh /\ ConvInv /\ (LastWords /\ StartsFresh /\ ConvInv)'
        /\ HealthyInv /\ [Next]_vars
        => HealthyInv'
    BY HealthyInvStep
  <1> QED
    BY <1>1, <1>2, Invariant, ConversationInvariant, PTL DEF Spec

(* When no timer runs out and the helper does its part, no order in which
   commands, Stop, closers, the reader thread and the helper's exit follow
   one another makes the session fail, draws a signal, or makes close()
   report an error.                                                        *)
THEOREM HealthyIsClean == Spec => []HealthyCloseIsClean
  <1>1. HealthyInv => HealthyCloseIsClean
    BY DEF HealthyInv, NoTrouble, HealthyCloseIsClean
  <1> QED
    BY <1>1, HealthyInvariant, PTL
=============================================================================
