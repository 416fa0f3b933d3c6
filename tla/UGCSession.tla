----------------------------- MODULE UGCSession -----------------------------
(***************************************************************************)
(* CooperativeUGCSession (steam_ugc_backend.py), the launcher's side of    *)
(* the helper process.  The preparation worker runs commands one after     *)
(* another under _request_lock and finally closes the session; the         *)
(* settings window's Steam recovery may close it from a thread of its own  *)
(* while a command runs; the recovery timer of the preparation gate        *)
(* releases it once a helper that could not be reaped is found dead.       *)
(*                                                                         *)
(* A reader thread moves the helper's lines from pipe to queue.  Waiting   *)
(* with a timeout is a step for each way it can end; the step of a timer   *)
(* that runs out needs "deadline" in faults.                               *)
(***************************************************************************)
EXTENDS UGCHelper

VARIABLES ses,       \* the session object's fields
          call,      \* locals of run_command while it holds _request_lock
          closer,    \* closer[c]: how far thread c is with close()
          shut,      \* locals of _close_session while it runs
          queue,     \* _stdout_q
          readerDone,  \* the reader thread has ended
          signal,    \* the last signal sent to the helper
          userCancel \* the operation's cancel_event

sesVars == <<ses, call, closer, shut, queue, readerDone, signal, userCancel>>
vars == <<helperVars, sesVars>>

Closers == {"worker", "recovery"}
Errors == {"none", "error", "reap"}   \* "reap" is UGCHelperReapError
StartupErrors == {"none", "helper's error", "closed", "unexpected event"}

NoCall == [at |-> "none", id |-> NoId, cancelId |-> NoId, accepted |-> FALSE,
           acked |-> FALSE, answered |-> FALSE]
NotShutting == [at |-> "none", by |-> "worker", id |-> NoId, failed |-> "none",
                escalated |-> FALSE]

SessionFields ==
  [ready: BOOLEAN, closeRequested: BOOLEAN, closed: BOOLEAN,
   fatal: BOOLEAN, abandoned: SUBSET Ids, nextId: Ids,
   shutdownComplete: BOOLEAN, stdinClosed: BOOLEAN,
   pipesClosed: BOOLEAN, tempKnown: BOOLEAN, tempClean: BOOLEAN,
   released: BOOLEAN, teardown: Errors, startup: StartupErrors]
Calls == [at: {"none", "starting", "running"}, id: Ids, cancelId: Ids,
          accepted: BOOLEAN, acked: BOOLEAN, answered: BOOLEAN]
Closing == {"open", "asked", "closing", "ok", "error", "reap", "lifted"}
Shutdowns ==
  [at: {"none", "shaking", "settling", "terminating", "killing", "joining"},
   by: Closers, id: Ids, failed: {"none", "broken", "unexpected"}, escalated: BOOLEAN]

TypeOK ==
  /\ HelperTypeOK
  /\ ses \in SessionFields /\ call \in Calls
  /\ closer \in [Closers -> Closing] /\ shut \in Shutdowns
  /\ queue \in Seq(Event) /\ readerDone \in BOOLEAN
  /\ signal \in {"none", "term", "kill"} /\ userCancel \in BOOLEAN

Init ==
  /\ HelperInit
  /\ ses = [ready |-> FALSE, closeRequested |-> FALSE, closed |-> FALSE,
            fatal |-> FALSE, abandoned |-> {}, nextId |-> 0,
            shutdownComplete |-> FALSE, stdinClosed |-> FALSE,
            pipesClosed |-> FALSE, tempKnown |-> FALSE, tempClean |-> TRUE,
            released |-> FALSE, teardown |-> "none", startup |-> "none"]
  /\ call = NoCall /\ shut = NotShutting
  /\ closer = [c \in Closers |-> "open"]
  /\ queue = <<>> /\ readerDone = FALSE
  /\ signal = "none" /\ userCancel = FALSE

Late == "deadline" \in faults
Wanted == ses.closeRequested \/ userCancel   \* a running command should stop

-----------------------------------------------------------------------------
(* The environment: the reader thread, signals, the user's Stop. *)
OnlyReader == UNCHANGED <<helper, tempDir, commands, ses, call, closer, shut,
                          signal, userCancel, faults>>

ReadLine ==
  /\ pipe # <<>> /\ queue' = Append(queue, Head(pipe)) /\ pipe' = Tail(pipe)
  /\ OnlyReader /\ UNCHANGED readerDone

ReaderEnds ==
  /\ Dead /\ pipe = <<>> /\ ~readerDone
  /\ readerDone' = TRUE /\ queue' = Append(queue, Ev("eof", NoId, FALSE))
  /\ OnlyReader /\ UNCHANGED pipe

Helper == HelperStep /\ UNCHANGED sesVars

SignalEnds == signal # "none" /\ Die /\ UNCHANGED sesVars

UserCancels ==
  /\ ~userCancel /\ userCancel' = TRUE
  /\ UNCHANGED <<helperVars, ses, call, closer, shut, queue, readerDone, signal>>

-----------------------------------------------------------------------------
(* What _decode_event leaves behind of events, whoever reads them. *)
DecodedAll(s, events) ==
  LET some(types) == \E e \in events : e.type \in types
  IN [s EXCEPT !.tempKnown = @ \/ some({"starting"}),
               !.tempClean = @ /\ ~some({"starting"}),
               !.ready = @ \/ some({"ready"}),
               !.fatal = @ \/ some({"eof", "fatal"})]
Decoded(s, e) == DecodedAll(s, {e})

Take == queue # <<>> /\ queue' = Tail(queue)

(* run_command's except clause *)
Failing(s) ==
  /\ ses' = [s EXCEPT !.fatal = TRUE, !.abandoned = @ \cup ({call.id} \ {NoId})]
  /\ call' = NoCall

OnlyCall == UNCHANGED <<closer, shut, readerDone, signal, userCancel>>
NoTraffic == UNCHANGED <<helperVars, queue>>

(* run_command up to _start(), which spawns the helper once. *)
CallBegin ==
  /\ call.at = "none" /\ closer["worker"] = "open"
  /\ ~ses.closed /\ ~ses.closeRequested /\ ~ses.fatal
  /\ ses.nextId + 3 =< MaxId         \* bound: it, its cancellation, shutdown
  /\ call' = [NoCall EXCEPT !.at = "starting"]
  /\ helper' = IF helper.at = "none" THEN [helper EXCEPT !.at = "starting"] ELSE helper
  /\ OnlyCall /\ UNCHANGED <<tempDir, commands, pipe, ses, queue, faults>>

(* _wait_until_ready *)
WaitStops ==
  /\ call.at = "starting"
  /\ \/ ses.closeRequested
     \/ ~ses.ready /\ (Wanted \/ Late)
  /\ call' = NoCall
  /\ OnlyCall /\ NoTraffic /\ UNCHANGED ses

(* What the worker is told of an event that ends the startup. *)
StartupError(e) ==
  IF e.type = "error" THEN "helper's error"
  ELSE IF e.type = "eof" THEN "closed" ELSE "unexpected event"

WaitEvent ==
  /\ call.at = "starting" /\ ~ses.ready /\ ~Wanted /\ Take
  /\ LET e == Head(queue)
     IN IF e.type \in {"starting", "waiting", "ready"}
        THEN ses' = Decoded(ses, e) /\ UNCHANGED call
        ELSE Failing([Decoded(ses, e) EXCEPT !.startup = StartupError(e)])
  /\ OnlyCall /\ UNCHANGED helperVars

WaitFindsDead ==
  /\ call.at = "starting" /\ ~ses.ready /\ queue = <<>> /\ Dead
  /\ Failing(ses)
  /\ OnlyCall /\ NoTraffic

(* _send raises when the process has ended. *)
SendCommand(kind) ==
  LET id == ses.nextId + 1
  IN /\ call.at = "starting" /\ ses.ready /\ ~ses.closeRequested
     /\ IF Alive
        THEN /\ ses' = [ses EXCEPT !.nextId = id]
             /\ call' = [call EXCEPT !.at = "running", !.id = id]
             /\ commands' = Append(commands, [cmd |-> kind, id |-> id, target |-> NoId])
        ELSE /\ ses' = [ses EXCEPT !.nextId = id, !.fatal = TRUE,
                                   !.abandoned = @ \cup {id}]
             /\ call' = NoCall /\ UNCHANGED commands
     /\ OnlyCall /\ UNCHANGED <<helper, tempDir, pipe, queue, faults>>

CancelMessage(id) == [cmd |-> "cancel", id |-> id, target |-> call.id]

(* One cancellation, at the user's or a closer's wish or after the timeout. *)
SendCancel ==
  LET id == ses.nextId + 1
  IN /\ call.at = "running" /\ call.cancelId = NoId
     /\ Wanted \/ Late
     /\ IF Alive
        THEN /\ ses' = [ses EXCEPT !.nextId = id]
             /\ call' = [call EXCEPT !.cancelId = id]
             /\ commands' = Append(commands, CancelMessage(id))
        ELSE /\ Failing([ses EXCEPT !.nextId = id]) /\ UNCHANGED commands
     /\ OnlyCall /\ UNCHANGED <<helper, tempDir, pipe, queue, faults>>

(* Five seconds after the cancellation something is still missing. *)
GiveUpCancel ==
  /\ call.at = "running" /\ call.cancelId # NoId /\ Late
  /\ Failing(ses)
  /\ OnlyCall /\ NoTraffic

CallFindsDead ==
  /\ call.at = "running" /\ queue = <<>> /\ Dead
  /\ Failing(ses)
  /\ OnlyCall /\ NoTraffic

(* The events that may come while a command runs. *)
IsAck(e) == e.id = call.cancelId /\ e.type = "ack" /\ ~call.acked
IsStart(e) == e.id = call.id /\ e.type = "accepted" /\ ~call.accepted
IsItem(e) == e.id = call.id /\ e.type = "item" /\ call.accepted
IsResult(e) ==
  e.id = call.id /\ e.type = "result" /\ call.accepted /\ ~call.answered
IsRefusal(e) == e.id = call.id /\ e.type = "recoverable" /\ call.accepted

(* A variant that returns with the result, not waiting for the acknowledgement. *)
EndsWithoutAck(e) ==
  \/ IsRefusal(e)
  \/ IsResult(e)
  \/ IsAck(e) /\ call.answered

(* A cancelled command ends when it has both its result and the
   acknowledgement, another one with its result.                          *)
Ends(e) ==
  \/ IsRefusal(e)
  \/ IsResult(e) /\ (call.cancelId = NoId \/ call.acked)
  \/ IsAck(e) /\ call.answered

CallEvent ==
  /\ call.at = "running" /\ (Wanted => call.cancelId # NoId) /\ Take
  /\ LET e == Head(queue)
     IN CASE Ends(e) -> call' = NoCall /\ UNCHANGED ses
          [] IsAck(e) /\ ~Ends(e) -> call' = [call EXCEPT !.acked = TRUE] /\ UNCHANGED ses
          [] IsResult(e) /\ ~Ends(e) ->
               call' = [call EXCEPT !.answered = TRUE] /\ UNCHANGED ses
          [] IsStart(e) -> call' = [call EXCEPT !.accepted = TRUE] /\ UNCHANGED ses
          [] IsItem(e) -> UNCHANGED <<call, ses>>
          [] OTHER -> Failing(Decoded(ses, e))
  /\ OnlyCall /\ UNCHANGED helperVars

-----------------------------------------------------------------------------
(* close() *)
OnlyClose == UNCHANGED <<call, readerDone, userCancel>>
NoLock == shut.at = "none"     \* _close_lock is free

AskClose(c) ==
  /\ \/ c = "worker" /\ closer[c] = "open" /\ call.at = "none"
     \/ c = "recovery" /\ closer[c] \in {"open", "error", "reap"} /\ ~ses.released
  /\ closer' = [closer EXCEPT ![c] = "asked"]
  /\ ses' = [ses EXCEPT !.closeRequested = TRUE]
  /\ UNCHANGED <<helperVars, call, shut, queue, readerDone, signal, userCancel>>

(* A variant that does not look at the reader thread. *)
MarkedBeforeReader(s) ==
  LET gone == /\ helper.at = "none" \/ (Dead /\ s.stdinClosed /\ s.pipesClosed)
              /\ s.tempClean
  IN [s EXCEPT !.released = @ \/ gone]

(* _mark_owned_resources_released_locked *)
Marked(s) ==
  LET gone == /\ helper.at = "none" \/ (Dead /\ s.stdinClosed /\ s.pipesClosed /\ readerDone)
              /\ s.tempClean
  IN [s EXCEPT !.released = @ \/ gone]

(* A variant that does not wait for _request_lock. *)
RequestLockIgnored == TRUE

RequestLockFree == call.at = "none"

(* _close_session begins, with the request lock: shutdown goes to a helper
   that runs, and stdin is closed behind it.                               *)
CloseBegin(c) ==
  LET id == ses.nextId + 1
      begun == [ses EXCEPT !.closed = TRUE]
  IN /\ closer[c] = "asked" /\ NoLock /\ RequestLockFree
     /\ ~ses.released /\ ~ses.closed
     /\ \/ /\ helper.at = "none"
           /\ ses' = Marked(begun) /\ closer' = [closer EXCEPT ![c] = "ok"]
           /\ UNCHANGED <<shut, commands>>
        \/ /\ Alive
           /\ ses' = [begun EXCEPT !.nextId = id, !.stdinClosed = TRUE]
           /\ commands' = commands \o
                <<[cmd |-> "shutdown", id |-> id, target |-> NoId],
                  [cmd |-> "eof", id |-> NoId, target |-> NoId]>>
           /\ shut' = [NotShutting EXCEPT !.at = "shaking", !.by = c, !.id = id]
           /\ closer' = [closer EXCEPT ![c] = "closing"]
        \/ /\ Dead
           /\ ses' = [begun EXCEPT !.stdinClosed = TRUE]
           /\ shut' = [NotShutting EXCEPT !.at = "joining", !.by = c]
           /\ closer' = [closer EXCEPT ![c] = "closing"]
           /\ UNCHANGED commands
     /\ OnlyClose /\ UNCHANGED <<helper, tempDir, pipe, queue, signal, faults>>

(* process_shutdown_event: what is let pass, what completes the shutdown;
   anything else, eof and fatal_session_error first, is an error.          *)
Quarantined(e) == e.type \notin {"eof", "fatal"} /\ e.id \in ses.abandoned
Expected(e) ==
  \/ e.type \in {"starting", "waiting", "ready"}
  \/ e.type = "accepted" /\ e.id = shut.id
Completes(e) ==
  ~Quarantined(e) /\ e.type = "complete" /\ e.id = shut.id /\ e.ok
Passes(e) == Quarantined(e) \/ Expected(e)
Wrong(e) ==
  IF e.type \in {"ack", "accepted", "item", "result"} THEN "unexpected" ELSE "broken"

ShakeEvent ==
  /\ shut.at = "shaking" /\ Take
  /\ LET e == Head(queue)
     IN /\ ses' = [Decoded(ses, e) EXCEPT !.shutdownComplete = Completes(e)]
        /\ shut' = CASE Passes(e) -> shut
                     [] Completes(e) -> [shut EXCEPT !.at = "settling"]
                     [] OTHER -> [shut EXCEPT !.at = "settling", !.failed = Wrong(e)]
  /\ OnlyClose /\ UNCHANGED <<helperVars, closer, signal>>

(* The helper is dead and nothing is queued, or five seconds are over. *)
ShakeEnds ==
  /\ shut.at = "shaking"
  /\ (Dead /\ queue = <<>>) \/ Late
  /\ shut' = [shut EXCEPT !.at = "settling"]
  /\ OnlyClose /\ NoTraffic /\ UNCHANGED <<ses, closer, signal>>

OnlyShut == OnlyClose /\ NoTraffic /\ UNCHANGED <<ses, closer>>

(* Wait for the process after a clean shutdown; escalate otherwise. *)
Reaped ==
  /\ shut.at \in {"settling", "terminating", "killing"} /\ Dead
  /\ shut' = [shut EXCEPT !.at = "joining"]
  /\ OnlyShut /\ UNCHANGED signal

Terminate ==
  /\ shut.at = "settling" /\ Alive
  /\ ses.shutdownComplete => Late
  /\ shut' = [shut EXCEPT !.at = "terminating", !.escalated = TRUE]
  /\ signal' = "term"
  /\ OnlyShut

(* A variant that waits for the terminated helper without a timeout. *)
KillExited ==
  /\ shut.at = "terminating" /\ Dead /\ Late
  /\ shut' = [shut EXCEPT !.at = "killing"]
  /\ signal' = "kill"
  /\ OnlyShut

Kill ==
  /\ shut.at = "terminating" /\ Alive /\ Late
  /\ shut' = [shut EXCEPT !.at = "killing"]
  /\ signal' = "kill"
  /\ OnlyShut

(* The closer leaves with outcome o, the session's fields being s. *)
Leave(o, s) ==
  /\ closer' = [closer EXCEPT ![shut.by] = o]
  /\ ses' = Marked([s EXCEPT !.teardown = IF o = "ok" THEN "none" ELSE o])
  /\ shut' = NotShutting

(* A variant that raises a plain UGCSessionError. *)
LoseHelperPlainly ==
  /\ shut.at = "killing" /\ Alive /\ Late
  /\ Leave("error", ses)
  /\ OnlyClose /\ NoTraffic /\ UNCHANGED signal

(* Two seconds after SIGKILL: UGCHelperReapError, nothing cleaned up. *)
LoseHelper ==
  /\ shut.at = "killing" /\ Alive /\ Late
  /\ Leave("reap", ses)
  /\ OnlyClose /\ NoTraffic /\ UNCHANGED signal

(* _cleanup_temp_dir removes the directory the helper has announced. *)
CleanTemp(s, removed) == [s EXCEPT !.tempClean = @ \/ removed]

(* A variant without the last drain. *)
DrainEmpty ==
  /\ shut.failed = "none" /\ ~ses.shutdownComplete /\ ~shut.escalated
  /\ shut.id # NoId /\ readerDone /\ queue = <<>>

(* The last drain: what the reader queued while it was being joined. *)
Drain ==
  /\ shut.failed = "none" /\ ~ses.shutdownComplete /\ ~shut.escalated
  /\ shut.id # NoId /\ readerDone

(* Readers joined (or given up), pipes closed, directory removed. *)
CloseEnd(removed) ==
  LET stops == {i \in 1..Len(queue) : ~Passes(queue[i])}
      last == IF ~Drain THEN 0
              ELSE IF stops = {} THEN Len(queue)
              ELSE CHOOSE i \in stops : \A j \in stops : i =< j
      completed == ses.shutdownComplete \/ (last > 0 /\ Completes(queue[last]))
      failed == shut.failed # "none" \/ (last \in stops /\ ~completed)
      decoded == [DecodedAll(ses, {queue[i] : i \in 1..last}) EXCEPT
                    !.shutdownComplete = completed, !.pipesClosed = TRUE]
      outcome == IF ~readerDone THEN "reap"
                 ELSE IF \/ decoded.tempKnown /\ ~removed
                         \/ failed \/ ~completed
                         \/ shut.escalated \/ ~helper.clean
                      THEN "error" ELSE "ok"
  IN /\ shut.at = "joining" /\ (readerDone \/ Late)
     /\ removed \/ (decoded.tempKnown /\ tempDir /\ "cleanup" \in faults)
     /\ queue' = SubSeq(queue, last + 1, Len(queue))
     /\ tempDir' = (tempDir /\ ~(decoded.tempKnown /\ removed))
     /\ Leave(outcome, CleanTemp(decoded, removed))
     /\ OnlyClose /\ UNCHANGED <<helper, commands, pipe, signal, faults>>

-----------------------------------------------------------------------------
(* _finalize_owned_recovery_if_confirmed_locked on a dead process *)
Finalized(removed) ==
  /\ removed \/ (ses.tempKnown /\ tempDir /\ "cleanup" \in faults)
  /\ tempDir' = (tempDir /\ ~(ses.tempKnown /\ removed))

Closed(s) == [s EXCEPT !.stdinClosed = TRUE, !.pipesClosed = TRUE]

OnlyFinalize == OnlyClose /\ UNCHANGED <<helper, commands, pipe, queue, shut, signal, faults>>

(* close() of a session that is closed already *)
CloseAgain(c, removed) ==
  /\ closer[c] = "asked" /\ NoLock /\ ses.closed /\ ~ses.released
  /\ IF Dead
     THEN LET done == readerDone /\ removed
              s == CleanTemp(Closed(ses), removed)
          IN /\ Finalized(removed)
             /\ closer' = [closer EXCEPT ![c] = IF done THEN "ok" ELSE "error"]
             /\ ses' = IF done
                       THEN Marked([s EXCEPT !.teardown = "none"])
                       ELSE [s EXCEPT !.teardown = "error"]
     ELSE /\ removed /\ UNCHANGED <<ses, tempDir>>
          /\ closer' = [closer EXCEPT ![c] = ses.teardown]
  /\ OnlyFinalize

CloseReleased(c) ==
  /\ closer[c] = "asked" /\ NoLock /\ ses.released
  /\ closer' = [closer EXCEPT ![c] = "ok"]
  /\ OnlyFinalize /\ UNCHANGED <<ses, tempDir>>

(* The recovery timer of the preparation gate, after the worker left with
   UGCHelperReapError: once the process is found dead the gate is free
   again, whether the session could be finalized or not.                   *)
RecoverReaped(removed) ==
  /\ closer["worker"] = "reap" /\ NoLock /\ Dead
  /\ closer' = [closer EXCEPT !["worker"] = "lifted"]
  /\ IF ses.released
     THEN removed /\ UNCHANGED <<ses, tempDir>>
     ELSE /\ Finalized(removed)
          /\ LET s == CleanTemp(Closed(ses), removed)
             IN ses' = IF readerDone /\ removed
                       THEN Marked([s EXCEPT !.teardown = "none"])
                       ELSE [s EXCEPT !.teardown = "error"]
  /\ OnlyFinalize

-----------------------------------------------------------------------------
CallStep ==
  \/ CallBegin \/ WaitStops \/ WaitEvent \/ WaitFindsDead
  \/ (\E kind \in Kinds : SendCommand(kind))
  \/ SendCancel \/ GiveUpCancel \/ CallEvent \/ CallFindsDead

(* A command that has begun; the worker need not begin another. *)
CallContinues == call.at # "none" /\ CallStep

ShutStep ==
  \/ ShakeEvent \/ ShakeEnds \/ Reaped \/ Terminate \/ Kill \/ LoseHelper
  \/ \E removed \in BOOLEAN : CloseEnd(removed)

CloseStep(c) ==
  \/ CloseBegin(c) \/ CloseReleased(c)
  \/ (\E removed \in BOOLEAN : CloseAgain(c, removed))
  \/ shut.by = c /\ ShutStep

Recover == \E removed \in BOOLEAN : RecoverReaped(removed)

Next ==
  \/ Helper \/ SignalEnds \/ ReadLine \/ ReaderEnds \/ UserCancels
  \/ CallStep \/ Recover
  \/ \E c \in Closers : AskClose(c) \/ CloseStep(c)

Spec == Init /\ [][Next]_vars

(* The launcher's threads and timers run; the helper owes nothing, and
   nobody has to ask for anything.                                         *)
FairSpec ==
  /\ Spec
  /\ WF_vars(ReadLine \/ ReaderEnds)
  /\ WF_vars(CallContinues)
  /\ \A c \in Closers : WF_vars(CloseStep(c))

-----------------------------------------------------------------------------
InFlight == {pipe[i] : i \in DOMAIN pipe} \cup {queue[i] : i \in DOMAIN queue}

(* A session that counts as released, or whose close() returned without an
   error, owns nothing any more: no process (and none can come), no reader,
   no pipe, no directory the helper told of.                               *)
ReleasedMeansGone ==
  ses.released \/ (\E c \in Closers : closer[c] = "ok") =>
    /\ ~Alive
    /\ Dead => readerDone /\ ses.stdinClosed /\ ses.pipesClosed
    /\ ses.tempKnown => ~tempDir

(* "The helper has already been reaped here": when close() raises anything
   but UGCHelperReapError the worker goes on, and the next operation may
   start a helper of its own.                                              *)
ErrorMeansReaped == \A c \in Closers : closer[c] = "error" => ~Alive

(* A command that returned left the channel as it found it: the helper is
   at rest and no answer, not even to a cancellation that came too late,
   is on its way to be taken for an answer to the next command.            *)
QuietBetweenCommands ==
  call.at = "none" /\ ~ses.fatal /\ ~ses.closed =>
    /\ helper.at \notin {"busy", "cancelled"}
    /\ commands = <<>>
    /\ \A e \in InFlight : e.id = NoId

(* However closers and commands interleave, shutdown is said once and
   nothing but the end of stdin follows it.                                *)
ShutdownIsLast ==
  \A i \in DOMAIN commands :
    helper.stop # NoId \/ (\E j \in 1..i - 1 : commands[j].cmd = "shutdown")
      => commands[i].cmd = "eof"

(* When no timer runs out and the helper does its part, nothing that Stop,
   a second closer or the timing of reader and process exit can do makes a
   session fail, draws a signal, or makes close() report an error.          *)
HealthyCloseIsClean ==
  faults = {} =>
    /\ ~ses.fatal /\ signal = "none"
    /\ \A c \in Closers : closer[c] \notin {"error", "reap"}

(* As long as the timers run out, a command ends after Stop, or after a
   close() that waits for it, and close() returns or raises, whatever the
   helper does or fails to do.                                             *)
NothingHangs ==
  /\ (Late /\ call.at # "none" /\ Wanted) ~> (call.at = "none")
  /\ \A c \in Closers :
       (Late /\ closer[c] = "asked") ~> (closer[c] \in {"ok", "error", "reap"})

=============================================================================
