---------------------------- MODULE ServerCompanion ----------------------------
(***************************************************************************)
(* The Server Companion (window.py): it polls the server the user has      *)
(* joined, shows it offline after two recent failures, has a recovery      *)
(* confirmed by a second query and alerts the user; every answer also goes *)
(* to the restart learner, whose events give alerts of their own.          *)
(*                                                                         *)
(* All handlers run on the GTK thread, one step each.  Queries run in the  *)
(* pool and their results come back as idle callbacks, at any time and in  *)
(* any order: a query stays in "queries" until its result is handled, and  *)
(* knows the server it asked and the generation or the recovery candidate  *)
(* it was submitted for.  Times are abstracted to what is compared: a      *)
(* first strike that is recent, 120 seconds of being online.               *)
(***************************************************************************)
EXTENDS EpisodeEngine, FiniteSets, TLC

CONSTANTS
  Servers,      \* servers that may be monitored
  NoServer,
  MaxToken,     \* bound: generations of the polling
  MaxOutage     \* bound: outages of one stay on a server

ASSUME ServersAssumption == NoServer \notin Servers
ASSUME BoundsAssumption == MaxToken \in Nat /\ MaxOutage \in Nat

VARIABLES
  server,     \* the monitored server, of _server_companion_obj and _snapshot
  shown,      \* the companion is enabled and visible
  paused,     \* _server_companion_poll_paused
  token,      \* _server_companion_poll_token: the generation of the polling
  timer,      \* the poll timer is armed
  inflight,   \* _server_companion_poll_inflight
  candidate,  \* the recovery candidate, as a set of at most one
  confirm,    \* its confirmation: none, timer armed or query submitted
  queries,    \* queries whose result has not been handled
  view,       \* the snapshot: online, strikes, whether the first is recent,
              \*   offline_since, outage sequence
  alarm,      \* alerts: enabled, suppressed, online_since, held alert
  learning,   \* the learner's store could be opened at startup
  sessions,   \* its open monitoring sessions
  engine,     \* its episode engine for the monitored server
  opened,     \* events the engine has opened
  fired,      \* its suppression keys: event and selected period
  score,      \* the period selected by its current score
  alerts,     \* history: the alerts given
  answered,   \* history: what the monitored server itself has answered
  stranded    \* history: the server was changed while a poll was out

polling == <<token, timer, inflight, candidate, confirm, queries>>
learner == <<learning, sessions, engine, opened, fired, score>>
history == <<alerts, answered, stranded>>
vars == <<server, shown, paused, polling, view, alarm, learner, history>>

Scores == 0..1
Candidates == [server: Servers, token: 0..MaxToken, outage: 0..MaxOutage]
Held == [server: Servers, token: 0..MaxToken, outage: 0..MaxOutage, event: Events]
Polls == [kind: {"poll"}, server: Servers, token: 0..MaxToken]
Confirmations == [kind: {"confirm"}, server: Servers, candidate: Candidates]
Sessions == [server: Servers, token: 0..MaxToken]
Alerts == [visible: BOOLEAN, event: 0..MaxEvents, outage: 0..MaxOutage,
           heard: BOOLEAN, repeats: BOOLEAN]

TypeOK ==
  /\ server \in Servers \cup {NoServer}
  /\ shown \in BOOLEAN /\ paused \in BOOLEAN
  /\ token \in 0..MaxToken /\ timer \in BOOLEAN /\ inflight \in BOOLEAN
  /\ candidate \subseteq Candidates /\ Cardinality(candidate) <= 1
  /\ confirm \in {"none", "timer", "query"}
  /\ queries \subseteq (Polls \cup Confirmations)
  /\ view \in [online: BOOLEAN, strikes: 0..2, recent: BOOLEAN,
               offline: BOOLEAN, outage: 0..MaxOutage]
  /\ alarm.enabled \in BOOLEAN /\ alarm.suppressed \in BOOLEAN
  /\ alarm.since \in {"none", "recent", "stable"}
  /\ alarm.held \subseteq Held /\ Cardinality(alarm.held) <= 1
  /\ learning \in BOOLEAN /\ sessions \subseteq Sessions
  /\ engine \in Engines /\ opened \in 0..MaxEvents
  /\ fired \subseteq (Events \X Scores) /\ score \in Scores
  /\ alerts \subseteq Alerts
  /\ answered \in {"up", "down_once", "down", "back", "recovered"}
  /\ stranded \in BOOLEAN

NewView(online) == [online |-> online, strikes |-> 0, recent |-> FALSE,
                    offline |-> FALSE, outage |-> 0]
NewAlarm(enabled) == [enabled |-> enabled, suppressed |-> FALSE,
                      since |-> "none", held |-> {}]

Init ==
  /\ server = NoServer /\ shown \in BOOLEAN /\ paused = FALSE
  /\ token = 0 /\ timer = FALSE /\ inflight = FALSE
  /\ candidate = {} /\ confirm = "none" /\ queries = {}
  /\ view = NewView(TRUE) /\ alarm \in {NewAlarm(b) : b \in BOOLEAN}
  /\ learning \in BOOLEAN /\ sessions = {} /\ engine = Idle /\ opened = 0
  /\ fired = {} /\ score = 0
  /\ alerts = {} /\ answered = "up" /\ stranded = FALSE

-----------------------------------------------------------------------------
(* The learner's sessions. *)
Session(s, t) == [server |-> s, token |-> t]

(* _record_server_companion_monitor_ended of s: only the session of the
   present generation is ended, and the engine sees the lifecycle marker. *)
EndSession(s) == sessions \ {Session(s, token)}

(* Mutation: an earlier session of the server stays open. *)
KeepSession(open, s, t) == IF learning THEN open \cup {Session(s, t)} ELSE open

(* ensure_monitoring_session: another session of the server is ended. *)
EnsureSession(open, s, t) ==
  IF learning THEN {x \in open : x.server # s} \cup {Session(s, t)} ELSE open

EngineAfter(open) == IF open = sessions THEN engine ELSE HandleLifecycle(engine)

-----------------------------------------------------------------------------
ShouldPoll(s) == shown /\ s # NoServer /\ ~paused

Poll(s, t) == [kind |-> "poll", server |-> s, token |-> t]

(* _submit_server_companion_poll: not while a query is out or a candidate
   waits; the pool may refuse the query.                                  *)
Submit(s, t, busy, waiting) ==
  \/ inflight' = busy /\ UNCHANGED queries
  \/ /\ ~busy /\ ~waiting
     /\ inflight' = TRUE /\ queries' = queries \cup {Poll(s, t)}

(* _start_server_companion_polling *)
StartPolling(s, t, busy, waiting) == timer' = TRUE /\ Submit(s, t, busy, waiting)

(* _cancel_server_companion_recovery_confirmation: a confirmation that is
   out has raised the flag, and lowers it.                                *)
CancelConfirmation ==
  /\ candidate' = {} /\ confirm' = "none"

BusyAfterCancel == inflight /\ confirm # "query"

(* Mutation: stopping leaves the flag of the poll in flight raised. *)
StopKeepsFlag(t) ==
  /\ CancelConfirmation
  /\ token' = t /\ timer' = FALSE /\ UNCHANGED <<inflight, queries>>

(* _stop_server_companion_polling, with the candidate and the held alert. *)
StopPolling(t) ==
  /\ CancelConfirmation
  /\ token' = t /\ timer' = FALSE /\ inflight' = FALSE /\ UNCHANGED queries

StoppedView == [view EXCEPT !.strikes = 0, !.recent = FALSE]
StoppedAlarm == [alarm EXCEPT !.held = {},
                              !.since = IF alarm.suppressed THEN "none" ELSE @]

(* What the user hears of the server starts anew with it. *)
NewStay == answered' = "up"

-----------------------------------------------------------------------------
(* set_server_companion_server: a Join, or the restored server at start. *)
KeptAlarm(s) == IF s = server THEN [alarm EXCEPT !.held = {}] ELSE NewAlarm(alarm.enabled)

SelectServer(s) ==
  /\ token < MaxToken /\ token' = token + 1
  /\ server' = s /\ paused' = FALSE /\ UNCHANGED shown
  /\ CancelConfirmation
  /\ \E online \in BOOLEAN :
       view' = [NewView(online) EXCEPT !.outage = IF s = server THEN view.outage ELSE 0]
  /\ alarm' = KeptAlarm(s)
  /\ LET left == IF s # server /\ server # NoServer THEN EndSession(server) ELSE sessions
     IN sessions' = EnsureSession(left, s, token + 1)
  /\ engine' = EngineAfter(sessions')
  /\ IF shown THEN StartPolling(s, token + 1, BusyAfterCancel, FALSE)
     ELSE inflight' = BusyAfterCancel /\ UNCHANGED <<timer, queries>>
  /\ stranded' = (stranded \/ BusyAfterCancel)
  /\ NewStay
  /\ UNCHANGED <<learning, opened, fired, score, alerts>>

(* clear_server_companion bumps the generation, and again as it stops: one
   new generation here, for no query is submitted in between.             *)
ClearServer ==
  /\ server # NoServer /\ token < MaxToken
  /\ server' = NoServer /\ StopPolling(token + 1)
  /\ view' = NewView(TRUE) /\ alarm' = NewAlarm(alarm.enabled)
  /\ sessions' = EndSession(server) /\ engine' = EngineAfter(sessions')
  /\ stranded' = FALSE /\ NewStay
  /\ UNCHANGED <<shown, paused, learning, opened, fired, score, alerts>>

Stops ==
  /\ token < MaxToken /\ StopPolling(token + 1)
  /\ view' = StoppedView /\ alarm' = StoppedAlarm
  /\ sessions' = EndSession(server) /\ engine' = EngineAfter(sessions')
  /\ stranded' = FALSE /\ NewStay
  /\ UNCHANGED <<server, learning, opened, fired, score, alerts>>

Starts ==
  /\ sessions' = EnsureSession(sessions, server, token)
  /\ engine' = EngineAfter(sessions')
  /\ StartPolling(server, token, inflight, candidate # {})
  /\ UNCHANGED <<server, token, candidate, confirm, view, alarm, learning,
                 opened, fired, score, history>>

(* toggle_server_companion_polling *)
Pause ==
  /\ shown /\ server # NoServer /\ ~paused /\ paused' = TRUE
  /\ Stops /\ UNCHANGED shown

Resume ==
  /\ shown /\ server # NoServer /\ paused /\ paused' = FALSE
  /\ Starts /\ UNCHANGED shown

(* set_server_companion_visible *)
Hide ==
  /\ shown /\ shown' = FALSE
  /\ Stops /\ UNCHANGED paused

Show ==
  /\ ~shown /\ shown' = TRUE
  /\ IF server # NoServer /\ ~paused THEN Starts
     ELSE UNCHANGED <<server, polling, view, alarm, learner, history>>
  /\ UNCHANGED paused

(* set_server_companion_restart_alert_enabled *)
ToggleAlerts ==
  /\ alarm' = [alarm EXCEPT !.enabled = ~@]
  /\ UNCHANGED <<server, shown, paused, polling, view, learner, history>>

(* _server_companion_poll_tick; a tick that finds nothing to poll takes the
   timer away.                                                            *)
PollTick ==
  /\ timer
  /\ IF ShouldPoll(server)
     THEN Submit(server, token, inflight, candidate # {}) /\ UNCHANGED timer
     ELSE timer' = FALSE /\ UNCHANGED <<inflight, queries>>
  /\ UNCHANGED <<server, shown, paused, token, candidate, confirm, view, alarm, learner, history>>

-----------------------------------------------------------------------------
(* Recovery confirmation. *)
WasConfirmedOffline == ~view.online /\ view.strikes = 2

(* _server_companion_recovery_confirmation_is_current; the session of the
   candidate is the one of its server and generation.                     *)
CandidateIsCurrent(c) ==
  /\ c \in candidate
  /\ c.server = server /\ c.token = token /\ c.outage = view.outage
  /\ WasConfirmedOffline /\ ShouldPoll(server)

Confirmation(c) == [kind |-> "confirm", server |-> server, candidate |-> c]

(* _begin_server_companion_recovery_confirmation: the timer of 2 seconds;
   the pool may refuse the query.                                         *)
BeginConfirmation(c) ==
  /\ confirm = "timer" /\ c \in candidate
  /\ \/ /\ CandidateIsCurrent(c) /\ ~inflight
        /\ confirm' = "query" /\ inflight' = TRUE
        /\ queries' = queries \cup {Confirmation(c)} /\ UNCHANGED candidate
     \/ CancelConfirmation /\ UNCHANGED <<inflight, queries>>
  /\ UNCHANGED <<server, shown, paused, token, timer, view, alarm, learner, history>>

(* What the server itself has answered, in the order of the results that
   were not discarded.                                                    *)
Answer(kind) ==
  CASE kind = "failure" /\ answered = "up" -> "down_once"
    [] kind = "failure" /\ answered = "recovered" -> IF view.online THEN "down_once" ELSE "down"
    [] kind = "failure" /\ answered \in {"down_once", "down", "back"} -> "down"
    [] kind = "healthy" /\ answered \in {"down_once", "up"} -> "up"
    [] kind = "healthy" /\ answered = "down" -> "back"
    [] kind = "healthy" /\ answered \in {"back", "recovered"} -> "recovered"
    [] kind = "neutral" -> IF answered = "back" THEN "down" ELSE answered

Hears(q, kind) == answered' = IF q.server = server THEN Answer(kind) ELSE answered

-----------------------------------------------------------------------------
(* Alerts.  A state of them is a record with the alarm, the keys fired and
   the alerts given.  "heard" is a question for the alerts of a recovery that
   was confirmed or held; what the learner announces by itself, a finalized
   or a query-visible event, rests on its own observations and is always
   given as heard.                                                        *)
Told(visible, event, heard, earlier) ==
  [visible |-> visible, event |-> event, outage |-> view'.outage, heard |-> heard,
   repeats |-> \E a \in earlier :
                 /\ event # 0 /\ a.event = event /\ a.outage = view'.outage
                 /\ a.visible = visible]

Gives(st, visible, event, heard) ==
  [st EXCEPT !.alerts = @ \cup {Told(visible, event, heard, st.alerts)}]

(* event_suppression_key: the selected period is part of the key. *)
Key(event, period) == <<event, period>>

Silenced(st) == [st EXCEPT !.alarm.suppressed = TRUE, !.alarm.since = "recent"]

(* _emit_server_companion_confirmed_recovery_alert: nothing while the alert
   is suppressed; an event that was alerted stays so.                     *)
EmitRecovery(st, event, period, heard) ==
  IF ~st.alarm.enabled \/ st.alarm.suppressed THEN st
  ELSE IF event # 0 /\ Key(event, period) \in st.fired THEN Silenced(st)
  ELSE Gives([Silenced(st) EXCEPT !.fired = IF event = 0 THEN @ ELSE @ \cup {Key(event, period)}],
             FALSE, event, heard)

(* A held alert is released while the server has not been down again. *)
StillUp == answered' \in {"recovered", "up", "down_once"}

(* A key of the event is marked, and if it was not before an alert given. *)
EmitVisible(st, event, period) ==
  IF ~st.alarm.enabled \/ Key(event, period) \in st.fired THEN st
  ELSE Gives([st EXCEPT !.fired = @ \cup {Key(event, period)}], TRUE, event, TRUE)

(* Mutation: only the key of the period selected now is looked for. *)
KeyFired(st, event) == Key(event, score') \in st.fired

(* _generic_recovery_decision looks for keys of the event with any period. *)
EventFired(st, event) == \E k \in st.fired : k[1] = event

HoldRecord(event) == [server |-> server, token |-> token, outage |-> view.outage, event |-> event]

(* _server_companion_pending_recovery_alert_is_current *)
HeldIsCurrent(h, now) ==
  h.server = server /\ h.token = token /\ h.outage = now.outage /\ now.online

(* _resolve_server_companion_pending_recovery_alert: a restart releases the
   held alert of its event, an interruption drops it.                     *)
Resolves(st, done) == \E h \in st.alarm.held : h.event = done.id

Resolve(st, done, period, now) ==
  LET h == CHOOSE h \in st.alarm.held : TRUE
      dropped == [st EXCEPT !.alarm.held = {}]
  IN IF ~HeldIsCurrent(h, now) \/ done.outcome # "restart" THEN dropped
     ELSE EmitRecovery(dropped, done.id, period, StillUp)

(* _handle_phase2_finalized_events: the states one finalized event may lead
   to; the duration and the learner's policy may withhold a restart alert. *)
AfterFinalized(st, done, period, now) ==
  IF Resolves(st, done) /\ done.outcome # "unclear" THEN {Resolve(st, done, period, now)}
  ELSE CASE done.outcome = "visible" -> {EmitVisible(st, done.id, period)}
         [] done.outcome = "restart" /\ st.alarm.enabled /\ ~EventFired(st, done.id) ->
              {st, Gives([st EXCEPT !.fired = @ \cup {Key(done.id, period)}],
                         FALSE, done.id, TRUE)}
         [] OTHER -> {st}

(* _update_server_companion_recovery_alert_rearm, by a healthy answer or by
   a failure.                                                             *)
Rearmed(a, online, healthy) ==
  CASE ~a.suppressed -> a
    [] a.suppressed /\ online /\ a.since = "stable" ->
         [a EXCEPT !.suppressed = FALSE, !.since = "none"]
    [] OTHER -> [a EXCEPT !.since = IF ~healthy THEN "none"
                                    ELSE IF @ = "none" THEN "recent" ELSE @]

-----------------------------------------------------------------------------
(* _apply_server_companion_live_result. *)
AfterFailure(v) ==
  LET strikes == IF v.strikes = 2 \/ (v.strikes = 1 /\ v.recent) THEN 2 ELSE 1
  IN IF strikes = 2
     THEN [v EXCEPT !.strikes = 2, !.recent = FALSE, !.online = FALSE, !.offline = TRUE,
                    !.outage = IF v.offline THEN @ ELSE @ + 1]
     ELSE [v EXCEPT !.strikes = 1, !.recent = TRUE]

AfterNeutral(v) ==
  IF v.strikes = 1 /\ ~v.recent THEN [v EXCEPT !.strikes = 0] ELSE v

AfterHealthy(v) ==
  [v EXCEPT !.online = TRUE, !.strikes = 0, !.recent = FALSE, !.offline = FALSE]

ViewAfter(v, sample) ==
  CASE sample = "failure" -> AfterFailure(v)
    [] sample = "neutral" -> AfterNeutral(v)
    [] OTHER -> AfterHealthy(v)

(* ingest_live_result: without a session of this generation the learner
   rejects the answer.                                                    *)
Listens == learning /\ Session(server, token) \in sessions

Learns(sample) ==
  IF Listens THEN Ingest(engine, sample, opened + 1) ELSE {[engine |-> engine, done |-> {}]}

UsesId(r, id) == \E x \in r.engine.episode \cup r.done : x.id = id

ActiveEvent(e) == IF e.episode = {} THEN 0 ELSE (CHOOSE ep \in e.episode : TRUE).id

(* The first answer with players in a query-visible episode names it. *)
Repopulated(r) ==
  engine.episode = {} /\ \E ep \in r.engine.episode : ep.failures = 0

(* The alert of a recovery that was confirmed: at once, or held when the
   event lies outside the expected window.                                *)
AfterRecovery(st, event, now) ==
  {EmitRecovery(st, event, score, answered' = "recovered")} \cup
  (IF st.alarm.enabled /\ ~st.alarm.suppressed /\ event # 0
   THEN {[st EXCEPT !.alarm.held = {HoldRecord(event)}]} ELSE {})

(* The stages of an answer, in the order the code has them: what a failure
   does to the alerts, then a confirmed recovery, a healthy answer, an event
   that is named and one that is finalized.                               *)
OnFailure(st, sample) ==
  [st EXCEPT !.alarm = IF sample = "failure" THEN Rearmed(@, view.online, FALSE) ELSE @]

OnRecovery(st, sample, confirmed, event, now) ==
  IF confirmed /\ sample \in Healthy THEN AfterRecovery(st, event, now) ELSE {st}

OnHealthy(st, sample) ==
  [st EXCEPT !.alarm = IF sample \in Healthy THEN Rearmed(@, TRUE, TRUE) ELSE @]

OnRepopulation(st, r, event, period) ==
  IF Repopulated(r) THEN EmitVisible(st, event, period) ELSE st

OnFinalized(st, done, period, now) ==
  IF done = {} THEN {st} ELSE UNION {AfterFinalized(st, d, period, now) : d \in done}

AlertStates(st, sample, r, confirmed, now, period) ==
  LET event == ActiveEvent(r.engine)
  IN UNION {OnFinalized(OnRepopulation(OnHealthy(x, sample), r, event, period),
                        r.done, period, now) :
              x \in OnRecovery(OnFailure(st, sample), sample, confirmed, event, now)}

Apply(sample, confirmed) ==
  \E r \in Learns(sample), period \in Scores :
    /\ r.done = {} => period = score
    /\ view' = ViewAfter(view, sample)
    /\ view'.outage <= MaxOutage
    /\ engine' = r.engine /\ score' = period
    /\ opened' = opened + (IF UsesId(r, opened + 1) THEN 1 ELSE 0)
    /\ \E st \in AlertStates([alarm |-> alarm, fired |-> fired, alerts |-> alerts],
                             sample, r, confirmed, view', period) :
         alarm' = st.alarm /\ fired' = st.fired /\ alerts' = st.alerts

Kind(sample) == IF sample \in Healthy THEN "healthy" ELSE sample

NoNews == UNCHANGED <<view, alarm, engine, opened, fired, score, alerts, answered>>

CurrentPoll(q) == q.token = token

(* A poll's result: that of an earlier generation is dropped before it
   touches anything; the first healthy answer of an offline server only
   schedules its confirmation.                                            *)
PollResult(q) ==
  /\ q \in queries /\ q.kind = "poll" /\ queries' = queries \ {q}
  /\ \/ ~CurrentPoll(q) /\ NoNews /\ UNCHANGED <<inflight, candidate, confirm>>
     \/ /\ CurrentPoll(q) /\ inflight' = FALSE
        /\ IF ~ShouldPoll(server) THEN NoNews /\ UNCHANGED <<candidate, confirm>>
           ELSE \E sample \in Samples :
                  /\ Hears(q, Kind(sample))
                  /\ IF sample \in Healthy /\ WasConfirmedOffline
                     THEN /\ candidate' = {[server |-> server, token |-> token, outage |-> view.outage]}
                          /\ confirm' = "timer"
                          /\ UNCHANGED <<view, alarm, engine, opened, fired, score, alerts>>
                     ELSE Apply(sample, FALSE) /\ UNCHANGED <<candidate, confirm>>
  /\ UNCHANGED <<server, shown, paused, token, timer, learning, sessions, stranded>>

(* _apply_server_companion_recovery_confirmation_result *)
ConfirmationResult(q) ==
  /\ q \in queries /\ q.kind = "confirm" /\ queries' = queries \ {q}
  /\ IF CandidateIsCurrent(q.candidate)
     THEN /\ inflight' = FALSE /\ CancelConfirmation
          /\ \E sample \in Samples : Hears(q, Kind(sample)) /\ Apply(sample, TRUE)
     ELSE /\ NoNews
          /\ IF q.candidate \in candidate
             THEN CancelConfirmation /\ inflight' = BusyAfterCancel
             ELSE UNCHANGED <<inflight, candidate, confirm>>
  /\ UNCHANGED <<server, shown, paused, token, timer, learning, sessions, stranded>>

(* _release_server_companion_pending_recovery_alert: 45 seconds are over. *)
ReleaseHeld ==
  /\ alarm.held # {} /\ UNCHANGED <<view, answered>>
  /\ LET h == CHOOSE h \in alarm.held : TRUE
         st == [alarm |-> [alarm EXCEPT !.held = {}], fired |-> fired, alerts |-> alerts]
         end == IF HeldIsCurrent(h, view) THEN EmitRecovery(st, h.event, score, StillUp) ELSE st
     IN alarm' = end.alarm /\ fired' = end.fired /\ alerts' = end.alerts
  /\ UNCHANGED <<server, shown, paused, polling, learning, sessions, engine,
                 opened, score, stranded>>

-----------------------------------------------------------------------------
(* Time passes. *)
StrikeGrowsOld ==
  /\ view.recent /\ view' = [view EXCEPT !.recent = FALSE]
  /\ answered' = IF answered = "down_once" THEN "up" ELSE answered
  /\ UNCHANGED <<server, shown, paused, polling, alarm, learner, alerts, stranded>>

EngineAges ==
  /\ engine' \in {StrikesGrowOld(engine), GracePasses(engine)} \ {engine}
  /\ UNCHANGED <<server, shown, paused, polling, view, alarm, learning, sessions,
                 opened, fired, score, history>>

(* 120 seconds online.  Whether the last outage is finalized by then depends
   on the polls and on whether its recovery has bounced.                  *)
OnlineLongEnough ==
  /\ alarm.since = "recent" /\ view.online
  /\ alarm' = [alarm EXCEPT !.since = "stable"]
  /\ UNCHANGED <<server, shown, paused, polling, view, learner, history>>

-----------------------------------------------------------------------------
UserStep ==
  \/ \E s \in Servers : SelectServer(s)
  \/ ClearServer \/ Pause \/ Resume \/ Hide \/ Show \/ ToggleAlerts

ConfirmationTimer == \E c \in candidate : BeginConfirmation(c)
ResultStep == \E q \in queries : PollResult(q) \/ ConfirmationResult(q)
TimeStep == StrikeGrowsOld \/ EngineAges \/ OnlineLongEnough

Next ==
  \/ UserStep \/ PollTick \/ ConfirmationTimer \/ ResultStep
  \/ ReleaseHeld \/ TimeStep

Spec == Init /\ [][Next]_vars

Symmetry == Permutations(Servers)

-----------------------------------------------------------------------------
(* The way out of each of the flags that keep the companion from polling. *)
WayOut ==
  /\ inflight => \E q \in queries :
       \/ q.kind = "poll" /\ q.token = token
       \/ q.kind = "confirm" /\ q.candidate \in candidate
  /\ candidate # {} =>
       \/ confirm = "timer"
       \/ \E q \in queries : q.kind = "confirm" /\ q.candidate \in candidate

(* A flag that keeps the companion from polling is always taken back by
   something under way: the poll in flight by a result of the present
   generation, the candidate by its timer or its confirmation's result.
   And of all the queries out only one can still have an effect, for which
   the flag is up: the next poll never overlaps it.  A server changed while
   a poll was out ("stranded") is the exception: the flag stays up then
   (_submit_server_companion_poll, set_server_companion_server).          *)
PollFlagIsRight ==
  LET counts == {q \in queries : \/ q.kind = "poll" /\ q.token = token
                                 \/ q.kind = "confirm" /\ q.candidate \in candidate}
  IN /\ ~stranded => WayOut
     /\ counts # {} => inflight /\ Cardinality(counts) = 1

(* The learner hears what the companion polls: while it polls, the session
   of its server and generation is open, and no other server's is.        *)
LearnerListens ==
  learning /\ timer => sessions = {Session(server, token)}

(* One physical outage is announced once: by the confirmed recovery, by the
   held alert or by the finalized event, whichever comes first.  The
   query-visible alerts are the exception: the key they are told apart by
   holds the period selected by the learner, which may change.  And a
   recovery is only announced as confirmed, at once or after it was held,
   when the monitored server itself answered two recent failures, a healthy
   candidate and a healthy confirmation, whatever queries of other servers
   and generations came back meanwhile, and has not failed twice again since
   (of finalized and query-visible events, which the learner observes by
   itself, the second part says nothing).                                 *)
AlertsAreHeardOnce ==
  \A a \in alerts : a.heard /\ (~a.visible => ~a.repeats)

=============================================================================
