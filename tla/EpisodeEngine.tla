----------------------------- MODULE EpisodeEngine -----------------------------
(***************************************************************************)
(* PhysicalEpisodeEngine (companion_restart_phase2_detection.py): what the *)
(* restart learner makes of the answers of one monitored server.           *)
(*                                                                         *)
(* Player counts and times are abstracted to what the engine's control     *)
(* depends on: a healthy answer shows few players ("low") or more          *)
(* ("filling"), a first strike is still recent or not, the grace after a   *)
(* recovery has passed or not.  Whether the recent counts amount to a      *)
(* drain, and whether a recovery is spaced well enough, is a choice.  The  *)
(* engine is a value; Ingest gives the values an answer may lead to.       *)
(***************************************************************************)
EXTENDS Integers

CONSTANT MaxEvents   \* bound: physical events the engine may open

ASSUME EventsAssumption == MaxEvents \in Nat

Events == 1..MaxEvents

Healthy == {"low", "filling"}
Samples == Healthy \cup {"failure", "neutral"}
Outcomes == {"restart", "interruption", "visible", "unclear"}

(* failures: 0 in a query-visible episode, 1 after a first strike in it, 2
   once the outage is confirmed.                                          *)
Episodes == [id: Events, failures: 0..2, recent: BOOLEAN,
             returned: BOOLEAN, ripe: BOOLEAN]

Engines == [pending: {"none", "recent", "old"},
            drain: {"none", "forming", "qualified"},
            episode: {{}} \cup {{ep} : ep \in Episodes}]

Idle == [pending |-> "none", drain |-> "none", episode |-> {}]

Keeps(e) == [engine |-> e, done |-> {}]
Finalize(ep, outcome) == [engine |-> Idle, done |-> {[id |-> ep.id, outcome |-> outcome]}]

With(e, ep) == [e EXCEPT !.episode = {ep}]

(* pending_strike_is_recent of the idle engine's pending failure *)
Pending(e) == e.pending = "recent"

OpenEpisode(id, failures) ==
  [Idle EXCEPT !.episode = {[id |-> id, failures |-> failures, recent |-> FALSE,
                             returned |-> FALSE, ripe |-> FALSE]}]

-----------------------------------------------------------------------------
(* _observe_player_history: low counts may show a drain and, in time, one
   that stands without an outage.  A drain expires, is over when the players
   are back, and one that has lost its coverage could only corroborate an
   outage: it is forgotten here.                                          *)
DrainFromHistory == {"none", "forming"}
StandaloneQualified == {"none", "forming", "qualified"}

DrainAfter(drain, sample) ==
  CASE drain = "none" -> IF sample = "low" THEN DrainFromHistory ELSE {"none"}
    [] drain = "forming" -> IF sample = "low" THEN StandaloneQualified ELSE DrainFromHistory
    [] drain = "qualified" -> IF sample = "low" THEN {"none", "qualified"} ELSE {"none"}

(* A qualified drain has lasted too long, or one that was interrupted by
   players collapses again: an event that is unclear at once.             *)
DrainIsUnclear(drain, sample) == drain = "qualified" \/ (drain = "forming" /\ sample = "low")

UnclearDrain(id) ==
  [engine |-> Idle, done |-> {[id |-> id, outcome |-> "unclear"]}]

ObservesPlayers(e, sample, id) ==
  {Keeps([e EXCEPT !.pending = "none", !.drain = d]) : d \in DrainAfter(e.drain, sample)}
  \cup (IF id \in Events /\ DrainIsUnclear(e.drain, sample) THEN {UnclearDrain(id)} ELSE {})
  \cup (IF id \in Events /\ sample = "filling" /\ e.drain = "qualified"
        THEN {Keeps(OpenEpisode(id, 0))} ELSE {})

(* _consume_idle: the second recent failure opens an episode, and as the
   engine records both it is a confirmed outage at once.                  *)
ConsumeIdle(e, sample, id) ==
  CASE sample = "failure" /\ Pending(e) ->
         IF id \in Events THEN {Keeps(OpenEpisode(id, 2))} ELSE {}
    [] sample = "failure" /\ ~Pending(e) ->
         {Keeps([e EXCEPT !.pending = "recent", !.drain = d]) : d \in {e.drain, "none"}}
    [] sample = "neutral" -> {Keeps([e EXCEPT !.drain = "none"])}
    [] sample \in Healthy -> ObservesPlayers(e, sample, id)

-----------------------------------------------------------------------------
(* _record_failure in an episode *)
RecordFailure(ep) ==
  CASE ep.failures = 0 -> [ep EXCEPT !.failures = 1, !.recent = TRUE]
    [] ep.failures = 1 -> [ep EXCEPT !.failures = IF ep.recent THEN 2 ELSE 1, !.recent = ~ep.recent]
    [] ep.failures = 2 -> ep

(* _finalize_classified: an outage that leaves the population unchanged is
   an interruption, unless something corroborates the restart.            *)
Classified(ep) ==
  CASE ep.failures = 2 -> {"restart", "interruption"}
    [] ep.failures = 1 -> {"unclear"}
    [] ep.failures = 0 -> {"visible", "unclear"}

(* _record_low_or_recovery of a query-visible episode: players that come
   back steadily finish it.                                               *)
VisibleRecovery(e, ep, sample) ==
  {Keeps(e)} \cup
  (IF sample = "filling" THEN {Finalize(ep, o) : o \in Classified(ep)} ELSE {})

(* _consume_active: the first healthy answer after a failure is the return.
   A recovery that bounces is no longer stable and has to become so again: it
   is one whose grace passes later.                                       *)
ConsumeActive(e, ep, sample) ==
  CASE sample = "neutral" -> {Keeps(e)}
    [] sample = "failure" -> {Keeps(With(e, RecordFailure(ep)))}
    [] sample \in Healthy /\ ep.failures = 0 -> VisibleRecovery(e, ep, sample)
    [] sample \in Healthy /\ ep.failures > 0 ->
         {Keeps(With(e, [ep EXCEPT !.returned = TRUE]))}

(* _visible_episode_continuity_broken: an answer without players, or one
   that comes too late.                                                   *)
ContinuityBroken(ep, sample) == ep.failures = 0 /\ sample # "failure"

(* tick finalizes the episode whose grace has passed before the answer is
   consumed by the engine that is idle again, and may find one without a
   confirmed outage to have lasted too long.                              *)
TickFinalizes(ep) == ep.returned /\ ep.ripe
TickExpires(ep) == ep.failures < 2

ThenIdle(ep, outcomes, sample, id) ==
  {[engine |-> r.engine, done |-> Finalize(ep, o).done \cup r.done] :
     o \in outcomes, r \in ConsumeIdle(Idle, sample, id)}

Ingest(e, sample, id) ==
  IF e.episode = {} THEN ConsumeIdle(e, sample, id)
  ELSE LET ep == CHOOSE ep \in e.episode : TRUE
       IN IF TickFinalizes(ep) THEN ThenIdle(ep, Classified(ep), sample, id)
          ELSE (IF sample = "neutral" /\ ep.failures = 0 THEN {}
                ELSE ConsumeActive(e, ep, sample))
               \cup (IF ContinuityBroken(ep, sample) \/ TickExpires(ep)
                     THEN ThenIdle(ep, {"unclear"}, sample, id) ELSE {})

(* _handle_lifecycle: a session that ends finalizes the episode, and what
   comes of it is not shown to anyone.                                    *)
HandleLifecycle(e) == Idle

(* Time: a first strike grows old, the grace of a recovery passes. *)
StrikesGrowOld(e) ==
  [e EXCEPT !.pending = IF @ = "recent" THEN "old" ELSE @,
            !.episode = {[ep EXCEPT !.recent = FALSE] : ep \in @}]

GracePasses(e) ==
  [e EXCEPT !.episode = {[ep EXCEPT !.ripe = ep.returned] : ep \in @}]

=============================================================================
