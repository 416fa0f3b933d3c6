---------------------------- MODULE RestartAuthority ----------------------------
(***************************************************************************)
(* What the launcher believes of a server's restart schedule, and what it  *)
(* shows of it.  Restarts seen while the server was watched without a gap  *)
(* are related in intervals and streaks (companion_restart_phase2_         *)
(* continuity.py); every class of period and phase earns a gate from them; *)
(* one class is the incumbent, and others challenge it                     *)
(* (companion_restart_phase2_authority.py); a countdown is shown when the  *)
(* decision is safe (companion_restart_phase2_authority_consumers.py).     *)
(*                                                                         *)
(* The clock is discrete: a tick is the shortest period, every restart     *)
(* falls exactly on a tick and every one is confirmed with full quality,   *)
(* so that what an authority amounts to follows from the number of         *)
(* intervals and the streaks they form.  The normal scorer                 *)
(* (companion_restart_phase2_scoring.py) is an input.                      *)
(***************************************************************************)
EXTENDS Integers, FiniteSets

CONSTANTS
  Periods,   \* the candidate periods, in ticks
  Long,      \* those for which every divisor must be resolved first
  Enough,    \* relationships the normal scorer wants before it selects a period
  MaxTime,   \* bound: ticks of a behaviour
  MaxWeak,   \* bound: restarts seen too vaguely to count for authority
  MaxGaps    \* bound: ticks nobody watches

VARIABLES
  now,       \* ticks so far
  events,    \* the ticks at which a restart was seen
  weak,      \* those of them that were only probable (seen in the player counts)
  gaps,      \* the ticks nobody watched: another session began after each
  awaited,   \* the classes whose windows the last reading has watched
  misses,    \* awaited restarts that provably did not come: [class, at]
  decision,  \* the last AuthorityDecision
  shown,     \* what was shown of it: [wording, countdown]
  fresh      \* whether it was made with all there is

ASSUME AuthorityAssumption ==
  /\ Periods \subseteq Nat \ {0} /\ Long \subseteq Periods
  /\ {Enough, MaxTime, MaxWeak, MaxGaps} \subseteq Nat

authorityVars == <<now, events, weak, gaps, awaited, misses, decision, shown, fresh>>

Classes == UNION {{[period |-> p, phase |-> f] : f \in 0..(p - 1)} : p \in Periods}

Largest(S) == CHOOSE x \in S : \A y \in S : y <= x
Smallest(S) == CHOOSE x \in S : \A y \in S : x <= y

NoRegime == [class |-> [period |-> 0, phase |-> 0], id |-> {}, gate |-> "none",
             origin |-> "none", status |-> "none", at |-> 0]

NoDecision == [state |-> "unknown", selected |-> NoRegime, incumbent |-> NoRegime,
               level |-> 0, usable |-> FALSE, safe |-> FALSE]

----------------------------------------------------------------------------
(* Intervals, relationships and streaks *)

On(t, c) == t % c.period = c.phase

Inside(t, u) == (t + 1)..(u - 1)

(* Every pair of restarts, at most one other between them, that lies a
   multiple of the period apart. *)
Related(c) ==
  {x \in events \X events :
     /\ x[1] < x[2] /\ x[2] - x[1] <= 8 * c.period
     /\ On(x[1], c) /\ On(x[2], c)
     /\ Cardinality(events \cap Inside(x[1], x[2])) <= 1}

(* One period long, nothing between, watched throughout, by the left end:
   a weak end counts too. *)
Direct(c) ==
  {t \in events : /\ On(t, c)
                  /\ t + c.period \in events
                  /\ (events \cup gaps) \cap Inside(t, t + c.period) = {}}

(* Those that count for authority: both restarts fully confirmed. *)
Component(c) == {t \in Direct(c) : {t, t + c.period} \cap weak = {}}

(* The maximal runs of at least two intervals. *)
Streaks(c) ==
  LET own == Component(c)
      extent(t) == Largest({n \in 1..Cardinality(own) :
                              {t + i * c.period : i \in 0..(n - 1)} \subseteq own})
  IN {s \in {[start |-> t, len |-> extent(t)] : t \in {u \in own : u - c.period \notin own}} :
        s.len >= 2}

Members(c, s) == {s.start + i * c.period : i \in 0..(s.len - 1)}

Earliest(S) == CHOOSE s \in S : \A r \in S : s.start <= r.start

First(c) == Smallest(Component(c))
Last(c) == Largest(Component(c)) + c.period

----------------------------------------------------------------------------
(* Candidates and their gates *)

Divisors(p) == IF p \in Long THEN {d \in Periods : d < p /\ p % d = 0} ELSE {}

Intervals(p) == UNION {{<<c, t>> : t \in Component(c)} : c \in {d \in Classes : d.period = p}}

Midpoints(p, d) == Cardinality(Intervals(p)) * (p \div d - 1)

(* The ledger of awaited windows: every window so far at a phase the last
   reading expects is looked at, and one that was watched and saw no restart is
   a genuine miss for good. *)
Ledger ==
  misses \cup {m \in [class : awaited, at : 1..now] :
                 On(m.at, m.class) /\ m.at \notin events \cup gaps}

MissesOf(p) == {m \in Ledger : m.class.period = p}

UnresolvedAt(c, windows, intervals, healthy) ==
  \E d \in Divisors(c.period) :
    /\ ~(/\ Midpoints(c.period, d) >= windows
         /\ Cardinality(Intervals(c.period)) >= intervals)
    /\ Cardinality(MissesOf(d)) < healthy

H2Blocked(c) == UnresolvedAt(c, 2, 2, 1)
H3Blocked(c) == UnresolvedAt(c, 4, 3, 2)
Blocked(c) == H2Blocked(c) \/ H3Blocked(c)

H1(c) == Component(c) # {}

H2(c) == Streaks(c) # {} /\ ~H2Blocked(c)

H3(c) ==
  /\ \/ \E s \in Streaks(c) : s.len >= 3
     \/ Streaks(c) # {} /\ Cardinality(Component(c)) >= 3
  /\ ~H3Blocked(c)

H4(c) == H3(c) /\ Cardinality(Component(c)) >= 4

GateOf(c) ==
  CASE H4(c) -> "h4" [] H3(c) -> "h3" [] H2(c) -> "h2" [] H1(c) -> "h1" [] OTHER -> "none"

Rank(gate) == CASE gate = "h4" -> 4 [] gate = "h3" -> 3 [] gate = "h2" -> 2
                [] gate = "h1" -> 1 [] OTHER -> 0

(* The intervals a regime is identified by: its identity changes with them. *)
Defining(c) ==
  LET long == {s \in Streaks(c) : s.len >= 3}
      two == Members(c, Earliest(Streaks(c)))
  IN CASE H3(c) /\ long # {} ->
            {Earliest(long).start + i * c.period : i \in 0..2}
       [] H3(c) /\ long = {} -> two \cup {Smallest(Component(c) \ two)}
       [] ~H3(c) /\ H2(c) -> two
       [] ~H3(c) /\ ~H2(c) /\ H1(c) -> {First(c)}
       [] OTHER -> {0} \cup {x[1] : x \in Related(c)}

(* Thousandths: half of what is missing per interval, a bonus per streak. *)
Authority(c) ==
  LET n == Cardinality(Component(c))
      base == CASE n = 0 -> 0 [] n = 1 -> 500 [] n = 2 -> 750 [] n = 3 -> 875
                [] OTHER -> 940
      bonus == CASE Streaks(c) = {} -> 0
                 [] \A s \in Streaks(c) : s.len = 2 -> 40
                 [] OTHER -> 60
  IN Smallest({970, base + bonus})

(* A class is a candidate with intervals of its own, or when the normal
   scorer sees its period at its phase. *)
Candidates(s) ==
  {c \in Classes : \/ H1(c)
                   \/ s.phase[c.period] = c.phase}

LastEvidence(c) ==
  IF H1(c) THEN Last(c)
  ELSE IF Related(c) = {} THEN 0 ELSE Largest({x[2] : x \in Related(c)})

Best(S) ==
  CHOOSE c \in S : \A d \in S :
    LET key(x) == 10000000 * Rank(GateOf(x)) + 1000 * Authority(x) + LastEvidence(x)
    IN key(d) <= key(c)

----------------------------------------------------------------------------
(* The decision *)

RegimeOf(c, status, origin) ==
  [class |-> c, id |-> Defining(c), origin |-> origin, status |-> status,
   gate |-> IF origin = "normal" THEN "normal" ELSE GateOf(c),
   at |-> IF H3(c) THEN Last(c) ELSE 0]

(* An incumbent that still has its candidate keeps its identity, its origin
   and its time, takes the candidate's gate, and counts as established. *)
Renewed(regime, s) ==
  IF regime.class \notin Candidates(s) THEN regime
  ELSE [regime EXCEPT
          !.status = "established",
          !.gate = IF regime.origin = "normal" THEN "normal" ELSE GateOf(regime.class)]

Chosen(state, regime, incumbent, level, usable, safe) ==
  [state |-> state, selected |-> regime, incumbent |-> incumbent, level |-> level,
   usable |-> usable, safe |-> safe]

(* Without an incumbent: the best class with three intervals, else with two,
   else the one the normal scorer selects. *)
FirstRegime(s) ==
  LET all == Candidates(s)
      h3 == {c \in all : H3(c)}
      h2 == {c \in all : H2(c)}
      normal == {c \in all : c.period = s.selected /\ c.phase = s.phase[c.period]}
      pick(c, status, origin, usable) ==
        LET r == RegimeOf(c, status, origin)
        IN Chosen(status, r, r, 0, usable, usable)
  IN CASE h3 # {} -> pick(Best(h3), "established", "continuity", TRUE)
       [] h3 = {} /\ h2 # {} -> pick(Best(h2), "likely", "continuity", FALSE)
       [] h3 = {} /\ h2 = {} /\ normal # {} ->
            pick(Best(normal), IF s.usable THEN "established" ELSE "likely", "normal",
                 s.usable)
       [] OTHER ->
            Chosen(IF all = {} THEN "unknown" ELSE "normal_learning", NoRegime, NoRegime,
                   0, FALSE, FALSE)

LastAligned(regime) ==
  Largest({regime.at} \cup {t \in events : On(t, regime.class)})

ActiveMisses(regime) ==
  {m \in Ledger : m.class = regime.class /\ m.at > LastAligned(regime)}

OffPhase(regime) ==
  {t \in events : t > LastAligned(regime) /\ ~On(t, regime.class)}

(* The challengers that count: with a gate and newer than the incumbent's
   establishment, or newer than anything that agrees with the incumbent. *)
Challengers(regime, s) ==
  {c \in Candidates(s) \ {regime.class} :
     \/ (H2(c) \/ H3(c)) /\ LastEvidence(c) > regime.at
     \/ LastEvidence(c) > LastAligned(regime)}

NormalContext(c, s) ==
  \/ s.phase[c.period] = c.phase /\ c.period \in s.trusted
  \/ \E x \in Related(c) : x[1] \notin Component(c) \/ x[2] # x[1] + c.period

Stronger(S, s) ==
  CHOOSE c \in S : \A d \in S :
    LET key(x) == 100000 * Authority(x)
                  + 1000 * (IF s.phase[x.period] = x.phase /\ x.period \in s.trusted THEN 1 ELSE 0) + LastEvidence(x)
    IN key(d) <= key(c)

(* With an incumbent: superseded by a challenger with three intervals, put in
   doubt by one with two, suspected on less, and else confirmed. *)
Transition(regime, prior, s) ==
  LET active == Challengers(regime, s)
      h3 == {c \in active : H3(c)}
      h2 == {c \in active : H2(c) /\ ~H3(c)}
      strong == Largest({0} \cup {Cardinality(Component(c)) : c \in active})
      context == \E c \in active : NormalContext(c, s)
      doubts == ActiveMisses(regime) # {} \/ OffPhase(regime) # {} \/ strong = 1
      superseding == RegimeOf(Stronger(h3, s), "established", "continuity")
      provisional == RegimeOf(Stronger(h2, s), "provisional", "continuity")
      keep(state, level, usable) == Chosen(state, regime, regime, level, usable, usable)
  IN CASE h3 # {} ->
            Chosen("new_regime_established", superseding, superseding, 0, TRUE, TRUE)
       [] h3 = {} /\ h2 # {} ->
            Chosen(IF prior = "transition_confirmed" THEN "new_regime_provisional"
                   ELSE "transition_confirmed", provisional, regime, 2, FALSE, FALSE)
       [] h3 = {} /\ h2 = {} /\ strong >= 2 -> keep("challenger_accumulating", 2, FALSE)
       [] h3 = {} /\ h2 = {} /\ strong < 2 /\ context ->
            keep("challenger_accumulating", 1, TRUE)
       [] h3 = {} /\ h2 = {} /\ strong < 2 /\ ~context /\ doubts ->
            keep("change_suspected", 1, TRUE)
       [] OTHER -> keep("established", 0, TRUE)

(* Mutation: what was believed so far is not handed on. *)
evaluate_afresh(s, prior) == FirstRegime(s)

evaluate_authority(s, prior) ==
  IF prior.incumbent = NoRegime THEN FirstRegime(s)
  ELSE Transition(Renewed(prior.incumbent, s), prior.state, s)

----------------------------------------------------------------------------
(* What is shown *)

(* The selected regime's candidate, looked up by its identity. *)
Matching(d, s) == {c \in Candidates(s) : c = d.selected.class /\ Defining(c) = d.selected.id}

ShownGate(d, s) ==
  IF d.selected.origin = "normal" \/ Matching(d, s) = {} THEN d.selected.gate
  ELSE GateOf(d.selected.class)

KnownBlocked(d, s) == \E c \in Matching(d, s) : Blocked(c)

SafeH3(d, s) ==
  /\ ShownGate(d, s) \in {"h3", "h4"}
  /\ ~KnownBlocked(d, s)
  /\ d.usable /\ d.safe
  /\ d.state \in {"established", "change_suspected", "challenger_accumulating",
                   "new_regime_established"}

(* Mutation: two intervals are enough for a countdown, whatever was decided. *)
EagerH2(d, s) == ShownGate(d, s) = "h2" /\ ~KnownBlocked(d, s)

SafeH2(d, s) ==
  /\ ShownGate(d, s) = "h2"
  /\ d.selected.origin = "continuity" /\ d.selected.status = "established"
  /\ d.state = "established"
  /\ d.selected.id = d.incumbent.id
  /\ d.level = 0 /\ d.usable /\ d.safe
  /\ ~KnownBlocked(d, s)

(* A schedule of the normal scorer's, which must still select it. *)
SafeNormal(d, s) ==
  /\ ShownGate(d, s) = "normal"
  /\ d.selected.origin = "normal"
  /\ d.state = "established"
  /\ d.selected.id = d.incumbent.id
  /\ d.level = 0 /\ d.usable /\ d.safe
  /\ s.selected = d.selected.class.period /\ s.certain
  /\ ~KnownBlocked(d, s)

Countdown(d, s) ==
  d.selected # NoRegime /\ (SafeH3(d, s) \/ SafeH2(d, s) \/ SafeNormal(d, s))

Presentation(d, s) ==
  CASE d.state \in {"unknown", "normal_learning"} -> "none"
    [] d.state = "likely" -> "likely_cycle"
    [] d.state = "new_regime_established" -> "confirmed_new_cycle"
    [] d.state \in {"transition_confirmed", "new_regime_provisional"} -> "likely_new_cycle"
    [] d.state = "challenger_accumulating" /\ ~d.safe -> "schedule_change_suspected"
    [] d.state \in {"change_suspected", "challenger_accumulating"} /\ d.safe ->
         "confirmed_cycle"
    [] OTHER ->
         CASE SafeH2(d, s) -> "confirmed_cycle"
           [] ~SafeH2(d, s) /\ ShownGate(d, s) = "normal" -> "likely_cycle"
           [] ShownGate(d, s) \in {"h3", "h4"} -> "confirmed_cycle"
           [] OTHER -> "none"

Show(d, s) == [wording |-> Presentation(d, s), countdown |-> Countdown(d, s)]

NothingShown == [wording |-> "none", countdown |-> FALSE]

----------------------------------------------------------------------------
(* The behaviours *)

(* The scorer's phase of a period: where most of the weight is, a probable
   restart having half the weight of a confirmed one; the later one of two. *)
Phase(p) ==
  LET at(f) == {t \in events : t % p = f}
      key(f) == 10000 * (2 * Cardinality(at(f) \ weak) + Cardinality(at(f) \cap weak))
                + 100 * Cardinality(at(f)) + Largest(at(f))
      phases == {t % p : t \in events}
  IN IF events = {} THEN -1
     ELSE CHOOSE f \in phases : \A g \in phases : key(g) <= key(f)

(* Restarts some periods apart, at most one other between them, with nobody
   watching at each of the ticks between at which one would have been due, and
   that no interval of one period reaches into from the left. *)
Multiples(p) ==
  {x \in (events \ weak) \X (events \ weak) :
     /\ x[2] - x[1] \in {k * p : k \in 2..8}
     /\ Cardinality(events \cap Inside(x[1], x[2])) <= 1
     /\ {t \in Inside(x[1], x[2]) : t % p = x[1] % p} \subseteq gaps
     /\ \A t \in Inside(x[1] - p, x[1]) : t \notin Direct([period |-> p, phase |-> t % p])}

Relationships(p) == Cardinality(Intervals(p)) + Cardinality(Multiples(p))

(* The periods the scorer may have some confidence in, a number that penalties
   lower, and those it may select; a selection outlives the confidence. *)
Trusted == SUBSET {p \in Periods : Relationships(p) > 0}
Selectable == {p \in Periods : Relationships(p) >= Enough}

(* What it may make of the evidence: its phases, the periods it trusts, the one
   it selects, whether it would predict with it, and whether it is certain
   enough for a countdown of its own. *)
Scores ==
  LET reading(trusted, p, usable, certain) ==
        [phase |-> [q \in Periods |-> Phase(q)], trusted |-> trusted,
         selected |-> p, usable |-> usable, certain |-> certain]
  IN {reading(T, p, FALSE, FALSE) : T \in Trusted, p \in {0} \cup Selectable}
     \cup {reading(T \cup {p}, p, TRUE, b) : T \in Trusted, p \in Selectable, b \in BOOLEAN}

AuthorityInit ==
  /\ now = 0
  /\ events = {} /\ weak = {} /\ gaps = {}
  /\ awaited = {} /\ misses = {}
  /\ decision = NoDecision /\ shown = NothingShown /\ fresh = TRUE

(* Evidence is read far more often than restarts come. *)
Tick ==
  /\ now < MaxTime /\ fresh
  /\ now' = now + 1
  /\ fresh' = FALSE
  /\ UNCHANGED <<awaited, misses, decision, shown>>

(* The server restarts, and it is confirmed or only probable. *)
Restart ==
  /\ Tick
  /\ events' = events \cup {now + 1}
  /\ \/ UNCHANGED weak
     \/ Cardinality(weak) < MaxWeak /\ weak' = weak \cup {now + 1}
  /\ UNCHANGED gaps

(* It runs on, watched. *)
Quiet ==
  /\ Tick
  /\ UNCHANGED <<events, weak, gaps>>

(* A tick nobody watched: another session, and nothing is known of it. *)
Unwatched ==
  /\ Tick
  /\ Cardinality(gaps) < MaxGaps
  /\ gaps' = gaps \cup {now + 1}
  /\ UNCHANGED <<events, weak>>

(* A sample is evaluated: the awaited windows, the score, the decision and
   what is shown of it. *)
Evaluate ==
  \E s \in Scores :
    /\ misses' = Ledger
    /\ awaited' = {c \in Classes : c.phase = s.phase[c.period] /\ Relationships(c.period) >= 2}
    /\ decision' = evaluate_authority(s, decision)
    /\ shown' = Show(decision', s)
    /\ fresh' = TRUE
    /\ UNCHANGED <<now, events, weak, gaps>>

AuthorityNext == Restart \/ Quiet \/ Unwatched \/ Evaluate

AuthoritySpec == AuthorityInit /\ [][AuthorityNext]_authorityVars

----------------------------------------------------------------------------
AuthorityTypeOK ==
  /\ now \in 0..MaxTime
  /\ events \subseteq 1..now /\ gaps \subseteq 1..now /\ events \cap gaps = {}
  /\ \A m \in misses : m.class \in Classes /\ m.at \in 1..now \ events
  /\ decision.incumbent = NoRegime \/ decision.incumbent.class \in Classes
  /\ decision.level \in 0..2

(* Its gate and its standing may be another. *)
SameBelief(old, new) ==
  /\ new.class = old.class /\ new.id = old.id
  /\ new.origin = old.origin /\ new.at = old.at

(* A schedule once believed keeps its identity, its origin and its time until
   one is established by later evidence.  So beliefs never go in circles, however
   often the same evidence is read (_transition_decision). *)
BeliefsMoveForward ==
  [][decision.incumbent # NoRegime =>
       LET old == decision.incumbent
           new == decision'.incumbent
       IN SameBelief(old, new) \/ (new.class # old.class /\ new.at > old.at)]_authorityVars

(* No countdown while the evidence of another class that has earned a gate is
   newer than all that agrees with the shown one, unless that one has just
   superseded the schedule before it (_transition_decision,
   evaluate_authority_consumers). *)
CountdownIsHonest ==
  fresh /\ shown.countdown =>
    /\ shown.wording \notin {"none", "likely_new_cycle", "schedule_change_suspected"}
    /\ \/ decision.state = "new_regime_established"
       \/ \A c \in Classes \ {decision.selected.class} :
            H2(c) \/ H3(c) => LastEvidence(c) <= LastAligned(decision.selected)
=============================================================================
