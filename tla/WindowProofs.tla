---------------------------- MODULE WindowProofs ----------------------------
(***************************************************************************)
(* Proofs about what the window shows: the Server Companion (first part)   *)
(* and the server list (second part).                                      *)
(*                                                                         *)
(* The Server Companion: the flag that keeps it from polling is up for     *)
(* exactly one query under way, its learner has exactly the session of     *)
(* what it polls, and no outage is announced unheard or twice, for any     *)
(* servers and however many generations, outages and events.  The          *)
(* arguments turn on the generation: whatever ends a stay bumps it, and so *)
(* nothing that is out can count again.  For the alerts it is the keys: an *)
(* event that was announced once has one.                                  *)
(*                                                                         *)
(* The server list: the list is shown, no sweep loses a server, no row     *)
(* goes offline at the first failure, every flag has a job that lowers it  *)
(* and the files of the catalogue follow the list, for any endpoints, any  *)
(* number of workers, any sizes of the buffer and the warm-up and any      *)
(* number of updates.  The arguments: a server of a sweep is in exactly    *)
(* one place (asked for, waiting, buffered) and the counters add up; the   *)
(* catalogue's jobs are of the present list only as long as its            *)
(* generation is; and the runs of answers are compared by induction over   *)
(* their length, stated for sets of numbers (LeastNatural, InductiveSet).  *)
(***************************************************************************)
EXTENDS ServerCompanion, ServerBrowser, FiniteSetTheorems, WellFoundedInduction, TLAPS

(* The queries whose result may still have an effect. *)
PollCounts(q) == q.kind = "poll" /\ q.token = token
ConfirmCounts(q) == q.kind = "confirm" /\ q.candidate \in candidate
Counts(q) == PollCounts(q) \/ ConfirmCounts(q)

-----------------------------------------------------------------------------
(* The inductive invariant, part by part. *)

PollingTyped ==
  /\ token \in Nat
  /\ inflight \in BOOLEAN
  /\ stranded \in BOOLEAN
  /\ \A q \in queries : q.kind \in {"poll", "confirm"}

(* No query is of a generation that is still to come, *)
QueriesArePast ==
  \A q \in queries : q.kind = "poll" => q.token \in 0..token

(* the candidate is of the present one, *)
CandidateIsOfNow ==
  /\ \A c \in candidate : c.token = token
  /\ \A c, d \in candidate : c = d

(* and a confirmation of the present one is that of the candidate. *)
ConfirmationsAreKnown ==
  \A q \in queries : q.kind = "confirm" =>
    /\ q.candidate.token \in 0..token
    /\ q.candidate.token = token => q.candidate \in candidate /\ confirm = "query"

ConfirmIsOut ==
  confirm = "query" => \E q \in queries : ConfirmCounts(q)

OneCounts ==
  \A q, r \in queries : Counts(q) /\ Counts(r) => q = r

FlagIsUp ==
  \A q \in queries : Counts(q) => inflight

FlagComesDown ==
  inflight /\ ~stranded => \E q \in queries : Counts(q)

CandidateEnds ==
  candidate # {} => confirm = "timer" \/ \E q \in queries : ConfirmCounts(q)

PollInv ==
  /\ PollingTyped /\ QueriesArePast /\ CandidateIsOfNow /\ ConfirmationsAreKnown
  /\ ConfirmIsOut /\ OneCounts /\ FlagIsUp /\ FlagComesDown /\ CandidateEnds

(* The learner's sessions: at most the one of the present stay. *)
LearnInv ==
  /\ sessions \subseteq {Session(server, token)}
  /\ server = NoServer \/ ~learning => sessions = {}
  /\ learning /\ timer => Session(server, token) \in sessions

-----------------------------------------------------------------------------
(* The shapes of the steps, as far as the polling is concerned. *)

(* Nothing of the polling changes. *)
PollingRests ==
  UNCHANGED <<token, inflight, candidate, confirm, queries, stranded>>

(* A query may be submitted (_submit_server_companion_poll). *)
Submits ==
  /\ Submit(server, token, inflight, candidate # {})
  /\ UNCHANGED <<token, candidate, confirm, stranded>>

(* A stay ends (_stop_server_companion_polling). *)
Leaves == StopPolling(token + 1) /\ stranded' = FALSE

LEMMA RestKeepsPollInv ==
  ASSUME PollInv, PollingRests
  PROVE  PollInv'
<1> USE DEF PollInv, PollingRests, Counts, PollCounts, ConfirmCounts
<1>1. PollingTyped' BY DEF PollingTyped
<1>2. QueriesArePast' BY DEF QueriesArePast
<1>3. CandidateIsOfNow' BY DEF CandidateIsOfNow
<1>4. ConfirmationsAreKnown' BY DEF ConfirmationsAreKnown
<1>5. ConfirmIsOut' BY DEF ConfirmIsOut
<1>6. OneCounts' BY DEF OneCounts
<1>7. FlagIsUp' BY DEF FlagIsUp
<1>8. FlagComesDown' BY DEF FlagComesDown
<1>9. CandidateEnds' BY DEF CandidateEnds
<1> QED BY <1>1, <1>2, <1>3, <1>4, <1>5, <1>6, <1>7, <1>8, <1>9

(* A query is only submitted when none counts and no candidate waits. *)
LEMMA SubmitKeepsPollInv ==
  ASSUME PollInv, Submits
  PROVE  PollInv'
<1>1. CASE inflight' = inflight /\ UNCHANGED queries
  BY <1>1, RestKeepsPollInv DEF Submits, PollingRests
<1>2. CASE /\ ~inflight /\ candidate = {}
           /\ inflight' = TRUE /\ queries' = queries \cup {Poll(server, token)}
  <2> DEFINE new == Poll(server, token)
  <2> USE DEF Counts, PollCounts, ConfirmCounts
  <2>0. /\ new.kind = "poll" /\ new.token = token
        /\ UNCHANGED <<token, candidate, confirm, stranded>>
    BY DEF Poll, Submits
  <2>1. \A q \in queries : ~Counts(q)
    BY <1>2 DEF PollInv, FlagIsUp
  <2>2. \A q \in queries : ~Counts(q)'
    BY <2>0, <2>1
  <2> HIDE DEF new
  <2>3. queries' = queries \cup {new}
    BY <1>2 DEF new
  <2>4. PollingTyped'
    BY <1>2, <2>0, <2>3 DEF PollInv, PollingTyped
  <2>5. QueriesArePast'
    BY <2>0, <2>3 DEF PollInv, PollingTyped, QueriesArePast
  <2>6. CandidateIsOfNow'
    BY <2>0 DEF PollInv, CandidateIsOfNow
  <2>7. ConfirmationsAreKnown'
    BY <2>0, <2>3 DEF PollInv, ConfirmationsAreKnown
  <2>8. ConfirmIsOut'
    BY <2>0, <2>3 DEF PollInv, ConfirmIsOut
  <2>9. OneCounts'
    BY <2>2, <2>3 DEF OneCounts
  <2>10. FlagIsUp'
    BY <1>2 DEF FlagIsUp
  <2>11. FlagComesDown'
    BY <2>0, <2>3 DEF FlagComesDown
  <2>12. CandidateEnds'
    BY <1>2, <2>0 DEF CandidateEnds
  <2> QED BY <2>4, <2>5, <2>6, <2>7, <2>8, <2>9, <2>10, <2>11, <2>12 DEF PollInv
<1> QED BY <1>1, <1>2 DEF Submits, Submit

(* With a new generation nothing that is out counts any more. *)
LEMMA BumpSilences ==
  ASSUME PollInv, token' = token + 1, candidate' = {}
  PROVE  /\ \A q \in queries : ~Counts(q)'
         /\ \A q \in queries : q.kind = "poll" => q.token \in 0..token'
         /\ \A q \in queries : q.kind = "confirm" =>
              q.candidate.token \in 0..token' /\ q.candidate.token # token'
<1>1. token \in Nat BY DEF PollInv, PollingTyped
<1>2. \A q \in queries : q.kind = "poll" => q.token \in 0..token
  BY DEF PollInv, QueriesArePast
<1>3. \A q \in queries : q.kind = "confirm" => q.candidate.token \in 0..token
  BY DEF PollInv, ConfirmationsAreKnown
<1>4. ASSUME NEW q \in queries, q.kind = "poll"
      PROVE  q.token \in 0..token' /\ q.token # token'
  BY <1>1, <1>2, <1>4
<1>5. ASSUME NEW q \in queries, q.kind = "confirm"
      PROVE  q.candidate.token \in 0..token' /\ q.candidate.token # token'
  BY <1>1, <1>3, <1>5
<1>6. ASSUME NEW q \in queries PROVE ~Counts(q)'
  BY <1>4 DEF Counts, PollCounts, ConfirmCounts
<1> QED BY <1>4, <1>5, <1>6

LEMMA LeaveKeepsPollInv ==
  ASSUME PollInv, Leaves
  PROVE  PollInv'
<1>0. /\ token' = token + 1 /\ candidate' = {} /\ confirm' = "none"
      /\ inflight' = FALSE /\ queries' = queries /\ stranded' = FALSE
  BY DEF Leaves, StopPolling, CancelConfirmation
<1>s. /\ \A q \in queries : ~Counts(q)'
      /\ \A q \in queries : q.kind = "poll" => q.token \in 0..token'
      /\ \A q \in queries : q.kind = "confirm" =>
           q.candidate.token \in 0..token' /\ q.candidate.token # token'
  BY <1>0, BumpSilences
<1>1. PollingTyped'
  <2>1. PollingTyped BY DEF PollInv
  <2>2. token' \in Nat BY <1>0, <2>1 DEF PollingTyped
  <2>3. inflight' \in BOOLEAN /\ stranded' \in BOOLEAN BY <1>0
  <2>4. \A q \in queries' : q.kind \in {"poll", "confirm"}
    BY <1>0, <2>1 DEF PollingTyped
  <2> QED BY <2>2, <2>3, <2>4 DEF PollingTyped
<1>2. QueriesArePast' BY <1>0, <1>s DEF QueriesArePast
<1>3. CandidateIsOfNow' BY <1>0 DEF CandidateIsOfNow
<1>4. ConfirmationsAreKnown' BY <1>0, <1>s DEF ConfirmationsAreKnown
<1>5. ConfirmIsOut' BY <1>0 DEF ConfirmIsOut
<1>6. OneCounts' BY <1>0, <1>s DEF OneCounts
<1>7. FlagIsUp' BY <1>0, <1>s DEF FlagIsUp
<1>8. FlagComesDown' BY <1>0 DEF FlagComesDown
<1>9. CandidateEnds' BY <1>0 DEF CandidateEnds
<1> QED BY <1>1, <1>2, <1>3, <1>4, <1>5, <1>6, <1>7, <1>8, <1>9 DEF PollInv

(* A Join changes the server under a poll that is out, and then the flag may
   stay up without one ("stranded").                                      *)
LEMMA SelectKeepsPollInv ==
  ASSUME PollInv, NEW s \in Servers, SelectServer(s)
  PROVE  PollInv'
<1>0. /\ token' = token + 1 /\ candidate' = {} /\ confirm' = "none"
      /\ stranded' = (stranded \/ BusyAfterCancel)
  BY DEF SelectServer, CancelConfirmation
<1>s. /\ \A q \in queries : ~Counts(q)'
      /\ \A q \in queries : q.kind = "poll" => q.token \in 0..token'
      /\ \A q \in queries : q.kind = "confirm" =>
           q.candidate.token \in 0..token' /\ q.candidate.token # token'
  BY <1>0, BumpSilences
<1>t. BusyAfterCancel \in BOOLEAN /\ stranded \in BOOLEAN
  BY DEF BusyAfterCancel, PollInv, PollingTyped
<1>3. CandidateIsOfNow' BY <1>0 DEF CandidateIsOfNow
<1>5. ConfirmIsOut' BY <1>0 DEF ConfirmIsOut
<1>9. CandidateEnds' BY <1>0 DEF CandidateEnds
<1>a. CASE inflight' = BusyAfterCancel /\ UNCHANGED queries
  <2>1. PollingTyped' BY <1>0, <1>a, <1>t DEF PollInv, PollingTyped
  <2>2. QueriesArePast' BY <1>a, <1>s DEF QueriesArePast
  <2>4. ConfirmationsAreKnown' BY <1>a, <1>s DEF ConfirmationsAreKnown
  <2>6. OneCounts' BY <1>a, <1>s DEF OneCounts
  <2>7. FlagIsUp' BY <1>a, <1>s DEF FlagIsUp
  <2>8. FlagComesDown' BY <1>0, <1>a, <1>t DEF FlagComesDown
  <2> QED BY <1>3, <1>5, <1>9, <2>1, <2>2, <2>4, <2>6, <2>7, <2>8 DEF PollInv
<1>b. CASE inflight' = TRUE /\ queries' = queries \cup {Poll(s, token + 1)}
  <2> DEFINE new == Poll(s, token + 1)
  <2>0. new.kind = "poll" /\ new.token = token' BY <1>0 DEF Poll
  <2>q. queries' = queries \cup {new} BY <1>b
  <2> HIDE DEF new
  <2>1. PollingTyped' BY <1>0, <1>b, <1>t, <2>0, <2>q DEF PollInv, PollingTyped
  <2>2. QueriesArePast'
    BY <1>0, <1>s, <2>0, <2>q DEF QueriesArePast, PollInv, PollingTyped
  <2>4. ConfirmationsAreKnown' BY <1>s, <2>0, <2>q DEF ConfirmationsAreKnown
  <2>6. OneCounts' BY <1>s, <2>q DEF OneCounts
  <2>7. FlagIsUp' BY <1>b DEF FlagIsUp
  <2>8. FlagComesDown' BY <2>0, <2>q DEF FlagComesDown, Counts, PollCounts
  <2> QED BY <1>3, <1>5, <1>9, <2>1, <2>2, <2>4, <2>6, <2>7, <2>8 DEF PollInv
<1> QED BY <1>a, <1>b DEF SelectServer, StartPolling, Submit

(* The confirmation is submitted while nothing else counts, or given up. *)
LEMMA BeginKeepsPollInv ==
  ASSUME PollInv, NEW c \in candidate, BeginConfirmation(c)
  PROVE  PollInv'
<1> USE DEF Counts, PollCounts, ConfirmCounts
<1>0. confirm = "timer" /\ c.token = token /\ UNCHANGED <<token, stranded>>
  BY DEF BeginConfirmation, polling, history, PollInv, CandidateIsOfNow
<1>1. token \in Nat BY DEF PollInv, PollingTyped
<1>2. \A q \in queries : q.kind = "confirm" =>
        q.candidate.token \in 0..token /\ q.candidate.token # token /\ ~ConfirmCounts(q)
  BY <1>0 DEF PollInv, ConfirmationsAreKnown, CandidateIsOfNow
<1>a. CASE /\ ~inflight /\ confirm' = "query" /\ inflight' = TRUE
           /\ queries' = queries \cup {Confirmation(c)} /\ UNCHANGED candidate
  <2> DEFINE new == Confirmation(c)
  <2>0. new.kind = "confirm" /\ new.candidate = c BY DEF Confirmation
  <2>q. queries' = queries \cup {new} BY <1>a
  <2> HIDE DEF new
  <2>n. \A q \in queries : ~Counts(q)'
    BY <1>0, <1>2, <1>a DEF PollInv, FlagIsUp
  <2>1. PollingTyped' BY <1>0, <1>a, <2>0, <2>q DEF PollInv, PollingTyped
  <2>2. QueriesArePast' BY <1>0, <2>0, <2>q DEF PollInv, QueriesArePast
  <2>3. CandidateIsOfNow' BY <1>0, <1>a DEF PollInv, CandidateIsOfNow
  <2>4. ConfirmationsAreKnown'
    BY <1>0, <1>1, <1>2, <1>a, <2>0, <2>q DEF ConfirmationsAreKnown
  <2>5. ConfirmIsOut' BY <1>a, <2>0, <2>q DEF ConfirmIsOut
  <2>6. OneCounts' BY <2>n, <2>q DEF OneCounts
  <2>7. FlagIsUp' BY <1>a DEF FlagIsUp
  <2>8. FlagComesDown' BY <1>a, <2>0, <2>q DEF FlagComesDown
  <2>9. CandidateEnds' BY <1>a, <2>0, <2>q DEF CandidateEnds
  <2> QED BY <2>1, <2>2, <2>3, <2>4, <2>5, <2>6, <2>7, <2>8, <2>9 DEF PollInv
<1>b. CASE CancelConfirmation /\ UNCHANGED <<inflight, queries>>
  <2>0. candidate' = {} /\ confirm' = "none" BY <1>b DEF CancelConfirmation
  <2>n. \A q \in queries : Counts(q)' <=> Counts(q)
    BY <1>0, <1>2, <2>0
  <2>1. PollingTyped' BY <1>0, <1>b DEF PollInv, PollingTyped
  <2>2. QueriesArePast' BY <1>0, <1>b DEF PollInv, QueriesArePast
  <2>3. CandidateIsOfNow' BY <2>0 DEF CandidateIsOfNow
  <2>4. ConfirmationsAreKnown' BY <1>0, <1>2, <1>b DEF ConfirmationsAreKnown
  <2>5. ConfirmIsOut' BY <2>0 DEF ConfirmIsOut
  <2> HIDE DEF Counts
  <2>6. OneCounts' BY <1>b, <2>n DEF PollInv, OneCounts
  <2>7. FlagIsUp' BY <1>b, <2>n DEF PollInv, FlagIsUp
  <2>8. FlagComesDown' BY <1>0, <1>b, <2>n DEF PollInv, FlagComesDown
  <2>9. CandidateEnds' BY <2>0 DEF CandidateEnds
  <2> QED BY <2>1, <2>2, <2>3, <2>4, <2>5, <2>6, <2>7, <2>8, <2>9 DEF PollInv
<1> QED BY <1>a, <1>b DEF BeginConfirmation

(* When the one query that counts is gone, the flag may come down. *)
LEMMA CountingQueryEnds ==
  ASSUME PollInv, NEW q \in queries, Counts(q), queries' = queries \ {q},
         token' = token, stranded' = stranded, inflight' = FALSE
  PROVE  /\ PollingTyped' /\ QueriesArePast' /\ FlagComesDown'
         /\ \A r \in queries' : r.kind = "poll" => r.token # token
         /\ \A r \in queries' : r.kind = "confirm" =>
              r.candidate.token \in 0..token /\ r.candidate.token # token
<1>1. PollingTyped' BY DEF PollInv, PollingTyped
<1>2. QueriesArePast' BY DEF PollInv, QueriesArePast
<1>3. FlagComesDown' BY DEF FlagComesDown
<1>4. \A r \in queries' : ~Counts(r) BY DEF PollInv, OneCounts
<1>5. \A r \in queries' : r.kind = "poll" => r.token # token
  BY <1>4 DEF Counts, PollCounts
<1>6. \A r \in queries' : r.kind = "confirm" =>
        r.candidate.token \in 0..token /\ r.candidate.token # token
  BY <1>4 DEF Counts, ConfirmCounts, PollInv, ConfirmationsAreKnown
<1> QED BY <1>1, <1>2, <1>3, <1>5, <1>6

(* An answer that does not count changes nothing of the polling. *)
LEMMA UselessAnswer ==
  ASSUME PollInv, NEW q \in queries, ~Counts(q), queries' = queries \ {q},
         UNCHANGED <<token, inflight, candidate, confirm, stranded>>
  PROVE  PollInv'
<1>n. \A r : Counts(r)' <=> Counts(r) BY DEF Counts, PollCounts, ConfirmCounts
<1>c. \A r : ConfirmCounts(r)' <=> ConfirmCounts(r) BY DEF ConfirmCounts
<1>k. \A r \in queries : Counts(r) => r \in queries' OBVIOUS
<1>d. \A r \in queries : ConfirmCounts(r) => r \in queries' BY <1>k DEF Counts
<1>1. PollingTyped' BY DEF PollInv, PollingTyped
<1>2. QueriesArePast' BY DEF PollInv, QueriesArePast
<1>3. CandidateIsOfNow' BY DEF PollInv, CandidateIsOfNow
<1>4. ConfirmationsAreKnown' BY DEF PollInv, ConfirmationsAreKnown
<1>5. ConfirmIsOut' BY <1>c, <1>d DEF PollInv, ConfirmIsOut
<1>6. OneCounts' BY <1>n DEF PollInv, OneCounts
<1>7. FlagIsUp' BY <1>n DEF PollInv, FlagIsUp
<1>8. FlagComesDown' BY <1>n, <1>k DEF PollInv, FlagComesDown
<1>9. CandidateEnds' BY <1>c, <1>d DEF PollInv, CandidateEnds
<1> QED BY <1>1, <1>2, <1>3, <1>4, <1>5, <1>6, <1>7, <1>8, <1>9 DEF PollInv

LEMMA PollResultKeepsPollInv ==
  ASSUME PollInv, NEW q \in queries, PollResult(q)
  PROVE  PollInv'
<1>0. /\ q.kind = "poll" /\ queries' = queries \ {q}
      /\ UNCHANGED <<token, stranded>>
  BY DEF PollResult
<1>t. token \in Nat BY DEF PollInv, PollingTyped
<1>a. CASE ~CurrentPoll(q)
  <2>1. ~Counts(q)
    BY <1>0, <1>a DEF Counts, PollCounts, ConfirmCounts, CurrentPoll
  <2>2. UNCHANGED <<inflight, candidate, confirm>> BY <1>a DEF PollResult
  <2> QED BY <1>0, <2>1, <2>2, UselessAnswer
<1>b. CASE CurrentPoll(q)
  <2>1. Counts(q) /\ PollCounts(q) /\ ~ConfirmCounts(q)
    BY <1>0, <1>b DEF Counts, PollCounts, ConfirmCounts, CurrentPoll
  <2>2. inflight' = FALSE BY <1>b DEF PollResult
  <2>3. /\ PollingTyped' /\ QueriesArePast' /\ FlagComesDown'
        /\ \A r \in queries' : r.kind = "poll" => r.token # token
        /\ \A r \in queries' : r.kind = "confirm" =>
             r.candidate.token \in 0..token /\ r.candidate.token # token
    BY <1>0, <2>1, <2>2, CountingQueryEnds
  <2>4. ConfirmationsAreKnown' BY <1>0, <2>3 DEF ConfirmationsAreKnown
  <2>5. \A r \in queries : ~ConfirmCounts(r)
    BY <2>1 DEF PollInv, OneCounts, Counts
  <2>6. confirm # "query" BY <2>5 DEF PollInv, ConfirmIsOut
  <2>7. /\ CandidateIsOfNow' /\ ConfirmIsOut' /\ CandidateEnds'
        /\ \A c \in candidate' : c.token = token
    <3>a. CASE UNCHANGED <<candidate, confirm>>
      <4>1. CandidateIsOfNow' BY <1>0, <3>a DEF PollInv, CandidateIsOfNow
      <4>2. ConfirmIsOut' BY <2>6, <3>a DEF ConfirmIsOut
      <4>3. CandidateEnds' BY <2>5, <3>a DEF PollInv, CandidateEnds
      <4>4. \A c \in candidate' : c.token = token
        BY <3>a DEF PollInv, CandidateIsOfNow
      <4> QED BY <4>1, <4>2, <4>3, <4>4
    <3>b. CASE /\ candidate' = {[server |-> server, token |-> token, outage |-> view.outage]}
               /\ confirm' = "timer"
      <4>1. \A c \in candidate' : c.token = token BY <3>b
      <4>2. CandidateIsOfNow' BY <1>0, <3>b DEF CandidateIsOfNow
      <4>3. ConfirmIsOut' BY <3>b DEF ConfirmIsOut
      <4>4. CandidateEnds' BY <3>b DEF CandidateEnds
      <4> QED BY <4>1, <4>2, <4>3, <4>4
    <3> QED BY <1>b, <3>a, <3>b DEF PollResult
  <2>8. \A r \in queries' : ~Counts(r)'
    BY <1>0, <2>3, <2>7 DEF Counts, PollCounts, ConfirmCounts
  <2>9. OneCounts' BY <2>8 DEF OneCounts
  <2>10. FlagIsUp' BY <2>8 DEF FlagIsUp
  <2> QED BY <2>3, <2>4, <2>7, <2>9, <2>10 DEF PollInv
<1> QED BY <1>a, <1>b

LEMMA ConfirmationResultKeepsPollInv ==
  ASSUME PollInv, NEW q \in queries, ConfirmationResult(q)
  PROVE  PollInv'
<1>0. /\ q.kind = "confirm" /\ queries' = queries \ {q}
      /\ UNCHANGED <<token, stranded>>
  BY DEF ConfirmationResult
<1>a. CASE q.candidate \notin candidate
  <2>1. ~Counts(q) BY <1>0, <1>a DEF Counts, PollCounts, ConfirmCounts
  <2>2. UNCHANGED <<inflight, candidate, confirm>>
    BY <1>a DEF ConfirmationResult, CandidateIsCurrent
  <2> QED BY <1>0, <2>1, <2>2, UselessAnswer
<1>b. CASE q.candidate \in candidate
  <2>1. Counts(q) BY <1>0, <1>b DEF Counts, ConfirmCounts
  <2>2. confirm = "query"
    BY <1>0, <1>b DEF PollInv, ConfirmationsAreKnown, CandidateIsOfNow
  <2>3. inflight' = FALSE /\ candidate' = {} /\ confirm' = "none"
    BY <1>b, <2>2 DEF ConfirmationResult, CancelConfirmation, BusyAfterCancel
  <2>4. /\ PollingTyped' /\ QueriesArePast' /\ FlagComesDown'
        /\ \A r \in queries' : r.kind = "poll" => r.token # token
        /\ \A r \in queries' : r.kind = "confirm" =>
             r.candidate.token \in 0..token /\ r.candidate.token # token
    BY <1>0, <2>1, <2>3, CountingQueryEnds
  <2>5. CandidateIsOfNow' BY <2>3 DEF CandidateIsOfNow
  <2>6. ConfirmationsAreKnown' BY <1>0, <2>4 DEF ConfirmationsAreKnown
  <2>7. ConfirmIsOut' BY <2>3 DEF ConfirmIsOut
  <2>8. \A r \in queries' : ~Counts(r)'
    BY <1>0, <2>3, <2>4 DEF Counts, PollCounts, ConfirmCounts
  <2>9. OneCounts' BY <2>8 DEF OneCounts
  <2>10. FlagIsUp' BY <2>8 DEF FlagIsUp
  <2>11. CandidateEnds' BY <2>3 DEF CandidateEnds
  <2> QED BY <2>4, <2>5, <2>6, <2>7, <2>9, <2>10, <2>11 DEF PollInv
<1> QED BY <1>a, <1>b

-----------------------------------------------------------------------------
LEMMA PollInvInit == Init => PollInv
<1> SUFFICES ASSUME Init PROVE PollInv OBVIOUS
<1> USE DEF Init
<1>1. PollingTyped BY DEF PollingTyped
<1>2. QueriesArePast /\ CandidateIsOfNow /\ ConfirmationsAreKnown
  BY DEF QueriesArePast, CandidateIsOfNow, ConfirmationsAreKnown
<1>3. ConfirmIsOut /\ OneCounts /\ FlagIsUp /\ FlagComesDown /\ CandidateEnds
  BY DEF ConfirmIsOut, OneCounts, FlagIsUp, FlagComesDown, CandidateEnds
<1> QED BY <1>1, <1>2, <1>3 DEF PollInv

LEMMA PollInvStep == PollInv /\ [Next]_vars => PollInv'
<1> SUFFICES ASSUME PollInv, [Next]_vars PROVE PollInv' OBVIOUS
<1> USE DEF polling, learner, history
<1>1. ASSUME NEW s \in Servers, SelectServer(s) PROVE PollInv'
  BY <1>1, SelectKeepsPollInv
<1>2. CASE ClearServer
  BY <1>2, LeaveKeepsPollInv DEF ClearServer, Leaves
<1>3. CASE Pause
  BY <1>3, LeaveKeepsPollInv DEF Pause, Stops, Leaves
<1>4. CASE Hide
  BY <1>4, LeaveKeepsPollInv DEF Hide, Stops, Leaves
<1>5. CASE Resume
  BY <1>5, SubmitKeepsPollInv DEF Resume, Starts, StartPolling, Submits
<1>6. CASE Show
  <2>1. CASE server # NoServer /\ ~paused
    BY <1>6, <2>1, SubmitKeepsPollInv DEF Show, Starts, StartPolling, Submits
  <2>2. CASE ~(server # NoServer /\ ~paused)
    BY <1>6, <2>2, RestKeepsPollInv DEF Show, PollingRests
  <2> QED BY <2>1, <2>2
<1>7. CASE PollTick
  <2>1. CASE ShouldPoll(server)
    BY <1>7, <2>1, SubmitKeepsPollInv DEF PollTick, Submits
  <2>2. CASE ~ShouldPoll(server)
    BY <1>7, <2>2, RestKeepsPollInv DEF PollTick, PollingRests
  <2> QED BY <2>1, <2>2
<1>8. ASSUME NEW c \in candidate, BeginConfirmation(c) PROVE PollInv'
  BY <1>8, BeginKeepsPollInv
<1>9. ASSUME NEW q \in queries, PollResult(q) PROVE PollInv'
  BY <1>9, PollResultKeepsPollInv
<1>10. ASSUME NEW q \in queries, ConfirmationResult(q) PROVE PollInv'
  BY <1>10, ConfirmationResultKeepsPollInv
<1>11. CASE ToggleAlerts \/ ReleaseHeld \/ TimeStep
  BY <1>11, RestKeepsPollInv
     DEF ToggleAlerts, ReleaseHeld, TimeStep, StrikeGrowsOld, EngineAges, OnlineLongEnough,
         PollingRests
<1>12. CASE UNCHANGED vars
  BY <1>12, RestKeepsPollInv DEF vars, PollingRests
<1> QED
  BY <1>1, <1>2, <1>3, <1>4, <1>5, <1>6, <1>7, <1>8, <1>9, <1>10, <1>11, <1>12
     DEF Next, UserStep, ConfirmationTimer, ResultStep

(* The invariant says what PollFlagIsRight does: what can still have an
   effect is one query, the flag is up for it, and a raised flag or a waiting
   candidate has its way out.                                              *)
LEMMA PollInvIsRight == PollInv => PollFlagIsRight
<1> SUFFICES ASSUME PollInv PROVE PollFlagIsRight OBVIOUS
<1> DEFINE counts ==
      {q \in queries : \/ q.kind = "poll" /\ q.token = token
                       \/ q.kind = "confirm" /\ q.candidate \in candidate}
<1>0. PollFlagIsRight <=> /\ ~stranded => WayOut
                          /\ counts # {} => inflight /\ Cardinality(counts) = 1
  BY DEF PollFlagIsRight
<1>1. ~stranded => WayOut
  BY DEF PollInv, FlagComesDown, CandidateEnds, WayOut, Counts, PollCounts, ConfirmCounts
<1>2. ASSUME counts # {} PROVE inflight /\ Cardinality(counts) = 1
  <2>1. \A q \in counts : q \in queries /\ Counts(q)
    BY DEF Counts, PollCounts, ConfirmCounts
  <2>2. PICK q \in counts : TRUE BY <1>2
  <2>3. inflight BY <2>1, <2>2 DEF PollInv, FlagIsUp
  <2>4. \A r \in counts : r = q BY <2>1, <2>2 DEF PollInv, OneCounts
  <2> HIDE DEF counts
  <2>5. counts = {q} BY <2>2, <2>4
  <2>6. Cardinality({q}) = 1 BY FS_Singleton
  <2> QED BY <2>3, <2>5, <2>6
<1> HIDE DEF counts
<1> QED BY <1>0, <1>1, <1>2

(* What the handlers of the poll's results keep between them: of all queries
   only the present one counts, the flag is up for it, and the candidate of
   a recovery is being confirmed or has its timer.                        *)
THEOREM PollInvariant == Spec => []PollInv
BY PollInvInit, PollInvStep, PTL DEF Spec

(* Whatever keeps the companion from polling is taken back by something
   under way, and no two queries of it ever overlap: for any servers, any
   number of stays and any order of the results (window.py,
   _submit_server_companion_poll and the handlers of its results).         *)
THEOREM PollFlagRight == Spec => []PollFlagIsRight
BY PollInvariant, PollInvIsRight, PTL

-----------------------------------------------------------------------------
(* The learner's sessions. *)
LEMMA LearnInvInit == Init => LearnInv
BY DEF Init, LearnInv

LEMMA LearnRests ==
  ASSUME LearnInv, UNCHANGED <<server, token, learning, sessions>>, timer' => timer
  PROVE  LearnInv'
BY DEF LearnInv, Session

(* A stay that ends ends the session, the only one there is. *)
LEMMA EndLeavesNone ==
  ASSUME LearnInv
  PROVE  EndSession(server) = {}
BY DEF LearnInv, EndSession

(* A stay that begins leaves its own session and no other. *)
LEMMA EnsureLeavesOne ==
  ASSUME NEW open, NEW s, NEW t, learning, \A x \in open : x.server = s
  PROVE  EnsureSession(open, s, t) = {Session(s, t)}
BY DEF EnsureSession

LEMMA EndKeepsLearnInv ==
  ASSUME LearnInv, sessions' = EndSession(server), timer' = FALSE
  PROVE  LearnInv'
BY EndLeavesNone DEF LearnInv

LEMMA StartKeepsLearnInv ==
  ASSUME LearnInv, server # NoServer, sessions' = EnsureSession(sessions, server, token),
         UNCHANGED <<server, token, learning>>
  PROVE  LearnInv'
<1>1. CASE learning
  <2>1. \A x \in sessions : x.server = server BY DEF LearnInv, Session
  <2>2. sessions' = {Session(server, token)} BY <1>1, <2>1, EnsureLeavesOne
  <2>3. Session(server, token)' = Session(server, token) BY DEF Session
  <2> QED BY <1>1, <2>2, <2>3 DEF LearnInv
<1>2. CASE ~learning
  BY <1>2 DEF LearnInv, EnsureSession
<1> QED BY <1>1, <1>2

(* A Join replaces the session of the server it leaves, or the earlier one
   of the server it stays with.                                           *)
LEMMA SelectKeepsLearnInv ==
  ASSUME LearnInv, NEW s \in Servers, SelectServer(s)
  PROVE  LearnInv'
<1> DEFINE left == IF s # server /\ server # NoServer THEN EndSession(server) ELSE sessions
<1>1. /\ sessions' = EnsureSession(left, s, token + 1)
      /\ server' = s /\ token' = token + 1 /\ learning' = learning
  BY DEF SelectServer
<1>2. s # NoServer BY ServersAssumption
<1>3. \A x \in left : x.server = s
  <2>1. CASE s # server
    BY <2>1, EndLeavesNone DEF LearnInv
  <2>2. CASE s = server
    BY <2>2 DEF LearnInv, Session
  <2> QED BY <2>1, <2>2
<1>4. left \subseteq sessions BY DEF EndSession
<1> HIDE DEF left
<1>5. CASE learning
  <2>1. sessions' = {Session(s, token + 1)} BY <1>1, <1>3, <1>5, EnsureLeavesOne
  <2>2. Session(server, token)' = Session(s, token + 1) BY <1>1 DEF Session
  <2> QED BY <1>1, <1>2, <1>5, <2>1, <2>2 DEF LearnInv
<1>6. CASE ~learning
  BY <1>1, <1>4, <1>6 DEF LearnInv, EnsureSession
<1> QED BY <1>5, <1>6

LEMMA LearnInvStep == LearnInv /\ [Next]_vars => LearnInv'
<1> SUFFICES ASSUME LearnInv, [Next]_vars PROVE LearnInv' OBVIOUS
<1> USE DEF polling, learner, history
<1>1. ASSUME NEW s \in Servers, SelectServer(s) PROVE LearnInv'
  BY <1>1, SelectKeepsLearnInv
<1>2. CASE ClearServer
  BY <1>2, EndKeepsLearnInv DEF ClearServer, StopPolling
<1>3. CASE Pause
  BY <1>3, EndKeepsLearnInv DEF Pause, Stops, StopPolling
<1>4. CASE Hide
  BY <1>4, EndKeepsLearnInv DEF Hide, Stops, StopPolling
<1>5. CASE Resume
  BY <1>5, StartKeepsLearnInv DEF Resume, Starts
<1>6. CASE Show
  <2>1. CASE server # NoServer /\ ~paused
    BY <1>6, <2>1, StartKeepsLearnInv DEF Show, Starts
  <2>2. CASE ~(server # NoServer /\ ~paused)
    BY <1>6, <2>2, LearnRests DEF Show
  <2> QED BY <2>1, <2>2
<1>7. CASE PollTick
  <2>1. CASE ShouldPoll(server)
    BY <1>7, <2>1, LearnRests DEF PollTick
  <2>2. CASE ~ShouldPoll(server)
    BY <1>7, <2>2, LearnRests DEF PollTick
  <2> QED BY <2>1, <2>2
<1>8. ASSUME NEW c \in candidate, BeginConfirmation(c) PROVE LearnInv'
  BY <1>8, LearnRests DEF BeginConfirmation
<1>9. ASSUME NEW q \in queries, PollResult(q) PROVE LearnInv'
  BY <1>9, LearnRests DEF PollResult
<1>10. ASSUME NEW q \in queries, ConfirmationResult(q) PROVE LearnInv'
  BY <1>10, LearnRests DEF ConfirmationResult
<1>11. CASE ToggleAlerts \/ ReleaseHeld \/ TimeStep
  <2>1. UNCHANGED <<server, token, timer, learning, sessions>>
    BY <1>11
       DEF ToggleAlerts, ReleaseHeld, TimeStep, StrikeGrowsOld, EngineAges, OnlineLongEnough
  <2> QED BY <2>1, LearnRests
<1>12. CASE UNCHANGED vars
  BY <1>12, LearnRests DEF vars
<1> QED
  BY <1>1, <1>2, <1>3, <1>4, <1>5, <1>6, <1>7, <1>8, <1>9, <1>10, <1>11, <1>12
     DEF Next, UserStep, ConfirmationTimer, ResultStep

(* What every change of the server, its generation or the timer keeps of the
   sessions the learner has open.                                         *)
THEOREM LearnInvariant == Spec => []LearnInv
BY LearnInvInit, LearnInvStep, PTL DEF Spec

(* While the companion polls, the learner has the session of exactly that
   server and generation open: no answer of the present stay is rejected for
   want of a session, and no earlier stay's session lingers (window.py,
   _record_server_companion_monitor_ended; ensure_monitoring_session).     *)
THEOREM LearnerHears == Spec => []LearnerListens
<1>1. LearnInv => LearnerListens BY DEF LearnInv, LearnerListens
<1> QED BY <1>1, LearnInvariant, PTL

-----------------------------------------------------------------------------
(* The alerts.  A state of them, as the handlers pass it on. *)
Alarms == [enabled: BOOLEAN, suppressed: BOOLEAN, since: {"none", "recent", "stable"},
           held: SUBSET Held]
Views == [online: BOOLEAN, strikes: 0..2, recent: BOOLEAN, offline: BOOLEAN,
          outage: 0..MaxOutage]
States == [alarm: Alarms, fired: SUBSET (Events \X Scores), alerts: SUBSET Alerts]

(* What has been announced and what is held, when the engine's event is
   "active" and n were opened, and the snapshot is v: a key remembers every
   event a recovery was announced for; what was announced or is held of the
   event under way belongs to an earlier outage when the server is offline;
   and the event and outage of a held alert have not been announced.      *)
Fits(st, active, v, n) ==
  /\ \A a \in st.alerts : a.heard /\ (~a.visible => ~a.repeats) /\ a.event <= n
  /\ \A a \in st.alerts : ~a.visible /\ a.event # 0 =>
       /\ \E k \in st.fired : k[1] = a.event
       /\ a.event = active =>
            a.outage <= v.outage /\ (v.offline => a.outage < v.outage)
  /\ \A h, g \in st.alarm.held : h = g
  /\ \A h \in st.alarm.held :
       /\ h.event <= n /\ h.outage <= v.outage
       /\ v.offline => h.outage < v.outage
       /\ \A a \in st.alerts : ~a.visible => a.event # h.event \/ a.outage # h.outage

LEMMA SameHeldFits ==
  ASSUME NEW st, NEW s, NEW active, NEW v, NEW n, Fits(st, active, v, n),
         s.fired = st.fired, s.alerts = st.alerts, s.alarm.held = st.alarm.held
  PROVE  Fits(s, active, v, n)
BY DEF Fits

(* Nothing is held any more. *)
LEMMA DropFits ==
  ASSUME NEW st, NEW s, NEW active, NEW v, NEW n, Fits(st, active, v, n),
         s.fired = st.fired, s.alerts = st.alerts, s.alarm.held = {}
  PROVE  Fits(s, active, v, n)
BY DEF Fits

(* An alert is given. *)
LEMMA GivenFits ==
  ASSUME NEW st \in States, NEW s, NEW active, NEW v, NEW n, Fits(st, active, v, n),
         NEW a \in Alerts, s.alerts = st.alerts \cup {a}, st.fired \subseteq s.fired,
         s.alarm.held = st.alarm.held,
         a.heard, a.event <= n,
         ~a.visible =>
           /\ ~a.repeats
           /\ a.event # 0 => \E k \in s.fired : k[1] = a.event
           /\ a.event # 0 /\ a.event = active => a.outage <= v.outage /\ ~v.offline
           /\ \A h \in st.alarm.held : a.event # h.event \/ a.outage # h.outage
  PROVE  Fits(s, active, v, n)
<1>1. \A b \in s.alerts : b.heard /\ (~b.visible => ~b.repeats) /\ b.event <= n
  BY DEF Fits
<1>2. \A b \in s.alerts : ~b.visible /\ b.event # 0 =>
        /\ \E k \in s.fired : k[1] = b.event
        /\ b.event = active =>
             b.outage <= v.outage /\ (v.offline => b.outage < v.outage)
  BY DEF Fits
<1>3. \A h, g \in s.alarm.held : h = g BY DEF Fits
<1>4. \A h \in s.alarm.held :
        /\ h.event <= n /\ h.outage <= v.outage
        /\ v.offline => h.outage < v.outage
        /\ \A b \in s.alerts : ~b.visible => b.event # h.event \/ b.outage # h.outage
  BY DEF Fits
<1>5. QED BY <1>1, <1>2, <1>3, <1>4 DEF Fits

LEMMA WithAlarm ==
  ASSUME NEW st \in States, NEW a \in Alarms
  PROVE  /\ [st EXCEPT !.alarm = a] \in States /\ [st EXCEPT !.alarm = a].alarm = a
         /\ [st EXCEPT !.alarm = a].fired = st.fired
         /\ [st EXCEPT !.alarm = a].alerts = st.alerts
BY DEF States

LEMMA SilencedIs ==
  ASSUME NEW st \in States
  PROVE  /\ Silenced(st) \in States /\ Silenced(st).fired = st.fired
         /\ Silenced(st).alerts = st.alerts /\ Silenced(st).alarm.held = st.alarm.held
<1> DEFINE loud == [st.alarm EXCEPT !.suppressed = TRUE]
           quiet == [loud EXCEPT !.since = "recent"]
<1>1. loud \in Alarms /\ loud.held = st.alarm.held BY DEF States, Alarms
<1>2. Silenced(st) = [st EXCEPT !.alarm = quiet] BY DEF Silenced, States
<1> HIDE DEF loud
<1>3. quiet \in Alarms /\ quiet.held = loud.held BY <1>1 DEF Alarms
<1> HIDE DEF quiet
<1>4. QED BY <1>1, <1>2, <1>3, WithAlarm

LEMMA GivenIs ==
  ASSUME NEW st \in States, NEW a \in Alerts
  PROVE  /\ [st EXCEPT !.alerts = @ \cup {a}] \in States
         /\ [st EXCEPT !.alerts = @ \cup {a}].alarm = st.alarm
         /\ [st EXCEPT !.alerts = @ \cup {a}].fired = st.fired
         /\ [st EXCEPT !.alerts = @ \cup {a}].alerts = st.alerts \cup {a}
BY DEF States

LEMMA EmitVisibleFits ==
  ASSUME NEW st \in States, NEW event \in Events, NEW period \in Scores,
         NEW active, NEW n \in Nat, Fits(st, active, view', n), event <= n, view' \in Views
  PROVE  /\ EmitVisible(st, event, period) \in States
         /\ Fits(EmitVisible(st, event, period), active, view', n)
<1> DEFINE marked == [st EXCEPT !.fired = @ \cup {Key(event, period)}]
<1>1. CASE ~st.alarm.enabled \/ Key(event, period) \in st.fired
  BY <1>1 DEF EmitVisible
<1>2. CASE ~(~st.alarm.enabled \/ Key(event, period) \in st.fired)
  <2>1. Key(event, period) \in Events \X Scores BY DEF Key
  <2>2. /\ marked \in States /\ marked.alarm = st.alarm /\ marked.alerts = st.alerts
        /\ st.fired \subseteq marked.fired
    BY <2>1 DEF States
  <2>3. EmitVisible(st, event, period) = Gives(marked, TRUE, event, TRUE)
    BY <1>2 DEF EmitVisible
  <2> HIDE DEF marked
  <2>4. event \in 0..MaxEvents BY EventsAssumption DEF Events
  <2> DEFINE s == Gives(marked, TRUE, event, TRUE)
             a == Told(TRUE, event, TRUE, marked.alerts)
             told == \E b \in marked.alerts :
                       event # 0 /\ b.event = event /\ b.outage = view'.outage /\ b.visible = TRUE
  <2>5. /\ a = [visible |-> TRUE, event |-> event, outage |-> view'.outage, heard |-> TRUE,
                repeats |-> told]
        /\ s = [marked EXCEPT !.alerts = @ \cup {a}]
        /\ told \in BOOLEAN
    BY DEF Told, Gives
  <2> HIDE DEF told, a, s
  <2>5a. a \in Alerts /\ a.visible = TRUE /\ a.event = event /\ a.heard = TRUE
    BY <2>4, <2>5 DEF Alerts, Views
  <2>6. s \in States /\ s.alarm = marked.alarm /\ s.fired = marked.fired
        /\ s.alerts = marked.alerts \cup {a}
    BY <2>2, <2>5, <2>5a, GivenIs
  <2>7. /\ s.alarm.held = st.alarm.held /\ st.fired \subseteq s.fired
        /\ s.alerts = st.alerts \cup {a}
    BY <2>2, <2>6
  <2>8. Fits(s, active, view', n) BY <2>5a, <2>7, GivenFits
  <2>9. QED BY <2>3, <2>6, <2>8 DEF s
<1>3. QED BY <1>1, <1>2

(* A recovery is announced that was not, while nothing else of it is held. *)
LEMMA EmitRecoveryFits ==
  ASSUME NEW st \in States, NEW event \in 0..MaxEvents, NEW period \in Scores,
         NEW heard \in BOOLEAN, NEW active, NEW n \in Nat, Fits(st, active, view', n),
         event <= n, heard, view' \in Views,
         event # 0 => \A a \in st.alerts :
                        ~a.visible => a.event # event \/ a.outage # view'.outage,
         \A h \in st.alarm.held : h.event # event \/ h.outage # view'.outage,
         event # 0 /\ event = active => ~view'.offline
  PROVE  /\ EmitRecovery(st, event, period, heard) \in States
         /\ Fits(EmitRecovery(st, event, period, heard), active, view', n)
<1> DEFINE quiet == Silenced(st)
           marked == [quiet EXCEPT !.fired = IF event = 0 THEN @ ELSE @ \cup {Key(event, period)}]
           s == Gives(marked, FALSE, event, heard)
<1>1. /\ quiet \in States /\ quiet.fired = st.fired
      /\ quiet.alerts = st.alerts /\ quiet.alarm.held = st.alarm.held
  BY SilencedIs
<1> HIDE DEF quiet
<1>2. Fits(quiet, active, view', n) BY <1>1, SameHeldFits
<1>3. /\ marked \in States /\ marked.alarm = quiet.alarm /\ marked.alerts = quiet.alerts
      /\ quiet.fired \subseteq marked.fired
      /\ event # 0 => Key(event, period) \in marked.fired
  <2>1. event # 0 => Key(event, period) \in Events \X Scores BY DEF Key, Events
  <2>2. QED BY <1>1, <2>1 DEF States
<1> HIDE DEF marked
<1> DEFINE a == Told(FALSE, event, heard, marked.alerts)
           told == \E b \in marked.alerts :
                     event # 0 /\ b.event = event /\ b.outage = view'.outage /\ b.visible = FALSE
<1>4a. /\ a = [visible |-> FALSE, event |-> event, outage |-> view'.outage, heard |-> heard,
              repeats |-> told]
       /\ s = [marked EXCEPT !.alerts = @ \cup {a}]
       /\ told \in BOOLEAN
  BY DEF Told, Gives
<1>4b. told => \E b \in marked.alerts :
         event # 0 /\ b.event = event /\ b.outage = view'.outage /\ ~b.visible
  OBVIOUS
<1> HIDE DEF told, a, s
<1>4. /\ a \in Alerts
      /\ a.visible = FALSE /\ a.event = event /\ a.heard = heard /\ a.outage = view'.outage
      /\ a.repeats = told
  BY <1>4a DEF Alerts, Views
<1>5. /\ s \in States /\ s.alarm = marked.alarm /\ s.fired = marked.fired
      /\ s.alerts = marked.alerts \cup {a}
  BY <1>3, <1>4, <1>4a, GivenIs
<1>6. ~a.repeats BY <1>1, <1>3, <1>4, <1>4b
<1>7. a.event # 0 => \E k \in s.fired : k[1] = a.event
  <2>1. Key(event, period)[1] = event BY DEF Key
  <2>2. QED BY <1>3, <1>4, <1>5, <2>1
<1>8. a.outage <= view'.outage BY <1>4 DEF Views
<1>9. /\ s.alerts = quiet.alerts \cup {a} /\ quiet.fired \subseteq s.fired
      /\ s.alarm.held = quiet.alarm.held
      /\ \A h \in quiet.alarm.held : a.event # h.event \/ a.outage # h.outage
  BY <1>1, <1>3, <1>4, <1>5
<1>10. a.event # 0 /\ a.event = active => a.outage <= view'.outage /\ ~view'.offline
  BY <1>4, <1>8
<1>11. Fits(s, active, view', n) BY <1>1, <1>2, <1>4, <1>6, <1>7, <1>9, <1>10, GivenFits
<1>12. \/ EmitRecovery(st, event, period, heard) = st
       \/ EmitRecovery(st, event, period, heard) = quiet
       \/ EmitRecovery(st, event, period, heard) = s
  BY DEF EmitRecovery, s, marked, quiet
<1>13. QED BY <1>1, <1>2, <1>5, <1>11, <1>12

LEMMA RearmedIs ==
  ASSUME NEW a \in Alarms, NEW online \in BOOLEAN, NEW healthy \in BOOLEAN
  PROVE  Rearmed(a, online, healthy) \in Alarms /\ Rearmed(a, online, healthy).held = a.held
<1>1. CASE ~a.suppressed BY <1>1 DEF Rearmed
<1>2. CASE a.suppressed /\ online /\ a.since = "stable"
  BY <1>2 DEF Rearmed, Alarms
<1>3. CASE a.suppressed /\ ~(online /\ a.since = "stable")
  <2> DEFINE since == IF ~healthy THEN "none" ELSE IF a.since = "none" THEN "recent" ELSE a.since
  <2>1. Rearmed(a, online, healthy) = [a EXCEPT !.since = since] BY <1>3 DEF Rearmed
  <2>2. since \in {"none", "recent", "stable"} BY DEF Alarms
  <2> HIDE DEF since
  <2>3. QED BY <2>1, <2>2 DEF Alarms
<1>4. QED BY <1>1, <1>2, <1>3 DEF Alarms

(* A finished event releases or drops the alert held of it. *)
LEMMA ResolveFits ==
  ASSUME NEW st \in States, NEW done, done.id \in Events, NEW period \in Scores,
         NEW active, NEW n \in Nat, Fits(st, active, view', n), done.id <= n, view' \in Views,
         view'.online => StillUp /\ ~view'.offline, Resolves(st, done)
  PROVE  /\ Resolve(st, done, period, view') \in States
         /\ Fits(Resolve(st, done, period, view'), active, view', n)
<1> DEFINE h == CHOOSE x \in st.alarm.held : TRUE
           dropped == [st EXCEPT !.alarm.held = {}]
           without == [st.alarm EXCEPT !.held = {}]
<1>1. h \in st.alarm.held /\ h.event = done.id BY DEF Resolves, Fits
<1>2. without \in Alarms /\ without.held = {} BY DEF States, Alarms
<1>3. dropped = [st EXCEPT !.alarm = without] OBVIOUS
<1>4. \/ Resolve(st, done, period, view') = dropped
      \/ /\ HeldIsCurrent(h, view')
         /\ Resolve(st, done, period, view') = EmitRecovery(dropped, done.id, period, StillUp)
  BY DEF Resolve
<1> HIDE DEF h, without, dropped
<1>5. /\ dropped \in States /\ dropped.alarm.held = {}
      /\ dropped.fired = st.fired /\ dropped.alerts = st.alerts
  BY <1>2, <1>3, WithAlarm
<1>6. Fits(dropped, active, view', n) BY <1>5, DropFits
<1>7. ASSUME HeldIsCurrent(h, view')
      PROVE  /\ EmitRecovery(dropped, done.id, period, StillUp) \in States
             /\ Fits(EmitRecovery(dropped, done.id, period, StillUp), active, view', n)
  <2>1. h.outage = view'.outage /\ view'.online BY <1>7 DEF HeldIsCurrent
  <2>2. \A a \in dropped.alerts : ~a.visible => a.event # done.id \/ a.outage # view'.outage
    BY <1>1, <1>5, <2>1 DEF Fits
  <2>3. StillUp /\ ~view'.offline BY <2>1
  <2>4. StillUp \in BOOLEAN BY DEF StillUp
  <2>5. done.id \in 0..MaxEvents BY EventsAssumption DEF Events
  <2>6. QED BY <1>5, <1>6, <2>2, <2>3, <2>4, <2>5, EmitRecoveryFits
<1>8. QED BY <1>4, <1>5, <1>6, <1>7

(* What a finished event announces by itself was not announced before. *)
LEMMA AfterFinalizedFits ==
  ASSUME NEW st \in States, NEW done, done.id \in Events, NEW period \in Scores,
         NEW active, NEW n \in Nat, Fits(st, active, view', n), done.id <= n, view' \in Views,
         view'.online => StillUp /\ ~view'.offline, done.id # active,
         NEW s \in AfterFinalized(st, done, period, view')
  PROVE  s \in States /\ Fits(s, active, view', n)
<1>1. CASE Resolves(st, done) /\ done.outcome # "unclear"
  <2>1. s = Resolve(st, done, period, view') BY <1>1 DEF AfterFinalized
  <2>2. QED BY <1>1, <2>1, ResolveFits
<1>2. CASE /\ ~(Resolves(st, done) /\ done.outcome # "unclear")
           /\ done.outcome = "visible"
  <2>1. s = EmitVisible(st, done.id, period) BY <1>2 DEF AfterFinalized
  <2>2. QED BY <2>1, EmitVisibleFits
<1>3. CASE /\ ~(Resolves(st, done) /\ done.outcome # "unclear")
           /\ done.outcome = "restart" /\ st.alarm.enabled /\ ~EventFired(st, done.id)
  <2> DEFINE marked == [st EXCEPT !.fired = @ \cup {Key(done.id, period)}]
             t == Gives(marked, FALSE, done.id, TRUE)
             a == Told(FALSE, done.id, TRUE, marked.alerts)
             told == \E b \in marked.alerts :
               done.id # 0 /\ b.event = done.id /\ b.outage = view'.outage /\ b.visible = FALSE
  <2>1. s = st \/ s = t BY <1>3 DEF AfterFinalized
  <2>2. /\ a = [visible |-> FALSE, event |-> done.id, outage |-> view'.outage, heard |-> TRUE,
                repeats |-> told]
        /\ t = [marked EXCEPT !.alerts = @ \cup {a}]
        /\ told \in BOOLEAN
    BY DEF Told, Gives
  <2>3. told => \E b \in marked.alerts : b.event = done.id /\ done.id # 0 /\ ~b.visible
    OBVIOUS
  <2>4. Key(done.id, period) \in Events \X Scores /\ Key(done.id, period)[1] = done.id
    BY DEF Key
  <2>5. /\ marked \in States /\ marked.alarm = st.alarm /\ marked.alerts = st.alerts
        /\ st.fired \subseteq marked.fired /\ Key(done.id, period) \in marked.fired
    BY <2>4 DEF States
  <2> HIDE DEF marked, t, a, told
  <2>6. done.id \in 0..MaxEvents BY EventsAssumption DEF Events
  <2>7. /\ a \in Alerts /\ a.visible = FALSE /\ a.event = done.id /\ a.heard = TRUE
        /\ a.repeats = told
    BY <2>2, <2>6 DEF Alerts, Views
  <2>8. /\ t \in States /\ t.alarm = marked.alarm /\ t.fired = marked.fired
        /\ t.alerts = marked.alerts \cup {a}
    BY <2>2, <2>5, <2>7, GivenIs
  <2>9. ~a.repeats
    BY <1>3, <2>3, <2>5, <2>7 DEF Fits, EventFired
  <2>10. \A h \in st.alarm.held : a.event # h.event
    BY <1>3, <2>7 DEF Resolves
  <2>11. /\ t.alerts = st.alerts \cup {a} /\ st.fired \subseteq t.fired
         /\ t.alarm.held = st.alarm.held
         /\ \E k \in t.fired : k[1] = a.event
    BY <2>4, <2>5, <2>7, <2>8
  <2>12. Fits(t, active, view', n) BY <2>7, <2>9, <2>10, <2>11, GivenFits
  <2>13. QED BY <2>1, <2>8, <2>12
<1>4. CASE s = st BY <1>4
<1>5. QED BY <1>1, <1>2, <1>3, <1>4 DEF AfterFinalized

(* A confirmed recovery is announced at once or held back. *)
LEMMA AfterRecoveryFits ==
  ASSUME NEW st \in States, NEW event \in 0..MaxEvents,
         NEW active, NEW n \in Nat, Fits(st, active, view', n), event <= n, view' \in Views,
         score \in Scores, answered' = "recovered", ~view'.offline,
         view.outage = view'.outage,
         event # 0 => HoldRecord(event) \in Held,
         event # 0 => \A a \in st.alerts :
                        ~a.visible => a.event # event \/ a.outage # view'.outage,
         \A h \in st.alarm.held : h.event # event \/ h.outage # view'.outage,
         NEW s \in AfterRecovery(st, event, view')
  PROVE  s \in States /\ Fits(s, active, view', n)
<1>1. CASE s = EmitRecovery(st, event, score, answered' = "recovered")
  <2> DEFINE heard == answered' = "recovered"
  <2>1. heard \in BOOLEAN /\ heard OBVIOUS
  <2>2. s = EmitRecovery(st, event, score, heard) BY <1>1
  <2> HIDE DEF heard
  <2>3. QED BY <2>1, <2>2, EmitRecoveryFits
<1>2. CASE event # 0 /\ s = [st EXCEPT !.alarm.held = {HoldRecord(event)}]
  <2> DEFINE h == HoldRecord(event)
             holding == [st.alarm EXCEPT !.held = {h}]
  <2>1. h \in Held /\ h.event = event /\ h.outage = view.outage BY <1>2 DEF HoldRecord
  <2>2. s = [st EXCEPT !.alarm = holding] BY <1>2
  <2> HIDE DEF h
  <2>3. holding \in Alarms /\ holding.held = {h} BY <2>1 DEF States, Alarms
  <2> HIDE DEF holding
  <2>4. /\ s \in States /\ s.alarm.held = {h} /\ s.fired = st.fired /\ s.alerts = st.alerts
    BY <2>2, <2>3, WithAlarm
  <2>5. h.outage <= view'.outage BY <2>1 DEF Views
  <2>6. Fits(s, active, view', n) BY <1>2, <2>1, <2>4, <2>5 DEF Fits
  <2>7. QED BY <2>4, <2>6
<1>3. QED BY <1>1, <1>2 DEF AfterRecovery

LEMMA OnFailureFits ==
  ASSUME NEW st \in States, NEW sample, view.online \in BOOLEAN
  PROVE  /\ OnFailure(st, sample) \in States
         /\ OnFailure(st, sample).alarm.held = st.alarm.held
         /\ OnFailure(st, sample).fired = st.fired /\ OnFailure(st, sample).alerts = st.alerts
<1> DEFINE new == IF sample = "failure" THEN Rearmed(st.alarm, view.online, FALSE) ELSE st.alarm
<1>1. st.alarm \in Alarms BY DEF States
<1>2. new \in Alarms /\ new.held = st.alarm.held BY <1>1, RearmedIs
<1>3. OnFailure(st, sample) = [st EXCEPT !.alarm = new] BY DEF OnFailure
<1> HIDE DEF new
<1>4. QED BY <1>2, <1>3, WithAlarm

LEMMA OnHealthyFits ==
  ASSUME NEW st \in States, NEW sample
  PROVE  /\ OnHealthy(st, sample) \in States
         /\ OnHealthy(st, sample).alarm.held = st.alarm.held
         /\ OnHealthy(st, sample).fired = st.fired /\ OnHealthy(st, sample).alerts = st.alerts
<1> DEFINE new == IF sample \in Healthy THEN Rearmed(st.alarm, TRUE, TRUE) ELSE st.alarm
<1>1. st.alarm \in Alarms BY DEF States
<1>2. new \in Alarms /\ new.held = st.alarm.held BY <1>1, RearmedIs
<1>3. OnHealthy(st, sample) = [st EXCEPT !.alarm = new] BY DEF OnHealthy
<1> HIDE DEF new
<1>4. QED BY <1>2, <1>3, WithAlarm

(* The alerts of an answer, one stage after another. *)
LEMMA AlertStatesFit ==
  ASSUME NEW st \in States, NEW sample \in Samples, NEW r, NEW confirmed \in BOOLEAN,
         NEW period \in Scores, NEW n \in Nat, NEW event \in 0..MaxEvents,
         event = ActiveEvent(r.engine), event <= n, Fits(st, event, view', n),
         view \in Views, view' \in Views, score \in Scores,
         view'.online => StillUp /\ ~view'.offline,
         Repopulated(r) => event # 0,
         confirmed /\ sample \in Healthy =>
           /\ answered' = "recovered" /\ ~view'.offline /\ view.outage = view'.outage
           /\ event # 0 => HoldRecord(event) \in Held
           /\ event # 0 => \A a \in st.alerts :
                             ~a.visible => a.event # event \/ a.outage # view'.outage
           /\ \A h \in st.alarm.held : h.event # event \/ h.outage # view'.outage,
         \A d \in r.done : d.id \in Events /\ d.id <= n /\ d.id # event,
         NEW s \in AlertStates(st, sample, r, confirmed, view', period)
  PROVE  s \in States /\ Fits(s, event, view', n)
<1> DEFINE failing == OnFailure(st, sample)
<1>1. PICK x \in OnRecovery(failing, sample, confirmed, event, view') :
        s \in OnFinalized(OnRepopulation(OnHealthy(x, sample), r, event, period),
                          r.done, period, view')
  BY DEF AlertStates
<1>2. /\ failing \in States /\ failing.alarm.held = st.alarm.held
      /\ failing.fired = st.fired /\ failing.alerts = st.alerts
  <2>1. view.online \in BOOLEAN BY DEF Views
  <2>2. QED BY <2>1, OnFailureFits
<1> HIDE DEF failing
<1>3. Fits(failing, event, view', n) BY <1>2, SameHeldFits
<1>4. x \in States /\ Fits(x, event, view', n)
  <2>1. CASE confirmed /\ sample \in Healthy
    <3>1. x \in AfterRecovery(failing, event, view') BY <1>1, <2>1 DEF OnRecovery
    <3>2. /\ answered' = "recovered" /\ ~view'.offline /\ view.outage = view'.outage
          /\ event # 0 => HoldRecord(event) \in Held
          /\ event # 0 => \A a \in failing.alerts :
                            ~a.visible => a.event # event \/ a.outage # view'.outage
          /\ \A h \in failing.alarm.held : h.event # event \/ h.outage # view'.outage
      BY <1>2, <2>1
    <3>3. QED BY <1>2, <1>3, <3>1, <3>2, AfterRecoveryFits
  <2>2. CASE ~(confirmed /\ sample \in Healthy)
    <3>1. x = failing BY <1>1, <2>2 DEF OnRecovery
    <3>2. QED BY <1>2, <1>3, <3>1
  <2>3. QED BY <2>1, <2>2
<1> DEFINE y == OnHealthy(x, sample)
           z == OnRepopulation(y, r, event, period)
<1>5. /\ y \in States /\ y.alarm.held = x.alarm.held
      /\ y.fired = x.fired /\ y.alerts = x.alerts
  BY <1>4, OnHealthyFits
<1> HIDE DEF y
<1>6. Fits(y, event, view', n) BY <1>4, <1>5, SameHeldFits
<1>7. z \in States /\ Fits(z, event, view', n)
  <2>1. CASE Repopulated(r)
    <3>1. z = EmitVisible(y, event, period) BY <2>1 DEF OnRepopulation
    <3>2. event \in Events BY <2>1, EventsAssumption DEF Events
    <3>3. QED BY <1>5, <1>6, <3>1, <3>2, EmitVisibleFits
  <2>2. CASE ~Repopulated(r) BY <1>5, <1>6, <2>2 DEF OnRepopulation
  <2>3. QED BY <2>1, <2>2
<1>8. s \in OnFinalized(z, r.done, period, view') BY <1>1 DEF y
<1> HIDE DEF z
<1>9. CASE r.done = {} BY <1>7, <1>8, <1>9 DEF OnFinalized
<1>10. CASE r.done # {}
  <2>1. PICK d \in r.done : s \in AfterFinalized(z, d, period, view')
    BY <1>8, <1>10 DEF OnFinalized
  <2>2. d.id \in Events /\ d.id <= n /\ d.id # event OBVIOUS
  <2>3. QED BY <1>7, <2>1, <2>2, AfterFinalizedFits
<1>11. QED BY <1>9, <1>10

-----------------------------------------------------------------------------
(* The engine.  An idle one opens at most the next event, or finishes it at
   once.                                                                  *)
OpensOnly(r, id) ==
  /\ r.engine \in Engines
  /\ \A ep \in r.engine.episode : ep.id = id
  /\ r.done # {} => r.engine.episode = {}
  /\ \A d \in r.done : d.id = id /\ id \in Events

LEMMA KeepsOpensOnly ==
  ASSUME NEW e \in Engines, e.episode = {}, NEW id
  PROVE  OpensOnly(Keeps(e), id)
BY DEF OpensOnly, Keeps

LEMMA OpenOpensOnly ==
  ASSUME NEW id \in Events, NEW failures \in {0, 2}
  PROVE  OpensOnly(Keeps(OpenEpisode(id, failures)), id)
<1> DEFINE ep == [id |-> id, failures |-> failures, recent |-> FALSE,
                  returned |-> FALSE, ripe |-> FALSE]
           e == [pending |-> "none", drain |-> "none", episode |-> {ep}]
<1>1. ep \in Episodes /\ ep.id = id BY DEF Episodes
<1>2. OpenEpisode(id, failures) = e BY DEF OpenEpisode, Idle
<1> HIDE DEF ep
<1>3. e \in Engines /\ e.episode = {ep} BY <1>1 DEF Engines
<1> HIDE DEF e
<1>4. Keeps(e).engine = e /\ Keeps(e).done = {} BY DEF Keeps
<1>5. QED BY <1>1, <1>2, <1>3, <1>4 DEF OpensOnly

LEMMA ObservingOpensOnly ==
  ASSUME NEW e \in Engines, e.episode = {}, NEW sample \in Healthy, NEW id,
         NEW r \in ObservesPlayers(e, sample, id)
  PROVE  OpensOnly(r, id)
<1> DEFINE To(d) == [e EXCEPT !.pending = "none", !.drain = d]
<1>1. \/ \E d \in DrainAfter(e.drain, sample) : r = Keeps(To(d))
      \/ id \in Events /\ r = UnclearDrain(id)
      \/ id \in Events /\ r = Keeps(OpenEpisode(id, 0))
  BY DEF ObservesPlayers
<1>2. CASE \E d \in DrainAfter(e.drain, sample) : r = Keeps(To(d))
  <2>1. PICK d \in DrainAfter(e.drain, sample) : r = Keeps(To(d)) BY <1>2
  <2>2. d \in {"none", "forming", "qualified"}
    <3>1. e.drain \in {"none", "forming", "qualified"} BY DEF Engines
    <3>2. QED BY <2>1, <3>1 DEF DrainAfter, DrainFromHistory, StandaloneQualified
  <2> DEFINE to == To(d)
  <2>3. to \in Engines /\ to.episode = {} BY <2>2 DEF Engines
  <2>4. r = Keeps(to) BY <2>1
  <2> HIDE DEF to
  <2>5. QED BY <2>3, <2>4, KeepsOpensOnly
<1>3. CASE id \in Events /\ r = UnclearDrain(id)
  <2>1. Idle \in Engines /\ Idle.episode = {} BY DEF Idle, Engines
  <2>2. r.engine = Idle /\ \A d \in r.done : d.id = id BY <1>3 DEF UnclearDrain
  <2>3. QED BY <1>3, <2>1, <2>2 DEF OpensOnly
<1>4. CASE id \in Events /\ r = Keeps(OpenEpisode(id, 0))
  BY <1>4, OpenOpensOnly
<1>5. QED BY <1>1, <1>2, <1>3, <1>4

LEMMA IdleOpensOnly ==
  ASSUME NEW e \in Engines, e.episode = {}, NEW sample \in Samples, NEW id,
         NEW r \in ConsumeIdle(e, sample, id)
  PROVE  OpensOnly(r, id)
<1>1. CASE sample = "failure" /\ Pending(e)
  <2>1. id \in Events /\ r = Keeps(OpenEpisode(id, 2)) BY <1>1 DEF ConsumeIdle, Healthy
  <2>2. QED BY <2>1, OpenOpensOnly
<1>2. CASE sample = "failure" /\ ~Pending(e)
  <2>1. PICK d \in {e.drain, "none"} : r = Keeps([e EXCEPT !.pending = "recent", !.drain = d])
    BY <1>2 DEF ConsumeIdle, Healthy
  <2> DEFINE to == [e EXCEPT !.pending = "recent", !.drain = d]
  <2>2. to \in Engines /\ to.episode = {} BY DEF Engines
  <2>3. r = Keeps(to) BY <2>1
  <2> HIDE DEF to
  <2>4. QED BY <2>2, <2>3, KeepsOpensOnly
<1>3. CASE sample = "neutral"
  <2> DEFINE to == [e EXCEPT !.drain = "none"]
  <2>1. r = Keeps(to) BY <1>3 DEF ConsumeIdle, Healthy
  <2>2. to \in Engines /\ to.episode = {} BY DEF Engines
  <2> HIDE DEF to
  <2>3. QED BY <2>1, <2>2, KeepsOpensOnly
<1>4. CASE sample \in Healthy
  <2>1. r \in ObservesPlayers(e, sample, id) BY <1>4 DEF ConsumeIdle, Healthy
  <2>2. QED BY <1>4, <2>1, ObservingOpensOnly
<1>5. QED BY <1>1, <1>2, <1>3, <1>4 DEF Samples

(* What an answer does to the engine: the event under way stays or is
   finished, and what is opened is the next one.                          *)
EngineMoves(e, r, id) ==
  /\ r.engine \in Engines
  /\ \A ep \in r.engine.episode : ep.id = id \/ \E old \in e.episode : ep.id = old.id
  /\ \A d \in r.done : d.id \in Events /\ (d.id = id \/ \E old \in e.episode : d.id = old.id)
  /\ \A d \in r.done, ep \in r.engine.episode : d.id # ep.id
  /\ Repopulated(r) => r.engine.episode # {}

LEMMA OpensMoves ==
  ASSUME NEW e, NEW r, NEW id, OpensOnly(r, id)
  PROVE  EngineMoves(e, r, id)
BY DEF OpensOnly, EngineMoves, Repopulated

LEMMA ThenIdleMoves ==
  ASSUME NEW e, NEW ep \in Episodes, e.episode = {ep}, NEW outcomes, NEW sample \in Samples,
         NEW id, ep.id # id, NEW r \in ThenIdle(ep, outcomes, sample, id)
  PROVE  EngineMoves(e, r, id)
<1>1. PICK o \in outcomes, q \in ConsumeIdle(Idle, sample, id) :
        r = [engine |-> q.engine, done |-> Finalize(ep, o).done \cup q.done]
  BY DEF ThenIdle
<1>2. Idle \in Engines /\ Idle.episode = {} BY DEF Idle, Engines
<1>3. OpensOnly(q, id) BY <1>2, IdleOpensOnly
<1>4. /\ r.engine = q.engine
      /\ \A d \in r.done : d.id = ep.id \/ d \in q.done
  BY <1>1 DEF Finalize
<1>5. ep.id \in Events BY DEF Episodes
<1>6. QED BY <1>3, <1>4, <1>5 DEF OpensOnly, EngineMoves, Repopulated

LEMMA StaysMoves ==
  ASSUME NEW e \in Engines, NEW ep \in Episodes, NEW new \in Episodes, e.episode = {ep},
         new.id = ep.id, NEW id, NEW r, r = Keeps(With(e, new))
  PROVE  EngineMoves(e, r, id)
<1> DEFINE to == [e EXCEPT !.episode = {new}]
<1>1. to \in Engines /\ to.episode = {new} BY DEF Engines
<1>2. r.engine = to /\ r.done = {} BY DEF Keeps, With
<1> HIDE DEF to
<1>3. QED BY <1>1, <1>2 DEF EngineMoves, Repopulated

LEMMA WithFailures ==
  ASSUME NEW ep \in Episodes, NEW failures \in 0..2, NEW recent \in BOOLEAN
  PROVE  /\ [ep EXCEPT !.failures = failures, !.recent = recent] \in Episodes
         /\ [ep EXCEPT !.failures = failures, !.recent = recent].id = ep.id
BY DEF Episodes

LEMMA RecordsOnly ==
  ASSUME NEW ep \in Episodes
  PROVE  RecordFailure(ep) \in Episodes /\ RecordFailure(ep).id = ep.id
<1> DEFINE failures == IF ep.failures = 0 THEN 1 ELSE IF ep.recent THEN 2 ELSE 1
           recent == IF ep.failures = 0 THEN TRUE ELSE ~ep.recent
<1>1. ep.failures \in 0..2 BY DEF Episodes
<1>2. failures \in 0..2 OBVIOUS
<1>2a. recent \in BOOLEAN OBVIOUS
<1>3. \/ RecordFailure(ep) = ep
      \/ RecordFailure(ep) = [ep EXCEPT !.failures = failures, !.recent = recent]
  <2>1. CASE ep.failures = 0 BY <2>1 DEF RecordFailure
  <2>2. CASE ep.failures = 1 BY <2>2 DEF RecordFailure
  <2>3. CASE ep.failures = 2 BY <2>3 DEF RecordFailure
  <2>4. QED BY <1>1, <2>1, <2>2, <2>3
<1> HIDE DEF failures, recent
<1> DEFINE new == [ep EXCEPT !.failures = failures, !.recent = recent]
<1>4. new \in Episodes /\ new.id = ep.id BY <1>2, <1>2a, WithFailures
<1> HIDE DEF new
<1>5. RecordFailure(ep) = ep \/ RecordFailure(ep) = new BY <1>3 DEF new
<1>6. QED BY <1>4, <1>5

LEMMA IngestMoves ==
  ASSUME NEW e \in Engines, NEW sample \in Samples, NEW id,
         \A ep \in e.episode : ep.id # id, NEW r \in Ingest(e, sample, id)
  PROVE  EngineMoves(e, r, id)
<1>1. CASE e.episode = {}
  <2>1. r \in ConsumeIdle(e, sample, id) BY <1>1 DEF Ingest
  <2>2. QED BY <1>1, <2>1, IdleOpensOnly, OpensMoves
<1>2. CASE e.episode # {}
  <2>1. PICK ep \in Episodes : e.episode = {ep} BY <1>2 DEF Engines
  <2>2. ep = CHOOSE x \in e.episode : TRUE BY <2>1
  <2>3. ep.id # id BY <2>1
  <2>4. \/ r \in ThenIdle(ep, Classified(ep), sample, id)
        \/ r \in ConsumeActive(e, ep, sample)
        \/ r \in ThenIdle(ep, {"unclear"}, sample, id)
    BY <1>2, <2>2 DEF Ingest
  <2>5. CASE r \in ConsumeActive(e, ep, sample)
    <3>1. CASE r = Keeps(e)
      <4>1. r.engine = e /\ r.done = {} BY <3>1 DEF Keeps
      <4>2. QED BY <1>2, <4>1 DEF EngineMoves
    <3>2. CASE r \in VisibleRecovery(e, ep, sample) /\ r # Keeps(e)
      <4>1. PICK o \in Classified(ep) : r = Finalize(ep, o) BY <3>2 DEF VisibleRecovery
      <4>2. Idle \in Engines /\ Idle.episode = {} BY DEF Idle, Engines
      <4>3. r.engine = Idle /\ \A d \in r.done : d.id = ep.id BY <4>1 DEF Finalize
      <4>4. ep.id \in Events BY DEF Episodes
      <4>5. QED BY <2>1, <4>2, <4>3, <4>4 DEF EngineMoves, Repopulated
    <3>3. CASE r = Keeps(With(e, RecordFailure(ep)))
      <4>1. RecordFailure(ep) \in Episodes /\ RecordFailure(ep).id = ep.id BY RecordsOnly
      <4>2. QED BY <2>1, <3>3, <4>1, StaysMoves
    <3>4. CASE r = Keeps(With(e, [ep EXCEPT !.returned = TRUE]))
      <4> DEFINE new == [ep EXCEPT !.returned = TRUE]
      <4>1. new \in Episodes /\ new.id = ep.id BY DEF Episodes
      <4>2. r = Keeps(With(e, new)) BY <3>4
      <4> HIDE DEF new
      <4>3. QED BY <2>1, <4>1, <4>2, StaysMoves
    <3>5. ep.failures \in 0..2 BY DEF Episodes
    <3>6. \/ r = Keeps(e) \/ r \in VisibleRecovery(e, ep, sample)
          \/ r = Keeps(With(e, RecordFailure(ep)))
          \/ r = Keeps(With(e, [ep EXCEPT !.returned = TRUE]))
      BY <2>5, <3>5 DEF ConsumeActive, Samples, Healthy
    <3>7. QED BY <3>1, <3>2, <3>3, <3>4, <3>6
  <2>6. QED BY <2>1, <2>3, <2>4, <2>5, ThenIdleMoves
<1>3. QED BY <1>1, <1>2

-----------------------------------------------------------------------------
(* The invariant of the alerts, part by part. *)
Now == [alarm |-> alarm, fired |-> fired, alerts |-> alerts]

AlertTyped ==
  /\ server \in Servers \cup {NoServer} /\ token \in 0..MaxToken
  /\ view \in Views /\ engine \in Engines /\ opened \in Nat /\ score \in Scores
  /\ Now \in States
  /\ answered \in {"up", "down_once", "down", "back", "recovered"}

(* What the server has answered fits what the companion shows of it, *)
ViewFits ==
  /\ view.strikes = 2 => ~view.online /\ ~view.recent /\ view.offline
  /\ view.recent => view.strikes = 1
  /\ view.online => ~view.offline
  /\ answered = "up" => view.strikes = 0 \/ (view.strikes = 1 /\ ~view.recent)
  /\ answered = "down_once" => view.strikes = 1 /\ view.recent
  /\ answered \in {"down", "back"} => view.strikes = 2
  /\ answered = "recovered" => view.strikes = 2 \/ (view.online /\ view.strikes = 0)

(* a query that counts asks the monitored server, and while a candidate
   waits for its confirmation no other answer comes,                      *)
QueriesFit ==
  /\ \A q \in queries : q.kind = "poll" /\ q.token = token => q.server = server
  /\ \A q \in queries : q.kind = "confirm" => q.server = q.candidate.server
  /\ candidate # {} =>
       /\ answered \in {"back", "recovered"}
       /\ \A q \in queries : q.kind = "poll" => q.token # token

(* an event under way is one of a session that is open, *)
EngineFits ==
  /\ engine.episode # {} => sessions # {}
  /\ \A ep \in engine.episode : ep.id <= opened

(* and the alerts fit all that. *)
AlertsFit == Fits(Now, ActiveEvent(engine), view, opened)

AlertInv == AlertTyped /\ ViewFits /\ QueriesFit /\ EngineFits /\ AlertsFit

LEMMA NowIs ==
  /\ Now.alarm = alarm /\ Now.fired = fired /\ Now.alerts = alerts
  /\ Now \in States <=> alarm \in Alarms /\ fired \subseteq (Events \X Scores)
                          /\ alerts \subseteq Alerts
BY DEF Now, States

LEMMA ActiveIs ==
  ASSUME NEW e \in Engines
  PROVE  /\ ActiveEvent(e) \in 0..MaxEvents
         /\ e.episode = {} => ActiveEvent(e) = 0
         /\ \A ep \in e.episode : ep.id = ActiveEvent(e) /\ ep.id \in Events
         /\ e.episode # {} => ActiveEvent(e) # 0
<1>1. CASE e.episode = {} BY <1>1, EventsAssumption DEF ActiveEvent
<1>2. CASE e.episode # {}
  <2>1. PICK ep \in Episodes : e.episode = {ep} BY <1>2 DEF Engines
  <2>2. ActiveEvent(e) = ep.id BY <1>2, <2>1 DEF ActiveEvent
  <2>3. ep.id \in Events BY DEF Episodes
  <2>4. ep.id \in 0..MaxEvents /\ ep.id # 0 BY <2>3, EventsAssumption DEF Events
  <2>5. QED BY <2>1, <2>2, <2>3, <2>4
<1>3. QED BY <1>1, <1>2

(* Nothing of it moves that matters, or a stay ends. *)
LEMMA FitsRest ==
  ASSUME NEW st, NEW s, NEW active, NEW next, NEW v, NEW w, NEW n, Fits(st, active, v, n),
         s.fired = st.fired, s.alerts = st.alerts,
         \/ /\ s.alarm.held = st.alarm.held /\ w.outage = v.outage /\ w.offline = v.offline
            /\ next \in {0, active}
         \/ s.alarm.held = {} /\ next = 0
  PROVE  Fits(s, next, w, n)
BY DEF Fits

LEMMA WithView ==
  ASSUME NEW v \in Views, NEW strikes \in 0..2, NEW recent \in BOOLEAN, NEW online \in BOOLEAN,
         NEW offline \in BOOLEAN, NEW w,
         \/ \E outage \in 0..MaxOutage :
              w = [v EXCEPT !.strikes = strikes, !.recent = recent, !.online = online,
                            !.offline = offline, !.outage = outage]
         \/ w = [v EXCEPT !.online = online, !.strikes = strikes, !.recent = recent,
                          !.offline = offline]
         \/ w = [v EXCEPT !.strikes = strikes, !.recent = recent]
  PROVE  w \in Views
BY DEF Views

(* The snapshot after a failure, a neutral answer, a healthy one. *)
Struck(v) == v.strikes = 2 \/ (v.strikes = 1 /\ v.recent)

LEMMA FailureShown ==
  ASSUME NEW v \in Views, NEW w, w = AfterFailure(v), w.outage <= MaxOutage
  PROVE  /\ w \in Views
         /\ Struck(v) => /\ w.strikes = 2 /\ ~w.recent /\ ~w.online /\ w.offline
                         /\ w.outage = IF v.offline THEN v.outage ELSE v.outage + 1
         /\ ~Struck(v) => /\ w.strikes = 1 /\ w.recent
                          /\ w.online = v.online /\ w.offline = v.offline
                          /\ w.outage = v.outage
<1> DEFINE outage == IF v.offline THEN v.outage ELSE v.outage + 1
<1>1. CASE Struck(v)
  <2>1. w = [v EXCEPT !.strikes = 2, !.recent = FALSE, !.online = FALSE, !.offline = TRUE,
                      !.outage = outage]
    BY <1>1 DEF AfterFailure, Struck
  <2>2. v.outage \in Nat /\ MaxOutage \in Nat BY BoundsAssumption DEF Views
  <2>3. outage \in Nat BY <2>2
  <2> HIDE DEF outage
  <2>4. /\ w.strikes = 2 /\ ~w.recent /\ ~w.online /\ w.offline /\ w.outage = outage
    BY <2>1 DEF Views
  <2>5. outage \in 0..MaxOutage BY <2>2, <2>3, <2>4
  <2> DEFINE strikes == 2
             yes == TRUE
             no == FALSE
  <2>6a. strikes \in 0..2 /\ yes \in BOOLEAN /\ no \in BOOLEAN OBVIOUS
  <2>6b. w = [v EXCEPT !.strikes = strikes, !.recent = no, !.online = no, !.offline = yes,
                       !.outage = outage]
    BY SMTT(30), <2>1
  <2> HIDE DEF strikes, yes, no
  <2>6. w \in Views BY ZenonT(60), <2>5, <2>6a, <2>6b, WithView
  <2>7. QED BY <1>1, <2>4, <2>6 DEF outage
<1>2. CASE ~Struck(v)
  <2>1. w = [v EXCEPT !.strikes = 1, !.recent = TRUE] BY <1>2 DEF AfterFailure, Struck
  <2>2. w.strikes = 1 /\ w.recent BY <2>1 DEF Views
  <2>3. w.online = v.online /\ w.offline = v.offline /\ w.outage = v.outage BY <2>1 DEF Views
  <2> DEFINE strikes == 1
             yes == TRUE
  <2>4. strikes \in 0..2 /\ yes \in BOOLEAN OBVIOUS
  <2>5. w = [v EXCEPT !.strikes = strikes, !.recent = yes] BY <2>1
  <2> HIDE DEF strikes, yes
  <2>6. w \in Views BY <2>4, <2>5, WithView
  <2>7. QED BY <1>2, <2>2, <2>3, <2>6
<1>3. QED BY <1>1, <1>2

LEMMA NeutralShown ==
  ASSUME NEW v \in Views, NEW w, w = AfterNeutral(v)
  PROVE  /\ w \in Views /\ w.outage = v.outage
         /\ w.online = v.online /\ w.offline = v.offline /\ w.recent = v.recent
         /\ v.strikes = 1 /\ ~v.recent => w.strikes = 0
         /\ ~(v.strikes = 1 /\ ~v.recent) => w.strikes = v.strikes
<1>1. CASE v.strikes = 1 /\ ~v.recent
  <2>1. w = [v EXCEPT !.strikes = 0] BY <1>1 DEF AfterNeutral
  <2>2. QED BY <1>1, <2>1 DEF Views
<1>2. CASE ~(v.strikes = 1 /\ ~v.recent) BY <1>2 DEF AfterNeutral
<1>3. QED BY <1>1, <1>2

LEMMA HealthyShown ==
  ASSUME NEW v \in Views, NEW w, w = AfterHealthy(v)
  PROVE  /\ w \in Views /\ w.outage = v.outage
         /\ w.online /\ w.strikes = 0 /\ ~w.recent /\ ~w.offline
<1>1. w = [v EXCEPT !.online = TRUE, !.strikes = 0, !.recent = FALSE, !.offline = FALSE]
  BY DEF AfterHealthy
<1>2. w.outage = v.outage /\ w.strikes = 0 BY <1>1 DEF Views
<1>3. w.online /\ ~w.recent /\ ~w.offline BY <1>1 DEF Views
<1> DEFINE strikes == 0
           yes == TRUE
           no == FALSE
<1>4. strikes \in 0..2 /\ yes \in BOOLEAN /\ no \in BOOLEAN OBVIOUS
<1>5. w = [v EXCEPT !.online = yes, !.strikes = strikes, !.recent = no, !.offline = no]
  BY SMTT(30), <1>1
<1> HIDE DEF strikes, yes, no
<1>6. w \in Views BY <1>4, <1>5, WithView
<1>7. QED BY <1>2, <1>3, <1>6

LEMMA ViewMoves ==
  ASSUME NEW v \in Views, NEW sample \in Samples, NEW w, w = ViewAfter(v, sample),
         w.outage <= MaxOutage
  PROVE  /\ w \in Views /\ w.outage >= v.outage
         /\ w.offline => w.outage > v.outage \/ v.offline
         /\ sample \in Healthy => ~w.offline /\ w.outage = v.outage
<1>0. v.outage \in Nat BY DEF Views
<1>1. CASE sample = "failure"
  <2>1. w = AfterFailure(v) BY <1>1 DEF ViewAfter
  <2>2. QED BY <1>0, <1>1, <2>1, FailureShown DEF Healthy
<1>2. CASE sample = "neutral"
  <2>1. w = AfterNeutral(v) BY <1>2 DEF ViewAfter
  <2>2. QED BY <1>0, <1>2, <2>1, NeutralShown DEF Healthy
<1>3. CASE sample \in Healthy
  <2>1. w = AfterHealthy(v) BY <1>3 DEF ViewAfter, Healthy
  <2>2. QED BY <1>0, <2>1, HealthyShown
<1>4. QED BY <1>1, <1>2, <1>3 DEF Samples

(* An answer of the monitored server and what is shown of it go together. *)
LEMMA AnswerFits ==
  ASSUME AlertTyped, ViewFits, NEW sample \in Samples, answered' = Answer(Kind(sample)),
         view' = ViewAfter(view, sample), view'.outage <= MaxOutage,
         sample \in Healthy /\ view.strikes = 2 => answered \in {"back", "recovered"}
  PROVE  ViewFits' /\ answered' \in {"up", "down_once", "down", "back", "recovered"}
<1>0. /\ view \in Views /\ answered \in {"up", "down_once", "down", "back", "recovered"}
      /\ view.strikes \in 0..2
  BY DEF AlertTyped, Views
<1>1. CASE sample = "failure"
  <2>1. view' = AfterFailure(view) BY <1>1 DEF ViewAfter
  <2>2. answered' = Answer("failure") BY <1>1 DEF Kind, Healthy
  <2>3. CASE Struck(view)
    <3>1. view'.strikes = 2 /\ ~view'.recent /\ ~view'.online /\ view'.offline
      BY <1>0, <2>1, <2>3, FailureShown
    <3>2. answered' = "down"
      <4>1. answered # "up" BY <1>0, <2>3 DEF ViewFits, Struck
      <4>2. answered = "recovered" => ~view.online
        BY <1>0, <2>3 DEF ViewFits, Struck
      <4>3. QED BY <1>0, <2>2, <4>1, <4>2 DEF Answer
    <3>3. QED BY <3>1, <3>2 DEF ViewFits
  <2>4. CASE ~Struck(view)
    <3>1. /\ view'.strikes = 1 /\ view'.recent
          /\ view'.online = view.online /\ view'.offline = view.offline
      BY <1>0, <2>1, <2>4, FailureShown
    <3>2. answered' = "down_once"
      <4>1. answered \notin {"down_once", "down", "back"} BY <1>0, <2>4 DEF ViewFits, Struck
      <4>2. answered = "recovered" => view.online
        BY <1>0, <2>4 DEF ViewFits, Struck
      <4>3. QED BY <1>0, <2>2, <4>1, <4>2 DEF Answer
    <3>3. QED BY <3>1, <3>2 DEF ViewFits
  <2>5. QED BY <2>3, <2>4
<1>2. CASE sample = "neutral"
  <2>1. view' = AfterNeutral(view) BY <1>2 DEF ViewAfter
  <2>2. answered' = IF answered = "back" THEN "down" ELSE answered
    BY <1>2 DEF Kind, Healthy, Answer
  <2>3. /\ view'.online = view.online /\ view'.offline = view.offline
        /\ view'.recent = view.recent
        /\ view.strikes = 1 /\ ~view.recent => view'.strikes = 0
        /\ ~(view.strikes = 1 /\ ~view.recent) => view'.strikes = view.strikes
    BY <1>0, <2>1, NeutralShown
  <2>4. QED BY <1>0, <2>2, <2>3 DEF ViewFits
<1>3. CASE sample \in Healthy
  <2>1. view' = AfterHealthy(view) BY <1>3 DEF ViewAfter, Healthy
  <2>2. answered' = Answer("healthy") BY <1>3 DEF Kind
  <2>3. view'.online /\ view'.strikes = 0 /\ ~view'.recent /\ ~view'.offline
    BY <1>0, <2>1, HealthyShown
  <2>4. answered' \in {"up", "recovered"}
    BY <1>0, <1>3, <2>2 DEF Answer, ViewFits
  <2>5. QED BY <2>3, <2>4 DEF ViewFits
<1>4. QED BY <1>1, <1>2, <1>3 DEF Samples

(* An answer is applied: what it does to engine, snapshot and alerts. *)
LEMMA ApplyFits ==
  ASSUME AlertInv, LearnInv, server # NoServer, NEW sample \in Samples,
         NEW confirmed \in BOOLEAN, Apply(sample, confirmed), ViewFits',
         answered' \in {"up", "down_once", "down", "back", "recovered"},
         confirmed /\ sample \in Healthy => answered' = "recovered" /\ view.offline,
         UNCHANGED <<server, token, sessions, learning>>
  PROVE  AlertTyped' /\ EngineFits' /\ AlertsFit'
<1>0. /\ view \in Views /\ engine \in Engines /\ opened \in Nat /\ score \in Scores
      /\ Now \in States /\ server \in Servers /\ token \in 0..MaxToken
      /\ Fits(Now, ActiveEvent(engine), view, opened)
  BY DEF AlertInv, AlertTyped, AlertsFit
<1>1. PICK r \in Learns(sample), period \in Scores :
        /\ view' = ViewAfter(view, sample) /\ view'.outage <= MaxOutage
        /\ engine' = r.engine /\ score' = period
        /\ opened' = opened + (IF UsesId(r, opened + 1) THEN 1 ELSE 0)
        /\ \E st \in AlertStates([alarm |-> alarm, fired |-> fired, alerts |-> alerts],
                                 sample, r, confirmed, view', period) :
             alarm' = st.alarm /\ fired' = st.fired /\ alerts' = st.alerts
  BY DEF Apply
<1>2. PICK s \in AlertStates(Now, sample, r, confirmed, view', period) :
        alarm' = s.alarm /\ fired' = s.fired /\ alerts' = s.alerts
  BY <1>1 DEF Now
<1> DEFINE id == opened + 1
           event == ActiveEvent(r.engine)
           n == opened'
<1>3. \A ep \in engine.episode : ep.id <= opened /\ ep.id \in Events /\ ep.id = ActiveEvent(engine)
  BY <1>0, ActiveIs DEF AlertInv, EngineFits
<1>4. EngineMoves(engine, r, id) /\ (r.engine.episode # {} => sessions # {})
  <2>1. CASE Listens
    <3>1. r \in Ingest(engine, sample, id) BY <2>1 DEF Learns
    <3>2. \A ep \in engine.episode : ep.id # id BY <1>0, <1>3 DEF Events
    <3>3. EngineMoves(engine, r, id) BY <1>0, <3>1, <3>2, IngestMoves
    <3>4. QED BY <2>1, <3>3 DEF Listens
  <2>2. CASE ~Listens
    <3>1. r = [engine |-> engine, done |-> {}] BY <2>2 DEF Learns
    <3>2. r.engine = engine /\ r.done = {} BY <3>1
    <3>3. EngineMoves(engine, r, id) BY <1>0, <3>2 DEF EngineMoves, Repopulated
    <3>4. QED BY <3>2, <3>3 DEF AlertInv, EngineFits
  <2>3. QED BY <2>1, <2>2
<1>5. /\ r.engine \in Engines /\ event \in 0..MaxEvents
      /\ r.engine.episode = {} => event = 0
      /\ \A ep \in r.engine.episode : ep.id = event /\ ep.id \in Events
      /\ r.engine.episode # {} => event # 0
  <2>1. r.engine \in Engines BY <1>4 DEF EngineMoves
  <2>2. QED BY <2>1, ActiveIs
<1> HIDE DEF event
<1>6. /\ n \in Nat /\ opened <= n
      /\ UsesId(r, id) => n = id
  BY <1>0, <1>1
<1>7. event = 0 \/ (event = id /\ n = id) \/ (event = ActiveEvent(engine) /\ event <= opened)
  <2>1. CASE r.engine.episode = {} BY <1>5, <2>1
  <2>2. CASE r.engine.episode # {}
    <3>1. PICK ep \in r.engine.episode : TRUE BY <2>2
    <3>2. ep.id = event BY <1>5, <3>1
    <3>3. CASE ep.id = id
      <4>1. UsesId(r, id) BY <3>1, <3>3 DEF UsesId
      <4>2. QED BY <1>6, <3>2, <3>3, <4>1
    <3>4. CASE \E old \in engine.episode : ep.id = old.id
      BY <1>3, <3>2, <3>4
    <3>5. QED BY <1>4, <3>1, <3>3, <3>4 DEF EngineMoves
  <2>3. QED BY <2>1, <2>2
<1>8. event <= n BY <1>0, <1>5, <1>6, <1>7, EventsAssumption
<1>9. \A d \in r.done : d.id \in Events /\ d.id <= n /\ d.id # event
  <2> TAKE d \in r.done
  <2>1. d.id \in Events /\ (d.id = id \/ \E old \in engine.episode : d.id = old.id)
    BY <1>4 DEF EngineMoves
  <2>2. d.id # event
    <3>1. CASE r.engine.episode = {} BY <1>5, <2>1, <3>1 DEF Events
    <3>2. CASE r.engine.episode # {}
      BY <1>4, <1>5, <3>2 DEF EngineMoves
    <3>3. QED BY <3>1, <3>2
  <2>3. d.id = id => UsesId(r, id) BY DEF UsesId
  <2>4. d.id <= n BY <1>0, <1>3, <1>6, <2>1, <2>3 DEF Events
  <2>5. QED BY <2>1, <2>2, <2>4
<1>10. /\ view' \in Views /\ view'.outage >= view.outage
       /\ view'.offline => view'.outage > view.outage \/ view.offline
       /\ sample \in Healthy => ~view'.offline /\ view'.outage = view.outage
  BY <1>0, <1>1, ViewMoves
<1>11. /\ \A a \in Now.alerts : a.event \in Nat /\ a.outage \in Nat
       /\ \A h \in Now.alarm.held : h.event \in Nat /\ h.outage \in Nat
  BY <1>0, EventsAssumption, BoundsAssumption DEF States, Alarms, Alerts, Held, Events
<1>12. view.outage \in Nat /\ view'.outage \in Nat BY <1>0, <1>10 DEF Views
<1>12a. view'.outage >= view.outage BY <1>10
<1>12b. view'.offline => view'.outage > view.outage \/ view.offline BY <1>10
<1>13. \A a \in Now.alerts : ~a.visible /\ a.event # 0 /\ a.event = event =>
         a.outage <= view.outage /\ (view.offline => a.outage < view.outage)
  BY <1>0, <1>7, <1>11 DEF Fits
<1> HIDE DEF n
<1>14. Fits(Now, event, view', n)
  <2>1. \A a \in Now.alerts : a.heard /\ (~a.visible => ~a.repeats) /\ a.event <= n
    BY <1>0, <1>6, <1>11 DEF Fits
  <2>2. \A a \in Now.alerts : ~a.visible /\ a.event # 0 =>
          /\ \E k \in Now.fired : k[1] = a.event
          /\ a.event = event =>
               a.outage <= view'.outage /\ (view'.offline => a.outage < view'.outage)
    <3> TAKE a \in Now.alerts
    <3> HAVE ~a.visible /\ a.event # 0
    <3>1. \E k \in Now.fired : k[1] = a.event BY <1>0 DEF Fits
    <3>2. CASE a.event = event
      <4>1. a.outage <= view.outage /\ (view.offline => a.outage < view.outage)
        BY <1>13, <3>2
      <4>2. a.outage \in Nat BY <1>11
      <4>3. a.outage <= view'.outage BY <1>12, <1>12a, <4>1, <4>2
      <4>4. CASE view'.outage > view.outage
        <5>1. a.outage < view'.outage BY <1>12, <4>1, <4>2, <4>4
        <5>2. QED BY <3>1, <4>3, <5>1
      <4>5. CASE ~(view'.outage > view.outage)
        <5>1. view'.outage = view.outage BY <1>12, <1>12a, <4>5
        <5>2. view'.offline => view.offline BY <1>12b, <4>5
        <5>3. QED BY <3>1, <4>1, <4>3, <5>1, <5>2
      <4>6. QED BY <3>1, <4>4, <4>5
    <3>3. QED BY <3>1, <3>2
  <2>3. \A h, g \in Now.alarm.held : h = g BY <1>0 DEF Fits
  <2>4. \A h \in Now.alarm.held :
          /\ h.event <= n /\ h.outage <= view'.outage
          /\ view'.offline => h.outage < view'.outage
          /\ \A a \in Now.alerts : ~a.visible => a.event # h.event \/ a.outage # h.outage
    <3> TAKE h \in Now.alarm.held
    <3>1. h.event <= opened /\ h.outage <= view.outage
          /\ (view.offline => h.outage < view.outage)
      BY <1>0 DEF Fits
    <3>2. \A a \in Now.alerts : ~a.visible => a.event # h.event \/ a.outage # h.outage
      BY <1>0 DEF Fits
    <3>3. QED BY <1>0, <1>6, <1>10, <1>11, <1>12, <3>1, <3>2
  <2>5. QED BY <2>1, <2>2, <2>3, <2>4 DEF Fits
<1>15. confirmed /\ sample \in Healthy =>
         /\ answered' = "recovered" /\ ~view'.offline /\ view.outage = view'.outage
         /\ event # 0 => HoldRecord(event) \in Held
         /\ event # 0 => \A a \in Now.alerts :
                           ~a.visible => a.event # event \/ a.outage # view'.outage
         /\ \A h \in Now.alarm.held : h.event # event \/ h.outage # view'.outage
  <2> SUFFICES ASSUME confirmed /\ sample \in Healthy
               PROVE  /\ answered' = "recovered" /\ ~view'.offline /\ view.outage = view'.outage
                      /\ event # 0 => HoldRecord(event) \in Held
                      /\ event # 0 => \A a \in Now.alerts :
                           ~a.visible => a.event # event \/ a.outage # view'.outage
                      /\ \A h \in Now.alarm.held : h.event # event \/ h.outage # view'.outage
    OBVIOUS
  <2>1. answered' = "recovered" /\ view.offline /\ ~view'.offline /\ view.outage = view'.outage
    BY <1>10
  <2>2. ASSUME event # 0 PROVE HoldRecord(event) \in Held
    <3>1. event \in Events BY <1>5, <2>2, EventsAssumption DEF Events
    <3>2. view.outage \in 0..MaxOutage BY <1>0 DEF Views
    <3>3. QED BY <1>0, <3>1, <3>2 DEF HoldRecord, Held
  <2>3. ASSUME event # 0, NEW a \in Now.alerts, ~a.visible
        PROVE  a.event # event \/ a.outage # view'.outage
    BY <1>11, <1>12, <1>13, <2>1, <2>3
  <2>4. ASSUME NEW h \in Now.alarm.held PROVE h.outage # view'.outage
    <3>1. h.outage < view.outage BY <1>0, <2>1 DEF Fits
    <3>2. QED BY <1>11, <1>12, <2>1, <3>1
  <2>5. QED BY <2>1, <2>2, <2>3, <2>4
<1>16. view'.online => StillUp /\ ~view'.offline
  <2> SUFFICES ASSUME view'.online PROVE StillUp /\ ~view'.offline OBVIOUS
  <2>1. ~view'.offline /\ view'.strikes # 2 BY DEF ViewFits
  <2>2. answered' \notin {"down", "back"} BY <2>1 DEF ViewFits
  <2>3. QED BY <2>1, <2>2 DEF StillUp
<1>17. Repopulated(r) => event # 0 BY <1>4, <1>5 DEF EngineMoves
<1>18. s \in States /\ Fits(s, event, view', n)
  <2>1. event = ActiveEvent(r.engine) BY DEF event
  <2>2. n \in Nat BY <1>6 DEF n
  <2>3. QED BY <1>0, <1>2, <1>5, <1>8, <1>9, <1>10, <1>14, <1>15, <1>16, <1>17,
               <2>1, <2>2, AlertStatesFit DEF n
<1>19. Now' \in States /\ Fits(Now', event, view', n)
  <2>1. /\ Now'.alarm = s.alarm /\ Now'.fired = s.fired /\ Now'.alerts = s.alerts
        /\ Now' = [alarm |-> s.alarm, fired |-> s.fired, alerts |-> s.alerts]
    BY <1>2 DEF Now
  <2>2. Now' \in States BY <1>18, <2>1 DEF States
  <2>3. Fits(Now', event, view', n) BY <1>18, <2>1, SameHeldFits
  <2>4. QED BY <2>2, <2>3
<1>20. event = ActiveEvent(engine)' BY <1>1 DEF event
<1>21. AlertTyped'
  BY <1>0, <1>1, <1>5, <1>6, <1>10, <1>19 DEF AlertTyped, n
<1>22. EngineFits' BY <1>1, <1>4, <1>5, <1>8 DEF EngineFits, n
<1>23. AlertsFit' BY <1>19, <1>20 DEF AlertsFit, n
<1>24. QED BY <1>21, <1>22, <1>23

-----------------------------------------------------------------------------
(* The steps that give no alert. *)
LEMMA QuietFits ==
  ASSUME AlertInv, UNCHANGED <<fired, alerts, opened>>, alarm' \in Alarms,
         \/ /\ alarm'.held = alarm.held
            /\ view'.outage = view.outage /\ view'.offline = view.offline
            /\ ActiveEvent(engine') \in {0, ActiveEvent(engine)}
         \/ alarm'.held = {} /\ ActiveEvent(engine') = 0
  PROVE  Now' \in States /\ AlertsFit'
<1>1. Now \in States /\ Fits(Now, ActiveEvent(engine), view, opened)
  BY DEF AlertInv, AlertTyped, AlertsFit
<1>2. /\ Now'.alarm = alarm' /\ Now'.fired = Now.fired /\ Now'.alerts = Now.alerts
      /\ Now.alarm = alarm
  BY DEF Now
<1>3. Now' \in States BY <1>1 DEF Now, States
<1>4. Fits(Now', ActiveEvent(engine'), view', opened) BY <1>1, <1>2, FitsRest
<1>5. QED BY <1>3, <1>4 DEF AlertsFit

(* Nothing changes for the alerts. *)
AlertsRest ==
  UNCHANGED <<server, token, view, alarm, sessions, engine, opened, fired, score, alerts, answered>>

LEMMA RestKeepsAlerts ==
  ASSUME AlertInv, AlertsRest
  PROVE  AlertTyped' /\ ViewFits' /\ EngineFits' /\ AlertsFit'
<1>1. /\ server' = server /\ token' = token /\ view' = view /\ alarm' = alarm
      /\ sessions' = sessions /\ engine' = engine /\ opened' = opened /\ fired' = fired
      /\ score' = score /\ alerts' = alerts /\ answered' = answered
  BY DEF AlertsRest
<1>2. AlertTyped' BY <1>1 DEF AlertInv, AlertTyped, Now
<1>3. ViewFits' BY <1>1 DEF AlertInv, ViewFits
<1>4. EngineFits' BY <1>1 DEF AlertInv, EngineFits
<1>5. AlertsFit' BY <1>1 DEF AlertInv, AlertsFit, Now
<1>6. QED BY <1>2, <1>3, <1>4, <1>5

LEMMA RestKeepsQueries ==
  ASSUME QueriesFit, UNCHANGED <<server, token, candidate, answered>>, queries' \subseteq queries
  PROVE  QueriesFit'
BY DEF QueriesFit

LEMMA SubmitKeepsQueries ==
  ASSUME QueriesFit, Submits, server' = server, answered' = answered
  PROVE  QueriesFit'
<1>1. CASE queries' = queries BY <1>1, RestKeepsQueries DEF Submits
<1>2. CASE candidate = {} /\ queries' = queries \cup {Poll(server, token)}
  <2> DEFINE new == Poll(server, token)
  <2>1. new.kind = "poll" /\ new.server = server BY DEF Poll
  <2>2. queries' = queries \cup {new} BY <1>2
  <2>3. token' = token /\ candidate' = candidate BY DEF Submits
  <2> HIDE DEF new
  <2>4. QED BY <1>2, <2>1, <2>2, <2>3 DEF QueriesFit
<1>3. QED BY <1>1, <1>2 DEF Submits, Submit

(* A stay ends: what was being observed is finalized for nobody. *)
LEMMA StayEnds ==
  ASSUME AlertInv, engine' = EngineAfter(sessions'), sessions' \cap sessions = {}
  PROVE  engine' \in Engines /\ engine'.episode = {} /\ ActiveEvent(engine') = 0
<1>1. Idle \in Engines /\ Idle.episode = {} BY DEF Idle, Engines
<1>2. engine \in Engines BY DEF AlertInv, AlertTyped
<1>3. CASE sessions' = sessions
  <2>1. sessions = {} BY <1>3
  <2>2. engine.episode = {} BY <2>1 DEF AlertInv, EngineFits
  <2>3. engine' = engine BY <1>3 DEF EngineAfter
  <2>4. QED BY <1>2, <2>2, <2>3 DEF ActiveEvent
<1>4. CASE sessions' # sessions
  <2>1. engine' = Idle BY <1>4 DEF EngineAfter, HandleLifecycle
  <2>2. QED BY <1>1, <2>1 DEF ActiveEvent
<1>5. QED BY <1>3, <1>4

(* What a new stay, or one that was left, begins with. *)
LEMMA NewStayFits ==
  ASSUME AlertInv, UNCHANGED <<fired, alerts, opened, score>>,
         alarm' \in Alarms, alarm'.held = {},
         engine' \in Engines, engine'.episode = {}, ActiveEvent(engine') = 0,
         view' \in Views, view'.strikes = 0, ~view'.recent, view'.online => ~view'.offline,
         answered' = "up", candidate' = {},
         server' \in Servers \cup {NoServer}, token' \in 0..MaxToken,
         \A q \in queries' : q.kind = "poll" /\ q.token = token' => q.server = server',
         \A q \in queries' : q.kind = "confirm" => q.server = q.candidate.server
  PROVE  AlertInv'
<1>1. Now' \in States /\ AlertsFit' BY QuietFits
<1>2. AlertTyped' BY <1>1 DEF AlertInv, AlertTyped
<1>3. ViewFits' BY DEF ViewFits
<1>4. QueriesFit' BY DEF QueriesFit
<1>5. EngineFits' BY DEF EngineFits
<1>6. QED BY <1>1, <1>2, <1>3, <1>4, <1>5 DEF AlertInv

LEMMA NewAlarmIs ==
  ASSUME NEW enabled \in BOOLEAN
  PROVE  NewAlarm(enabled) \in Alarms /\ NewAlarm(enabled).held = {}
BY DEF NewAlarm, Alarms

LEMMA NewViewIs ==
  ASSUME NEW online \in BOOLEAN, NEW outage \in 0..MaxOutage, NEW w,
         w = [NewView(online) EXCEPT !.outage = outage]
  PROVE  w \in Views /\ w.strikes = 0 /\ ~w.recent /\ ~w.offline
<1> DEFINE full == [online |-> online, strikes |-> 0, recent |-> FALSE,
                    offline |-> FALSE, outage |-> outage]
<1>1. w = full BY DEF NewView
<1>2. full \in Views BY DEF Views
<1>3. full.strikes = 0 /\ ~full.recent /\ ~full.offline OBVIOUS
<1>4. QED BY <1>1, <1>2, <1>3

LEMMA TypedIs ==
  ASSUME AlertInv
  PROVE  /\ server \in Servers \cup {NoServer} /\ token \in 0..MaxToken /\ MaxToken \in Nat
         /\ view \in Views /\ engine \in Engines /\ opened \in Nat /\ score \in Scores
         /\ alarm \in Alarms /\ Now \in States
BY BoundsAssumption, NowIs DEF AlertInv, AlertTyped

LEMMA SelectKeepsAlerts ==
  ASSUME AlertInv, PollInv, LearnInv, NEW s \in Servers, SelectServer(s)
  PROVE  AlertInv'
<1>1. /\ server' = s /\ token < MaxToken /\ token' = token + 1 /\ candidate' = {}
      /\ alarm' = KeptAlarm(s) /\ engine' = EngineAfter(sessions') /\ answered' = "up"
      /\ UNCHANGED <<fired, alerts, opened, score>>
      /\ queries' = queries \/ queries' = queries \cup {Poll(s, token + 1)}
  BY DEF SelectServer, CancelConfirmation, NewStay, StartPolling, Submit
<1>2. /\ token \in Nat /\ MaxToken \in Nat /\ alarm \in Alarms /\ view \in Views
  BY TypedIs
<1>3. token' \in 0..MaxToken BY <1>1, <1>2
<1>4. alarm' \in Alarms /\ alarm'.held = {}
  <2>1. CASE s = server BY <1>1, <1>2, <2>1 DEF KeptAlarm, Alarms
  <2>2. CASE s # server
    <3>1. alarm.enabled \in BOOLEAN BY <1>2 DEF Alarms
    <3>2. alarm' = NewAlarm(alarm.enabled) BY <1>1, <2>2 DEF KeptAlarm
    <3>3. QED BY <3>1, <3>2, NewAlarmIs
  <2>3. QED BY <2>1, <2>2
<1>5. sessions' \cap sessions = {}
  <2>1. LearnInv' BY SelectKeepsLearnInv
  <2>2. \A x \in sessions' : x.token = token + 1 BY <1>1, <2>1 DEF LearnInv, Session
  <2>3. \A x \in sessions : x.token = token BY DEF LearnInv, Session
  <2>4. QED BY <1>2, <2>2, <2>3
<1>6. engine' \in Engines /\ engine'.episode = {} /\ ActiveEvent(engine') = 0
  BY <1>1, <1>5, StayEnds
<1>7. view' \in Views /\ view'.strikes = 0 /\ ~view'.recent /\ ~view'.offline
  <2> DEFINE outage == IF s = server THEN view.outage ELSE 0
  <2>1. PICK online \in BOOLEAN : view' = [NewView(online) EXCEPT !.outage = outage]
    BY DEF SelectServer
  <2>2. outage \in 0..MaxOutage BY <1>2, BoundsAssumption DEF Views
  <2> HIDE DEF outage
  <2>3. QED BY <2>1, <2>2, NewViewIs
<1>8. \A q \in queries : q.kind = "poll" => q.token # token'
  BY <1>1, <1>2 DEF PollInv, QueriesArePast
<1>9. \A q \in queries : q.kind = "confirm" => q.server = q.candidate.server
  BY DEF AlertInv, QueriesFit
<1>10. /\ \A q \in queries' : q.kind = "poll" /\ q.token = token' => q.server = server'
       /\ \A q \in queries' : q.kind = "confirm" => q.server = q.candidate.server
  <2>1. Poll(s, token + 1).kind = "poll" /\ Poll(s, token + 1).server = s BY DEF Poll
  <2>2. QED BY <1>1, <1>8, <1>9, <2>1
<1>11. QED BY <1>1, <1>3, <1>4, <1>6, <1>7, <1>10, NewStayFits

LEMMA LeaveKeepsAlerts ==
  ASSUME AlertInv, PollInv, LearnInv, Leaves, token < MaxToken, server' \in Servers \cup {NoServer},
         UNCHANGED <<fired, alerts, opened, score>>, answered' = "up",
         sessions' = EndSession(server), engine' = EngineAfter(sessions'),
         alarm' \in Alarms, alarm'.held = {},
         view' \in Views, view'.strikes = 0, ~view'.recent, view'.online => ~view'.offline
  PROVE  AlertInv'
<1>1. token' = token + 1 /\ candidate' = {} /\ queries' = queries
  BY DEF Leaves, StopPolling, CancelConfirmation
<1>2. token \in Nat /\ MaxToken \in Nat BY TypedIs
<1>3. token' \in 0..MaxToken BY <1>1, <1>2
<1>4. sessions' \cap sessions = {} BY EndLeavesNone
<1>5. engine' \in Engines /\ engine'.episode = {} /\ ActiveEvent(engine') = 0
  BY <1>4, StayEnds
<1>6. \A q \in queries' : q.kind = "poll" => q.token # token'
  BY <1>1, <1>2 DEF PollInv, QueriesArePast
<1>7. \A q \in queries' : q.kind = "confirm" => q.server = q.candidate.server
  BY <1>1 DEF AlertInv, QueriesFit
<1>8. QED BY <1>1, <1>3, <1>5, <1>6, <1>7, NewStayFits

LEMMA ClearKeepsAlerts ==
  ASSUME AlertInv, PollInv, LearnInv, ClearServer
  PROVE  AlertInv'
<1>1. /\ Leaves /\ token < MaxToken /\ server' = NoServer /\ answered' = "up"
      /\ UNCHANGED <<fired, alerts, opened, score>>
      /\ sessions' = EndSession(server) /\ engine' = EngineAfter(sessions')
      /\ view' = NewView(TRUE) /\ alarm' = NewAlarm(alarm.enabled)
  BY DEF ClearServer, Leaves, NewStay
<1>2. alarm.enabled \in BOOLEAN BY TypedIs DEF Alarms
<1>3. alarm' \in Alarms /\ alarm'.held = {} BY <1>1, <1>2, NewAlarmIs
<1>4. view' \in Views /\ view'.strikes = 0 /\ ~view'.recent /\ ~view'.offline
  <2>1. 0 \in 0..MaxOutage BY BoundsAssumption
  <2>2. view'.strikes = 0 /\ ~view'.recent /\ ~view'.offline BY <1>1 DEF NewView
  <2>3. view' \in Views BY <1>1, <2>1 DEF NewView, Views
  <2>4. QED BY <2>2, <2>3
<1>5. QED BY <1>1, <1>3, <1>4, LeaveKeepsAlerts

LEMMA StopsKeepsAlerts ==
  ASSUME AlertInv, PollInv, LearnInv, Stops
  PROVE  AlertInv'
<1>1. /\ Leaves /\ token < MaxToken /\ server' = server /\ answered' = "up"
      /\ UNCHANGED <<fired, alerts, opened, score>>
      /\ sessions' = EndSession(server) /\ engine' = EngineAfter(sessions')
      /\ view' = StoppedView /\ alarm' = StoppedAlarm
  BY DEF Stops, Leaves, NewStay
<1>2. alarm \in Alarms /\ view \in Views /\ server \in Servers \cup {NoServer} BY TypedIs
<1>3. alarm' \in Alarms /\ alarm'.held = {}
  <2> DEFINE since == IF alarm.suppressed THEN "none" ELSE alarm.since
  <2>1. alarm' = [alarm EXCEPT !.held = {}, !.since = since] BY <1>1 DEF StoppedAlarm
  <2>2. since \in {"none", "recent", "stable"} BY <1>2 DEF Alarms
  <2> HIDE DEF since
  <2>3. QED BY <1>2, <2>1, <2>2 DEF Alarms
<1>4. /\ view' \in Views /\ view'.strikes = 0 /\ ~view'.recent
      /\ view'.online = view.online /\ view'.offline = view.offline
  <2>1. view' = [view EXCEPT !.strikes = 0, !.recent = FALSE] BY <1>1 DEF StoppedView
  <2>2. /\ view'.strikes = 0 /\ ~view'.recent
        /\ view'.online = view.online /\ view'.offline = view.offline
    BY <1>2, <2>1 DEF Views
  <2> DEFINE strikes == 0
             no == FALSE
  <2>3. strikes \in 0..2 /\ no \in BOOLEAN OBVIOUS
  <2>4. view' = [view EXCEPT !.strikes = strikes, !.recent = no] BY SMTT(30), <2>1
  <2> HIDE DEF strikes, no
  <2>5. view' \in Views BY <1>2, <2>3, <2>4, WithView
  <2>6. QED BY <2>2, <2>5
<1>5. view'.online => ~view'.offline BY <1>4 DEF AlertInv, ViewFits
<1>6. QED BY <1>1, <1>2, <1>3, <1>4, <1>5, LeaveKeepsAlerts

LEMMA StartsKeepsAlerts ==
  ASSUME AlertInv, LearnInv, server # NoServer, Starts
  PROVE  AlertInv'
<1>1. /\ UNCHANGED <<server, token, candidate, view, alarm, opened, fired, score, alerts, answered>>
      /\ sessions' = EnsureSession(sessions, server, token)
      /\ engine' = EngineAfter(sessions') /\ Submits
  BY DEF Starts, StartPolling, Submits, history
<1>2. /\ alarm' \in Alarms /\ view \in Views /\ engine \in Engines
  BY <1>1, TypedIs
<1>3. engine' = engine \/ engine' = Idle BY <1>1 DEF EngineAfter, HandleLifecycle
<1>4. Idle \in Engines /\ Idle.episode = {} BY DEF Idle, Engines
<1>5. ActiveEvent(engine') \in {0, ActiveEvent(engine)}
  BY <1>3, <1>4 DEF ActiveEvent
<1>6. Now' \in States /\ AlertsFit' BY <1>1, <1>2, <1>5, QuietFits
<1>7. AlertTyped' BY <1>1, <1>2, <1>3, <1>4, <1>6 DEF AlertInv, AlertTyped
<1>8. ViewFits' BY <1>1 DEF AlertInv, ViewFits
<1>9. QueriesFit' BY <1>1, SubmitKeepsQueries DEF AlertInv
<1>10. EngineFits'
  <2>1. engine'.episode # {} => engine' = engine BY <1>3, <1>4
  <2>2. sessions # {} => sessions' # {} BY DEF Starts, EnsureSession, LearnInv
  <2>3. QED BY <1>1, <2>1, <2>2 DEF AlertInv, EngineFits
<1>11. QED BY <1>6, <1>7, <1>8, <1>9, <1>10 DEF AlertInv

LEMMA ToggleKeepsAlerts ==
  ASSUME AlertInv, ToggleAlerts \/ OnlineLongEnough
  PROVE  AlertInv'
<1>1. /\ alarm' = [alarm EXCEPT !.enabled = ~@] \/ alarm' = [alarm EXCEPT !.since = "stable"]
      /\ UNCHANGED <<server, token, candidate, queries, view, sessions, engine, opened, fired,
                     score, alerts, answered>>
  BY DEF ToggleAlerts, OnlineLongEnough, polling, learner, history
<1>2. alarm' \in Alarms /\ alarm'.held = alarm.held
  <2>1. alarm \in Alarms BY TypedIs
  <2>2. CASE alarm' = [alarm EXCEPT !.enabled = ~@]
    <3> DEFINE enabled == ~alarm.enabled
    <3>1. alarm' = [alarm EXCEPT !.enabled = enabled] /\ enabled \in BOOLEAN BY <2>2
    <3> HIDE DEF enabled
    <3>2. QED BY <2>1, <3>1 DEF Alarms
  <2>3. CASE alarm' = [alarm EXCEPT !.since = "stable"] BY <2>1, <2>3 DEF Alarms
  <2>4. QED BY <1>1, <2>2, <2>3
<1>3. Now' \in States /\ AlertsFit' BY <1>1, <1>2, QuietFits
<1>4. AlertTyped' BY <1>1, <1>3 DEF AlertInv, AlertTyped
<1>5. ViewFits' BY <1>1 DEF AlertInv, ViewFits
<1>6. QueriesFit' BY <1>1, RestKeepsQueries DEF AlertInv
<1>7. EngineFits' BY <1>1 DEF AlertInv, EngineFits
<1>8. QED BY <1>3, <1>4, <1>5, <1>6, <1>7 DEF AlertInv

LEMMA StrikeAgesKeepsAlerts ==
  ASSUME AlertInv, StrikeGrowsOld
  PROVE  AlertInv'
<1>1. /\ view.recent /\ view' = [view EXCEPT !.recent = FALSE]
      /\ answered' = IF answered = "down_once" THEN "up" ELSE answered
      /\ UNCHANGED <<server, token, candidate, queries, alarm, sessions, engine, opened, fired,
                     score, alerts>>
  BY DEF StrikeGrowsOld, polling, learner
<1>2. view \in Views /\ alarm' \in Alarms BY <1>1, TypedIs
<1>3. /\ ~view'.recent /\ view'.strikes = view.strikes /\ view'.online = view.online
      /\ view'.offline = view.offline /\ view'.outage = view.outage /\ view' \in Views
  BY <1>1, <1>2 DEF Views
<1>4. Now' \in States /\ AlertsFit' BY <1>1, <1>2, <1>3, QuietFits
<1>5. AlertTyped' BY <1>1, <1>3, <1>4 DEF AlertInv, AlertTyped
<1>6. ViewFits'
  <2>1. view.strikes = 1 BY <1>1 DEF AlertInv, ViewFits
  <2>2. answered' = "up"
    BY <1>1, <2>1 DEF AlertInv, ViewFits, AlertTyped
  <2>3. QED BY <1>3, <2>1, <2>2 DEF AlertInv, ViewFits
<1>7. QueriesFit' BY <1>1 DEF AlertInv, QueriesFit
<1>8. EngineFits' BY <1>1 DEF AlertInv, EngineFits
<1>9. QED BY <1>4, <1>5, <1>6, <1>7, <1>8 DEF AlertInv

(* Time changes nothing of the event under way but what it waits for. *)
LEMMA AgeingIs ==
  ASSUME NEW e \in Engines, NEW f \in {StrikesGrowOld(e), GracePasses(e)}
  PROVE  /\ f \in Engines /\ ActiveEvent(f) = ActiveEvent(e)
         /\ \A ep \in f.episode : \E old \in e.episode : ep.id = old.id
<1>1. CASE e.episode = {}
  <2>1. \/ f = [e EXCEPT !.pending = IF @ = "recent" THEN "old" ELSE @, !.episode = {}]
        \/ f = [e EXCEPT !.episode = {}]
    BY <1>1 DEF StrikesGrowOld, GracePasses
  <2>2. f \in Engines BY <2>1 DEF Engines
  <2>3. f.episode = {} BY <2>1 DEF Engines
  <2>4. QED BY <1>1, <2>2, <2>3 DEF ActiveEvent
<1>2. CASE e.episode # {}
  <2>1. PICK ep \in Episodes : e.episode = {ep} BY <1>2 DEF Engines
  <2>2. PICK new \in Episodes :
          /\ new.id = ep.id
          /\ \/ f = [e EXCEPT !.pending = IF @ = "recent" THEN "old" ELSE @, !.episode = {new}]
             \/ f = [e EXCEPT !.episode = {new}]
    <3>1. CASE f = StrikesGrowOld(e)
      <4> DEFINE new == [ep EXCEPT !.recent = FALSE]
      <4>1. new \in Episodes /\ new.id = ep.id BY DEF Episodes
      <4> DEFINE pending == IF e.pending = "recent" THEN "old" ELSE e.pending
                 episode == {[x EXCEPT !.recent = FALSE] : x \in e.episode}
      <4>2. episode = {new} BY <2>1
      <4>3. f = [e EXCEPT !.pending = pending, !.episode = episode]
        BY <3>1 DEF StrikesGrowOld
      <4>4. [e EXCEPT !.pending = pending, !.episode = {new}]
              = [e EXCEPT !.pending = IF @ = "recent" THEN "old" ELSE @, !.episode = {new}]
        OBVIOUS
      <4>5. f = [e EXCEPT !.pending = IF @ = "recent" THEN "old" ELSE @, !.episode = {new}]
        BY <4>2, <4>3, <4>4
      <4> HIDE DEF new
      <4>6. QED BY <4>1, <4>5
    <3>2. CASE f = GracePasses(e)
      <4> DEFINE ripe == ep.returned
                 new == [ep EXCEPT !.ripe = ripe]
      <4>1. f = [e EXCEPT !.episode = {new}] BY <2>1, <3>2 DEF GracePasses
      <4>2. ripe \in BOOLEAN BY DEF Episodes
      <4> HIDE DEF ripe
      <4>3. new \in Episodes /\ new.id = ep.id BY <4>2 DEF Episodes
      <4> HIDE DEF new
      <4>4. QED BY <4>1, <4>3
    <3>3. QED BY <3>1, <3>2
  <2>3. f.episode = {new} BY <2>2 DEF Engines
  <2>3a. f \in Engines BY <2>2 DEF Engines
  <2>4. ActiveEvent(f) = new.id BY <2>3 DEF ActiveEvent
  <2>5. ActiveEvent(e) = ep.id BY <2>1 DEF ActiveEvent
  <2>6. QED BY <2>1, <2>2, <2>3, <2>3a, <2>4, <2>5
<1>3. QED BY <1>1, <1>2

LEMMA AgesKeepsAlerts ==
  ASSUME AlertInv, EngineAges
  PROVE  AlertInv'
<1>1. /\ engine' \in {StrikesGrowOld(engine), GracePasses(engine)}
      /\ UNCHANGED <<server, token, candidate, queries, view, alarm, sessions, opened, fired,
                     score, alerts, answered>>
  BY DEF EngineAges, polling, history
<1>2. engine \in Engines /\ alarm' \in Alarms BY <1>1, TypedIs
<1>3. /\ engine' \in Engines /\ ActiveEvent(engine') = ActiveEvent(engine)
      /\ \A ep \in engine'.episode : \E old \in engine.episode : ep.id = old.id
  BY <1>1, <1>2, AgeingIs
<1>4. Now' \in States /\ AlertsFit' BY <1>1, <1>2, <1>3, QuietFits
<1>5. AlertTyped' BY <1>1, <1>3, <1>4 DEF AlertInv, AlertTyped
<1>6. ViewFits' BY <1>1 DEF AlertInv, ViewFits
<1>7. QueriesFit' BY <1>1, RestKeepsQueries DEF AlertInv
<1>8. EngineFits' BY <1>1, <1>3 DEF AlertInv, EngineFits
<1>9. QED BY <1>4, <1>5, <1>6, <1>7, <1>8 DEF AlertInv

LEMMA ReleaseKeepsAlerts ==
  ASSUME AlertInv, ReleaseHeld
  PROVE  AlertInv'
<1> DEFINE h == CHOOSE x \in alarm.held : TRUE
           without == [alarm EXCEPT !.held = {}]
           st == [alarm |-> without, fired |-> fired, alerts |-> alerts]
           end == IF HeldIsCurrent(h, view) THEN EmitRecovery(st, h.event, score, StillUp) ELSE st
           active == ActiveEvent(engine)
<1>1. /\ alarm.held # {}
      /\ UNCHANGED <<server, token, candidate, queries, view, sessions, engine, opened,
                     score, answered>>
      /\ alarm' = end.alarm /\ fired' = end.fired /\ alerts' = end.alerts
  BY DEF ReleaseHeld, polling
<1>2. /\ view \in Views /\ view' = view /\ alarm \in Alarms /\ Now \in States /\ opened \in Nat
      /\ score \in Scores /\ engine \in Engines
  BY <1>1, TypedIs
<1>3. h \in alarm.held BY <1>1
<1>4. h.event \in Events BY <1>2, <1>3 DEF Alarms, Held
<1>5. Fits(Now, active, view, opened) BY DEF AlertInv, AlertsFit
<1>6. without \in Alarms /\ without.held = {} BY <1>2 DEF Alarms
<1> HIDE DEF without, h
<1>7. /\ st \in States /\ st.alarm = without /\ st.fired = Now.fired /\ st.alerts = Now.alerts
  BY <1>2, <1>6 DEF Now, States
<1>8. Fits(st, active, view, opened) BY <1>5, <1>6, <1>7, DropFits
<1> HIDE DEF st
<1>9. ASSUME HeldIsCurrent(h, view)
      PROVE  end \in States /\ Fits(end, active, view', opened)
  <2>1. h.outage = view.outage /\ view.online BY <1>9 DEF HeldIsCurrent
  <2>2. h \in Now.alarm.held BY <1>3 DEF Now
  <2>3. h.event <= opened /\ \A a \in st.alerts :
          ~a.visible => a.event # h.event \/ a.outage # view'.outage
    BY <1>1, <1>5, <1>7, <2>1, <2>2 DEF Fits
  <2>4. ~view'.offline /\ answered' \notin {"down", "back"}
    BY <1>1, <2>1 DEF AlertInv, ViewFits
  <2>5. StillUp /\ StillUp \in BOOLEAN
    BY <1>1, <2>4 DEF AlertInv, AlertTyped, StillUp
  <2>6. h.event \in 0..MaxEvents BY <1>4, EventsAssumption DEF Events
  <2>7. \A x \in st.alarm.held : x.event # h.event \/ x.outage # view'.outage
    BY <1>6, <1>7
  <2>8. Fits(st, active, view', opened) BY <1>2, <1>8
  <2>9. /\ EmitRecovery(st, h.event, score, StillUp) \in States
        /\ Fits(EmitRecovery(st, h.event, score, StillUp), active, view', opened)
    BY <1>2, <1>7, <2>3, <2>4, <2>5, <2>6, <2>7, <2>8, EmitRecoveryFits
  <2>10. end = EmitRecovery(st, h.event, score, StillUp) BY <1>9
  <2>11. end \in States /\ Fits(end, active, view', opened) BY <2>9, <2>10
  <2>12. QED BY <2>11
<1>10. ASSUME ~HeldIsCurrent(h, view)
       PROVE  end \in States /\ Fits(end, active, view', opened)
  <2>1. end = st BY <1>10
  <2>2. QED BY <1>2, <1>7, <1>8, <2>1
<1>11. end \in States /\ Fits(end, active, view', opened) BY <1>9, <1>10
<1> HIDE DEF end
<1>12. /\ Now'.alarm = end.alarm /\ Now'.fired = end.fired /\ Now'.alerts = end.alerts
       /\ Now' = [alarm |-> end.alarm, fired |-> end.fired, alerts |-> end.alerts]
  BY <1>1 DEF Now
<1>13. Now' \in States BY <1>11, <1>12 DEF States
<1>14. Fits(Now', active, view', opened) BY <1>11, <1>12, SameHeldFits
<1>15. AlertTyped' BY <1>1, <1>13 DEF AlertInv, AlertTyped
<1>16. AlertsFit' BY <1>1, <1>14 DEF AlertsFit
<1>17. ViewFits' BY <1>1 DEF AlertInv, ViewFits
<1>18. QueriesFit' BY <1>1, RestKeepsQueries DEF AlertInv
<1>19. EngineFits' BY <1>1 DEF AlertInv, EngineFits
<1>20. QED BY <1>15, <1>16, <1>17, <1>18, <1>19 DEF AlertInv


(* A result that is dropped: nothing was heard. *)
LEMMA NoNewsKeepsAlerts ==
  ASSUME AlertInv, NoNews, UNCHANGED <<server, token, sessions>>, queries' \subseteq queries,
         candidate' \subseteq candidate
  PROVE  AlertInv'
<1>1. AlertsRest BY DEF NoNews, AlertsRest
<1>2. AlertTyped' /\ ViewFits' /\ EngineFits' /\ AlertsFit' BY <1>1, RestKeepsAlerts
<1>3. QueriesFit' BY DEF NoNews, AlertInv, QueriesFit
<1>4. QED BY <1>2, <1>3 DEF AlertInv

(* A poll's answer is heard: either the candidate of a recovery, and then no
   other poll of the stay is out, or an answer that is applied.            *)
LEMMA PollHeard ==
  ASSUME AlertInv, PollInv, LearnInv, NEW q \in queries, PollResult(q),
         CurrentPoll(q), ShouldPoll(server)
  PROVE  AlertInv'
<1>1. /\ q.kind = "poll" /\ q.token = token /\ queries' = queries \ {q} /\ inflight' = FALSE
      /\ UNCHANGED <<server, token, sessions, learning, stranded>>
  BY DEF PollResult, CurrentPoll
<1>2. server # NoServer /\ q.server = server /\ candidate = {}
  BY <1>1 DEF ShouldPoll, AlertInv, QueriesFit
<1>3. PICK sample \in Samples :
        /\ Hears(q, Kind(sample))
        /\ \/ /\ sample \in Healthy /\ WasConfirmedOffline
              /\ UNCHANGED <<view, alarm, engine, opened, fired, score, alerts>>
           \/ /\ ~(sample \in Healthy /\ WasConfirmedOffline)
              /\ Apply(sample, FALSE) /\ UNCHANGED candidate
  BY DEF PollResult
<1>4. answered' = Answer(Kind(sample)) BY <1>2, <1>3 DEF Hears
<1>5. \A r \in queries' : r.kind = "poll" => r.token # token
  <2>1. Counts(q) BY <1>1 DEF Counts, PollCounts
  <2>2. QED BY <1>1, <2>1, CountingQueryEnds
<1>6. \A r \in queries' : r.kind = "confirm" => r.server = r.candidate.server
  BY <1>1 DEF AlertInv, QueriesFit
<1>7. AlertTyped /\ ViewFits BY DEF AlertInv
<1>8. CASE /\ sample \in Healthy /\ WasConfirmedOffline
           /\ UNCHANGED <<view, alarm, engine, opened, fired, score, alerts>>
  <2>1. view.strikes = 2 BY <1>8 DEF WasConfirmedOffline
  <2>2. answered \in {"down", "back", "recovered"} BY <1>7, <2>1 DEF ViewFits, AlertTyped
  <2>3. answered' \in {"back", "recovered"}
    BY <1>4, <1>8, <2>2 DEF Kind, Answer
  <2>4. view' = view /\ alarm' = alarm /\ engine' = engine /\ opened' = opened
        /\ fired' = fired /\ score' = score /\ alerts' = alerts
    BY <1>8
  <2>5. Now' = Now BY <2>4 DEF Now
  <2>6. AlertTyped' BY <1>1, <1>7, <2>3, <2>4, <2>5 DEF AlertTyped
  <2>7. ViewFits' BY <1>7, <2>1, <2>3, <2>4 DEF ViewFits
  <2>8. QueriesFit' BY <1>1, <1>5, <1>6, <2>3 DEF QueriesFit
  <2>9. EngineFits' BY <1>1, <2>4 DEF AlertInv, EngineFits
  <2>10. AlertsFit' BY <2>4, <2>5 DEF AlertInv, AlertsFit
  <2>11. QED BY <2>6, <2>7, <2>8, <2>9, <2>10 DEF AlertInv
<1>9. CASE /\ ~(sample \in Healthy /\ WasConfirmedOffline)
           /\ Apply(sample, FALSE) /\ UNCHANGED candidate
  <2>1. view' = ViewAfter(view, sample) /\ view'.outage <= MaxOutage BY <1>9 DEF Apply
  <2>2. ~(sample \in Healthy /\ view.strikes = 2)
    BY <1>7, <1>9 DEF ViewFits, WasConfirmedOffline
  <2>3. ViewFits' /\ answered' \in {"up", "down_once", "down", "back", "recovered"}
    BY <1>4, <1>7, <2>1, <2>2, AnswerFits
  <2> DEFINE confirmed == FALSE
  <2>4. confirmed \in BOOLEAN /\ Apply(sample, confirmed) /\ ~confirmed BY <1>9
  <2> HIDE DEF confirmed
  <2>5. AlertTyped' /\ EngineFits' /\ AlertsFit'
    BY <1>1, <1>2, <2>3, <2>4, ApplyFits
  <2>6. QueriesFit' BY <1>1, <1>2, <1>5, <1>6, <1>9 DEF QueriesFit
  <2>7. QED BY <2>3, <2>5, <2>6 DEF AlertInv
<1>10. QED BY <1>3, <1>8, <1>9

LEMMA PollResultKeepsAlerts ==
  ASSUME AlertInv, PollInv, LearnInv, NEW q \in queries, PollResult(q)
  PROVE  AlertInv'
<1>1. queries' = queries \ {q} /\ UNCHANGED <<server, token, sessions>>
  BY DEF PollResult
<1>2. CASE CurrentPoll(q) /\ ShouldPoll(server) BY <1>2, PollHeard
<1>3. CASE ~(CurrentPoll(q) /\ ShouldPoll(server))
  <2>1. NoNews /\ candidate' = candidate BY <1>3 DEF PollResult
  <2>2. QED BY <1>1, <2>1, NoNewsKeepsAlerts
<1>4. QED BY <1>2, <1>3

(* The confirmation's answer is of the server that is shown offline, for
   which the first healthy answer is the last that was heard.              *)
LEMMA ConfirmationResultKeepsAlerts ==
  ASSUME AlertInv, LearnInv, NEW q \in queries, ConfirmationResult(q)
  PROVE  AlertInv'
<1>1. /\ q.kind = "confirm" /\ queries' = queries \ {q}
      /\ UNCHANGED <<server, token, sessions, learning>>
  BY DEF ConfirmationResult
<1>2. CASE ~CandidateIsCurrent(q.candidate)
  <2>1. NoNews /\ candidate' \subseteq candidate
    BY <1>2 DEF ConfirmationResult, CancelConfirmation
  <2>2. QED BY <1>1, <2>1, NoNewsKeepsAlerts
<1>3. CASE CandidateIsCurrent(q.candidate)
  <2>1. /\ candidate # {} /\ server # NoServer /\ view.strikes = 2
        /\ q.candidate.server = server
    BY <1>3 DEF CandidateIsCurrent, ShouldPoll, WasConfirmedOffline
  <2>2. /\ q.server = server /\ answered \in {"back", "recovered"} /\ view.offline
        /\ AlertTyped /\ ViewFits
    BY <1>1, <2>1 DEF AlertInv, QueriesFit, ViewFits
  <2>3. PICK sample \in Samples : Hears(q, Kind(sample)) /\ Apply(sample, TRUE)
    BY <1>3 DEF ConfirmationResult
  <2>4. candidate' = {} BY <1>3 DEF ConfirmationResult, CancelConfirmation
  <2>5. answered' = Answer(Kind(sample)) BY <2>2, <2>3 DEF Hears
  <2>6. sample \in Healthy => answered' = "recovered"
    BY <2>2, <2>5 DEF Kind, Answer
  <2>7. view' = ViewAfter(view, sample) /\ view'.outage <= MaxOutage BY <2>3 DEF Apply
  <2>8. ViewFits' /\ answered' \in {"up", "down_once", "down", "back", "recovered"}
    BY <2>2, <2>5, <2>7, AnswerFits
  <2> DEFINE confirmed == TRUE
  <2>9. confirmed \in BOOLEAN /\ Apply(sample, confirmed) BY <2>3
  <2> HIDE DEF confirmed
  <2>10. AlertTyped' /\ EngineFits' /\ AlertsFit'
    BY <1>1, <2>1, <2>2, <2>6, <2>8, <2>9, ApplyFits
  <2>11. QueriesFit' BY <1>1, <2>4 DEF AlertInv, QueriesFit
  <2>12. QED BY <2>8, <2>10, <2>11 DEF AlertInv
<1>4. QED BY <1>2, <1>3

LEMMA BeginKeepsAlerts ==
  ASSUME AlertInv, NEW c \in candidate, BeginConfirmation(c)
  PROVE  AlertInv'
<1>1. AlertsRest BY DEF BeginConfirmation, AlertsRest, learner, history
<1>2. AlertTyped' /\ ViewFits' /\ EngineFits' /\ AlertsFit' BY <1>1, RestKeepsAlerts
<1>3. QueriesFit'
  <2>1. CASE CandidateIsCurrent(c) /\ queries' = queries \cup {Confirmation(c)} /\ UNCHANGED candidate
    <3> DEFINE new == Confirmation(c)
    <3>1. new.kind = "confirm" /\ new.server = server /\ new.candidate = c /\ c.server = server
      BY <2>1 DEF Confirmation, CandidateIsCurrent
    <3>2. queries' = queries \cup {new} /\ candidate' = candidate BY <2>1
    <3> HIDE DEF new
    <3>3. server' = server /\ token' = token /\ answered' = answered BY <1>1 DEF AlertsRest
    <3>4. QED BY <3>1, <3>2, <3>3 DEF AlertInv, QueriesFit
  <2>2. CASE candidate' = {} /\ UNCHANGED queries
    BY <1>1, <2>2 DEF AlertsRest, AlertInv, QueriesFit
  <2>3. QED BY <2>1, <2>2 DEF BeginConfirmation, CancelConfirmation
<1>4. QED BY <1>2, <1>3 DEF AlertInv

LEMMA TickKeepsAlerts ==
  ASSUME AlertInv, PollTick
  PROVE  AlertInv'
<1>1. AlertsRest BY DEF PollTick, AlertsRest, learner, history
<1>2. AlertTyped' /\ ViewFits' /\ EngineFits' /\ AlertsFit' BY <1>1, RestKeepsAlerts
<1>3. server' = server /\ token' = token /\ answered' = answered BY <1>1 DEF AlertsRest
<1>4. CASE ShouldPoll(server)
  <2>1. Submits BY <1>4 DEF PollTick, Submits, history
  <2>2. QED BY <1>2, <1>3, <2>1, SubmitKeepsQueries DEF AlertInv
<1>5. CASE ~ShouldPoll(server)
  <2>1. queries' \subseteq queries /\ candidate' = candidate BY <1>5 DEF PollTick
  <2>2. QED BY <1>2, <1>3, <2>1, RestKeepsQueries DEF AlertInv
<1>6. QED BY <1>4, <1>5

LEMMA IdleKeepsAlerts ==
  ASSUME AlertInv, AlertsRest, UNCHANGED <<candidate, queries>>
  PROVE  AlertInv'
<1>1. AlertTyped' /\ ViewFits' /\ EngineFits' /\ AlertsFit' BY RestKeepsAlerts
<1>2. QueriesFit' BY RestKeepsQueries DEF AlertInv, AlertsRest
<1>3. QED BY <1>1, <1>2 DEF AlertInv

LEMMA ShowKeepsAlerts ==
  ASSUME AlertInv, LearnInv, Show
  PROVE  AlertInv'
<1>1. CASE server # NoServer /\ ~paused BY <1>1, StartsKeepsAlerts DEF Show
<1>2. CASE ~(server # NoServer /\ ~paused)
  <2>1. AlertsRest /\ UNCHANGED <<candidate, queries>>
    BY <1>2 DEF Show, AlertsRest, polling, learner, history
  <2>2. QED BY <2>1, IdleKeepsAlerts
<1>3. QED BY <1>1, <1>2

-----------------------------------------------------------------------------
LEMMA AlertInvInit == Init => AlertInv
<1> SUFFICES ASSUME Init PROVE AlertInv OBVIOUS
<1>1. PICK enabled \in BOOLEAN : alarm = NewAlarm(enabled) BY DEF Init
<1>2. alarm \in Alarms /\ alarm.held = {} BY <1>1, NewAlarmIs
<1>3. /\ server = NoServer /\ token = 0 /\ candidate = {} /\ queries = {} /\ view = NewView(TRUE)
      /\ sessions = {} /\ engine = Idle /\ opened = 0 /\ fired = {} /\ score = 0
      /\ alerts = {} /\ answered = "up"
  BY DEF Init
<1>4. view.strikes = 0 /\ ~view.recent /\ ~view.offline BY <1>3 DEF NewView
<1>5. view \in Views
  <2>1. 0 \in 0..MaxOutage BY BoundsAssumption
  <2> DEFINE online == TRUE
  <2>2. online \in BOOLEAN /\ view = [NewView(online) EXCEPT !.outage = 0]
    BY <1>3 DEF NewView
  <2> HIDE DEF online
  <2>3. QED BY <2>1, <2>2, NewViewIs
<1>6. engine \in Engines /\ engine.episode = {} BY <1>3 DEF Idle, Engines
<1>7. Now \in States BY <1>2, <1>3, NowIs
<1>8. AlertTyped
  <2>1. 0 \in 0..MaxToken /\ 0 \in Scores /\ 0 \in Nat BY BoundsAssumption DEF Scores
  <2>2. server \in Servers \cup {NoServer} /\ token \in 0..MaxToken BY <1>3, <2>1
  <2>3. opened \in Nat /\ score \in Scores BY <1>3, <2>1
  <2>4. answered \in {"up", "down_once", "down", "back", "recovered"} BY <1>3
  <2>5. QED BY <1>5, <1>6, <1>7, <2>2, <2>3, <2>4 DEF AlertTyped
<1>9. ViewFits
  <2>1. answered = "up" BY <1>3
  <2>2. QED BY <1>4, <2>1 DEF ViewFits
<1>10. QueriesFit /\ EngineFits BY <1>3, <1>6 DEF QueriesFit, EngineFits
<1>11. AlertsFit
  <2>1. Now.alerts = {} /\ Now.alarm.held = {} BY <1>2, <1>3, NowIs
  <2>2. QED BY <2>1 DEF AlertsFit, Fits
<1>12. QED BY <1>8, <1>9, <1>10, <1>11 DEF AlertInv

LEMMA AlertInvStep == AlertInv /\ PollInv /\ LearnInv /\ [Next]_vars => AlertInv'
<1> SUFFICES ASSUME AlertInv, PollInv, LearnInv, [Next]_vars PROVE AlertInv' OBVIOUS
<1>1. ASSUME NEW s \in Servers, SelectServer(s) PROVE AlertInv'
  BY <1>1, SelectKeepsAlerts
<1>2. CASE ClearServer BY <1>2, ClearKeepsAlerts
<1>3. CASE Pause \/ Hide BY <1>3, StopsKeepsAlerts DEF Pause, Hide
<1>4. CASE Resume BY <1>4, StartsKeepsAlerts DEF Resume
<1>5. CASE Show BY <1>5, ShowKeepsAlerts
<1>6. CASE ToggleAlerts \/ OnlineLongEnough BY <1>6, ToggleKeepsAlerts
<1>7. CASE PollTick BY <1>7, TickKeepsAlerts
<1>8. ASSUME NEW c \in candidate, BeginConfirmation(c) PROVE AlertInv'
  BY <1>8, BeginKeepsAlerts
<1>9. ASSUME NEW q \in queries, PollResult(q) PROVE AlertInv'
  BY <1>9, PollResultKeepsAlerts
<1>10. ASSUME NEW q \in queries, ConfirmationResult(q) PROVE AlertInv'
  BY <1>10, ConfirmationResultKeepsAlerts
<1>11. CASE ReleaseHeld BY <1>11, ReleaseKeepsAlerts
<1>12. CASE StrikeGrowsOld BY <1>12, StrikeAgesKeepsAlerts
<1>13. CASE EngineAges BY <1>13, AgesKeepsAlerts
<1>14. CASE UNCHANGED vars
  BY <1>14, IdleKeepsAlerts DEF vars, polling, learner, history, AlertsRest
<1>15. QED
  BY <1>1, <1>2, <1>3, <1>4, <1>5, <1>6, <1>7, <1>8, <1>9, <1>10, <1>11, <1>12, <1>13, <1>14
     DEF Next, UserStep, ConfirmationTimer, ResultStep, TimeStep

(* However long the companion runs, for any servers, generations, outages
   and events: what the server answered, what is shown of it, the queries
   that count, the learner's event and the alerts given and held go together
   (window.py, _apply_server_companion_live_result and the alert handlers). *)
THEOREM AlertInvariant == Spec => []AlertInv
<1>1. Init => AlertInv BY AlertInvInit
<1>2. AlertInv /\ PollInv /\ LearnInv /\ [Next]_vars => AlertInv' BY AlertInvStep
<1> QED BY <1>1, <1>2, PollInvariant, LearnInvariant, PTL DEF Spec

(* A recovery is announced only after the monitored server itself answered
   two recent failures, a healthy candidate and a healthy confirmation, and
   no outage of an event is announced twice: not by the confirmed recovery,
   the held alert and the finalized event together, in whatever order they
   come (_emit_server_companion_confirmed_recovery_alert,
   _release_server_companion_pending_recovery_alert,
   _handle_phase2_finalized_events).                                       *)
THEOREM AlertsHeardOnce == Spec => []AlertsAreHeardOnce
<1>1. AlertInv => AlertsAreHeardOnce
  <2>1. SUFFICES ASSUME AlertInv PROVE AlertsAreHeardOnce OBVIOUS
  <2>2. Now.alerts = alerts BY NowIs
  <2>3. \A a \in Now.alerts : a.heard /\ (~a.visible => ~a.repeats)
    BY <2>1 DEF AlertInv, AlertsFit, Fits
  <2>4. QED BY <2>2, <2>3 DEF AlertsAreHeardOnce
<1> QED BY <1>1, AlertInvariant, PTL

-----------------------------------------------------------------------------
(***************************************************************************)
(* Natural numbers: the least element of a set, and induction stated for a *)
(* set of numbers.                                                         *)
(***************************************************************************)
LEMMA LeastNatural ==
  ASSUME NEW S \in SUBSET Nat, S # {}
  PROVE  \E n \in S : \A m \in S : n <= m
<1> DEFINE R == StrictSubsetOrdering(Nat)
           T == {1..n : n \in S}
<1>1. IsWellFoundedOn(R, FiniteSubsetsOf(Nat))
  BY FS_StrictSubsetOrderingWellFounded
<1>2. T \subseteq FiniteSubsetsOf(Nat) /\ T # {}
  <2>1. ASSUME NEW n \in S PROVE 1..n \in FiniteSubsetsOf(Nat)
    <3>1. n \in Int /\ 1 \in Int
      OBVIOUS
    <3>2. IsFiniteSet(1..n)
      BY <3>1, FS_Interval
    <3>3. 1..n \in SUBSET Nat
      OBVIOUS
    <3> QED
      BY <3>2, <3>3 DEF FiniteSubsetsOf
  <2> QED
    BY <2>1
<1>3. \E x \in T : \A y \in T : ~ (<<y, x>> \in R)
  <2> HIDE DEF T, R
  <2> QED
    BY <1>1, <1>2, WFMin
<1>4. PICK n \in S : \A m \in S : ~ (<<1..m, 1..n>> \in R)
  BY <1>3
<1>5. ASSUME NEW m \in S, m < n PROVE FALSE
  <2>1. 1..m \subseteq 1..n /\ n \in 1..n /\ n \notin 1..m
    BY <1>5
  <2>2. <<1..m, 1..n>> \in R
    BY <2>1 DEF StrictSubsetOrdering
  <2> QED
    BY <2>2, <1>4
<1> QED
  BY <1>5

LEMMA InductiveSet ==
  ASSUME NEW S \in SUBSET Nat, 0 \in S, \A n \in Nat : n \in S => n + 1 \in S
  PROVE  \A n \in Nat : n \in S
<1> SUFFICES ASSUME Nat \ S # {} PROVE FALSE
  OBVIOUS
<1>1. PICK n \in Nat \ S : \A m \in Nat \ S : n <= m
  BY LeastNatural
<1>2. n # 0 /\ n - 1 \in Nat /\ (n - 1) + 1 = n /\ n - 1 < n
  BY <1>1
<1>3. n - 1 \in S
  BY <1>1, <1>2
<1> QED
  BY <1>1, <1>2, <1>3

(***************************************************************************)
(* The order in which a list is gone through.                              *)
(***************************************************************************)
Increasing(queue, length) ==
  \A i, j \in 1..length : i < j => queue[i] < queue[j]

LEMMA KeysAreFinite ==
  ASSUME NEW list \in SUBSET Keys
  PROVE  IsFiniteSet(list) /\ Cardinality(list) \in Nat
<1>1. NumServers \in Int /\ 1 \in Int
  BY SweepAssumption
<1>2. IsFiniteSet(Keys)
  BY <1>1, FS_Interval DEF Keys
<1>3. IsFiniteSet(list)
  BY <1>2, FS_Subset
<1> QED
  BY <1>3, FS_CardinalityType

LEMMA KeysAreNumbers == \A k \in Keys : k \in Nat /\ 1 <= k /\ k <= NumServers
BY SweepAssumption DEF Keys

LEMMA OrderExists ==
  ASSUME NEW list \in SUBSET Keys
  PROVE  \E queue \in [1..Cardinality(list) -> list] : Increasing(queue, Cardinality(list))
<1> DEFINE Up(n) == {k \in list : k <= n}
           HasOrder(n) == \E queue \in [1..Cardinality(Up(n)) -> Up(n)] :
                            Increasing(queue, Cardinality(Up(n)))
           Sorted == {n \in Nat : HasOrder(n)}
<1>1. HasOrder(0)
  <2>1. Up(0) = {}
    BY KeysAreNumbers
  <2>2. Cardinality(Up(0)) = 0
    BY <2>1, FS_EmptySet
  <2>3. [i \in 1..0 |-> i] \in [1..0 -> Up(0)]
    OBVIOUS
  <2>4. Increasing([i \in 1..0 |-> i], 0)
    BY DEF Increasing
  <2> QED
    BY <2>2, <2>3, <2>4
<1>2. ASSUME NEW n \in Nat, HasOrder(n) PROVE HasOrder(n + 1)
  <2>1. Up(n) \in SUBSET Keys /\ Up(n + 1) \in SUBSET Keys
    OBVIOUS
  <2> DEFINE c == Cardinality(Up(n))
             below == Up(n)
  <2>2. IsFiniteSet(below) /\ c \in Nat
    BY <2>1, KeysAreFinite
  <2>3. PICK queue \in [1..c -> below] : Increasing(queue, c)
    BY <1>2
  <2>4. CASE n + 1 \notin list
    <3>1. Up(n + 1) = below
      BY <2>4, KeysAreNumbers
    <3> QED
      BY <3>1, <2>3
  <2>5. CASE n + 1 \in list
    <3>1. Up(n + 1) = below \union {n + 1} /\ n + 1 \notin below
      BY <2>5, KeysAreNumbers
    <3> HIDE DEF below
    <3>2. Cardinality(Up(n + 1)) = c + 1
      BY <3>1, <2>2, FS_AddElement DEF below
    <3> DEFINE longer == [i \in 1..c + 1 |-> IF i = c + 1 THEN n + 1 ELSE queue[i]]
    <3>3. \A k \in below : k < n + 1 /\ k \in Nat
      BY KeysAreNumbers DEF below
    <3> HIDE DEF c
    <3>4. \A i \in 1..c + 1 : i # c + 1 => i \in 1..c
      BY <2>2
    <3>5. longer \in [1..c + 1 -> below \union {n + 1}]
      BY <3>4, <2>3
    <3>6. Increasing(longer, c + 1)
      <4> SUFFICES ASSUME NEW i \in 1..c + 1, NEW j \in 1..c + 1, i < j
                   PROVE  longer[i] < longer[j]
        BY DEF Increasing
      <4>1. i \in 1..c /\ longer[i] = queue[i] /\ queue[i] \in below
        BY <2>2, <2>3, <3>4
      <4>2. CASE j = c + 1
        BY <4>1, <4>2, <3>3
      <4>3. CASE j # c + 1
        BY <4>1, <4>3, <3>4, <2>3 DEF Increasing
      <4> QED
        BY <4>2, <4>3
    <3> HIDE DEF longer
    <3> QED
      BY <3>1, <3>2, <3>5, <3>6
  <2> QED
    BY <2>4, <2>5
<1>3. NumServers \in Sorted
  <2> HIDE DEF HasOrder
  <2>1. Sorted \in SUBSET Nat /\ 0 \in Sorted
    BY <1>1
  <2>2. \A n \in Nat : n \in Sorted => n + 1 \in Sorted
    BY <1>2
  <2> HIDE DEF Sorted
  <2> QED
    BY <2>1, <2>2, InductiveSet, SweepAssumption
<1>4. Up(NumServers) = list
  BY KeysAreNumbers
<1> QED
  BY <1>3, <1>4

LEMMA OrderedFacts ==
  ASSUME NEW list \in SUBSET Keys
  PROVE  /\ Ordered(list) \in [1..Cardinality(list) -> list]
         /\ Ordered(list) \in Seq(Keys)
         /\ Len(Ordered(list)) = Cardinality(list)
         /\ \A i, j \in 1..Cardinality(list) :
              Ordered(list)[i] = Ordered(list)[j] => i = j
<1> DEFINE c == Cardinality(list)
<1>1. c \in Nat
  BY KeysAreFinite
<1>2. \E queue \in [1..c -> list] : \A i, j \in 1..c : i < j => queue[i] < queue[j]
  BY OrderExists DEF Increasing
<1>3. /\ Ordered(list) \in [1..c -> list]
      /\ \A i, j \in 1..c : i < j => Ordered(list)[i] < Ordered(list)[j]
  BY <1>2 DEF Ordered
<1> HIDE DEF c
<1>4. \A i \in 1..c : Ordered(list)[i] \in Nat
  BY <1>3, KeysAreNumbers
<1>5. \A i, j \in 1..c : Ordered(list)[i] = Ordered(list)[j] => i = j
  BY <1>1, <1>3, <1>4
<1>6. Ordered(list) \in Seq(Keys) /\ Len(Ordered(list)) = c
  <2>1. Ordered(list) \in [1..c -> Keys]
    BY <1>3
  <2> QED
    BY <2>1, <1>1
<1> QED
  BY <1>3, <1>5, <1>6 DEF c

(***************************************************************************)
(* The rows: what one answer, and what a run of answers, does to them.     *)
(***************************************************************************)
(* A streak of failures has begun with one that is remembered. *)
RowsInv(r) == \A k \in Keys : r.streak[k] > 0 => k \in r.missed

Once(answers) ==
  \A i, j \in 1..Len(answers) : answers[i][1] = answers[j][1] => i = j

LEMMA LoadedRowsTyped ==
  ASSUME NEW list \in SUBSET Keys, NEW online \in SUBSET Keys
  PROVE  /\ LoadedRows(list, online) \in Rows
         /\ LoadedRows(list, online).list = list
         /\ RowsInv(LoadedRows(list, online))
<1>1. [k \in Keys |-> 0] \in [Keys -> 0..2]
  OBVIOUS
<1> QED
  BY <1>1 DEF LoadedRows, Rows, RowsInv

LEMMA RepliesAreAnswers ==
  ASSUME NEW a \in Reply
  PROVE  a[1] \in Keys /\ a[2] \in {"ok", "fail", "neutral"}
BY DEF Reply, Answers

LEMMA HeardOne ==
  ASSUME NEW r \in Rows, RowsInv(r), NEW a \in Reply
  PROVE  /\ Heard(r, a) \in Rows
         /\ Heard(r, a).list = r.list
         /\ RowsInv(Heard(r, a))
         /\ \A k \in Keys \ {a[1]} : /\ k \in Heard(r, a).online <=> k \in r.online
                                     /\ k \in Heard(r, a).missed <=> k \in r.missed
         /\ a[1] \in r.online /\ a[1] \notin Heard(r, a).online => a[1] \in r.missed
<1> DEFINE k == a[1]
<1>1. k \in Keys /\ a[2] \in {"ok", "fail", "neutral"}
  BY RepliesAreAnswers
<1>2. /\ r.list \in SUBSET Keys /\ r.online \in SUBSET Keys /\ r.missed \in SUBSET Keys
      /\ r.streak \in [Keys -> 0..2]
      /\ r = [list |-> r.list, online |-> r.online, streak |-> r.streak, missed |-> r.missed]
  BY DEF Rows
<1>3. CASE k \notin r.list \/ a[2] = "neutral"
  <2>1. Heard(r, a) = r
    BY <1>3 DEF Heard
  <2> QED
    BY <2>1
<1>4. CASE k \in r.list /\ a[2] = "ok"
  <2>1. Heard(r, a) = [list |-> r.list, online |-> r.online \union {k},
                       streak |-> [r.streak EXCEPT ![k] = 0], missed |-> r.missed \ {k}]
    <3>1. Heard(r, a) = [r EXCEPT !.online = @ \union {k}, !.streak[k] = 0, !.missed = @ \ {k}]
      BY <1>4 DEF Heard
    <3> QED
      BY <3>1, <1>2
  <2>2. [r.streak EXCEPT ![k] = 0] \in [Keys -> 0..2]
    <3>1. 0 \in 0..2
      OBVIOUS
    <3> HIDE DEF k
    <3> QED
      BY <1>1, <1>2, <3>1
  <2>3. \A x \in Keys : [r.streak EXCEPT ![k] = 0][x] = IF x = k THEN 0 ELSE r.streak[x]
    BY <1>2
  <2> HIDE DEF k
  <2>4. Heard(r, a) \in Rows
    BY <2>1, <2>2, <1>1, <1>2 DEF Rows
  <2>5. RowsInv(Heard(r, a))
    BY <2>1, <2>3, <1>1, <1>2 DEF RowsInv
  <2>6. Heard(r, a).list = r.list
    BY <2>1
  <2>7. /\ Heard(r, a).online = r.online \union {k}
        /\ Heard(r, a).missed = r.missed \ {k}
    BY <2>1
  <2> QED
    BY <2>4, <2>5, <2>6, <2>7 DEF k
<1>5. CASE k \in r.list /\ a[2] = "fail"
  <2> DEFINE streak == IF r.streak[k] = 2 THEN 2 ELSE r.streak[k] + 1
             keeps == k \in r.online /\ streak < 2
             online == IF keeps THEN r.online ELSE r.online \ {k}
  <2>1. Heard(r, a) = Failed(r, k)
    BY <1>5 DEF Heard
  <2>2. Failed(r, k) = [list |-> r.list, online |-> online,
                        streak |-> [r.streak EXCEPT ![k] = streak], missed |-> r.missed \union {k}]
    <3>1. Failed(r, k) = [r EXCEPT !.online = online, !.streak[k] = streak,
                                   !.missed = @ \union {k}]
      BY DEF Failed
    <3> HIDE DEF online, streak, k
    <3> QED
      BY <3>1, <1>2
  <2>3. streak \in 0..2 /\ (streak < 2 <=> r.streak[k] = 0)
    BY <1>1, <1>2
  <2> HIDE DEF streak
  <2>4. [r.streak EXCEPT ![k] = streak] \in [Keys -> 0..2]
    BY <1>2, <2>3
  <2>5. \A x \in Keys : [r.streak EXCEPT ![k] = streak][x] = IF x = k THEN streak ELSE r.streak[x]
    BY <1>2
  <2>6. \A x \in Keys : x # k => (x \in online <=> x \in r.online)
    OBVIOUS
  <2>7. k \in r.online /\ k \notin online => k \in r.missed
    <3>1. k \in r.online /\ k \notin online => r.streak[k] > 0
      BY <2>3, <1>1, <1>2
    <3> QED
      BY <3>1, <1>1 DEF RowsInv
  <2>8. online \in SUBSET Keys
    BY <1>2
  <2> HIDE DEF online
  <2> HIDE DEF k
  <2>9. Heard(r, a) \in Rows
    BY <2>1, <2>2, <2>4, <2>8, <1>1, <1>2 DEF Rows
  <2>10. RowsInv(Heard(r, a))
    BY <2>1, <2>2, <2>5, <1>1, <1>2 DEF RowsInv
  <2>11. /\ Heard(r, a).list = r.list /\ Heard(r, a).online = online
         /\ Heard(r, a).missed = r.missed \union {k}
    BY <2>1, <2>2
  <2> QED
    BY <2>6, <2>7, <2>9, <2>10, <2>11 DEF k
<1> QED
  BY <1>1, <1>3, <1>4, <1>5

(* The rows after each prefix of the answers. *)
IsRun(f, r, answers, length) ==
  f = [n \in 0..length |-> IF n = 0 THEN r ELSE Heard(f[n - 1], answers[n])]

LEMMA RunsExist ==
  ASSUME NEW r, NEW answers, NEW length \in Nat
  PROVE  \E f : IsRun(f, r, answers, length)
<1> DEFINE Runs == {n \in Nat : \E f : IsRun(f, r, answers, n)}
<1>1. \E f : IsRun(f, r, answers, 0)
  <2> DEFINE f == [n \in 0..0 |-> r]
  <2>1. f = [n \in 0..0 |-> IF n = 0 THEN r ELSE Heard(f[n - 1], answers[n])]
    OBVIOUS
  <2> HIDE DEF f
  <2> QED
    BY <2>1 DEF IsRun
<1>2. ASSUME NEW n \in Nat, \E f : IsRun(f, r, answers, n) PROVE \E f : IsRun(f, r, answers, n + 1)
  <2>1. PICK f : IsRun(f, r, answers, n)
    BY <1>2
  <2> DEFINE g == [m \in 0..n + 1 |-> IF m = n + 1 THEN Heard(f[n], answers[n + 1]) ELSE f[m]]
  <2>2. ASSUME NEW m \in 0..n + 1
        PROVE  g[m] = IF m = 0 THEN r ELSE Heard(g[m - 1], answers[m])
    <3>1. CASE m = n + 1
      <4>1. m # 0 /\ m - 1 = n /\ n \in 0..n + 1 /\ n # n + 1
        BY <3>1
      <4>2. g[n] = f[n]
        BY <4>1
      <4> QED
        BY <3>1, <4>1, <4>2
    <3>2. CASE m # n + 1
      <4>1. m \in 0..n /\ (m # 0 => m - 1 \in 0..n /\ m - 1 \in 0..n + 1 /\ m - 1 # n + 1)
        BY <3>2
      <4>2. f[m] = IF m = 0 THEN r ELSE Heard(f[m - 1], answers[m])
        BY <4>1, <2>1 DEF IsRun
      <4>3. g[m] = f[m] /\ (m # 0 => g[m - 1] = f[m - 1])
        BY <3>2, <4>1
      <4> QED
        BY <4>2, <4>3
    <3> QED
      BY <3>1, <3>2
  <2>3. g = [m \in 0..n + 1 |-> IF m = 0 THEN r ELSE Heard(g[m - 1], answers[m])]
    <3>1. g = [m \in 0..n + 1 |-> g[m]]
      OBVIOUS
    <3> HIDE DEF g
    <3> QED
      BY <3>1, <2>2
  <2> HIDE DEF g
  <2> QED
    BY <2>3 DEF IsRun
<1>3. Runs \in SUBSET Nat /\ 0 \in Runs /\ \A n \in Nat : n \in Runs => n + 1 \in Runs
  BY <1>1, <1>2
<1>4. length \in Runs
  <2> HIDE DEF Runs
  <2> QED
    BY <1>3, InductiveSet
<1> QED
  BY <1>4

LEMMA HeardAllIsRun ==
  ASSUME NEW r, NEW answers \in Seq(Reply)
  PROVE  \E f : IsRun(f, r, answers, Len(answers)) /\ HeardAll(r, answers) = f[Len(answers)]
<1>1. Len(answers) \in Nat
  OBVIOUS
<1>2. \E f : IsRun(f, r, answers, Len(answers))
  BY <1>1, RunsExist
<1>3. \E f : f = [n \in 0..Len(answers) |-> IF n = 0 THEN r ELSE Heard(f[n - 1], answers[n])]
  BY <1>2 DEF IsRun
<1> QED
  BY <1>3 DEF HeardAll, IsRun

LEMMA HeardAllFacts ==
  ASSUME NEW r \in Rows, RowsInv(r), NEW answers \in Seq(Reply)
  PROVE  /\ HeardAll(r, answers) \in Rows
         /\ HeardAll(r, answers).list = r.list
         /\ RowsInv(HeardAll(r, answers))
         /\ Once(answers) => \A k \in r.list : k \in r.online /\ k \notin HeardAll(r, answers).online
                                               => k \in r.missed
<1>1. PICK f : IsRun(f, r, answers, Len(answers)) /\ HeardAll(r, answers) = f[Len(answers)]
  BY HeardAllIsRun
<1> DEFINE Sound(s) == s \in Rows /\ s.list = r.list /\ RowsInv(s)
           Apart(s, n) == \A k \in Keys :
             (\A i \in 1..n : answers[i][1] # k) => /\ k \in s.online <=> k \in r.online
                                                    /\ k \in s.missed <=> k \in r.missed
           Known(s) == \A k \in Keys : k \in r.online /\ k \notin s.online => k \in r.missed
           Claim(n) == n <= Len(answers) => /\ Sound(f[n]) /\ Apart(f[n], n)
                                            /\ Once(answers) => Known(f[n])
           Claims == {n \in Nat : Claim(n)}
<1>2. Claim(0)
  <2>1. f[0] = r
    BY <1>1 DEF IsRun
  <2> QED
    BY <2>1
<1>3. ASSUME NEW n \in Nat, Claim(n) PROVE Claim(n + 1)
  <2> SUFFICES ASSUME n + 1 <= Len(answers)
               PROVE  /\ Sound(f[n + 1]) /\ Apart(f[n + 1], n + 1)
                      /\ Once(answers) => Known(f[n + 1])
    OBVIOUS
  <2>1. n + 1 \in 1..Len(answers) /\ n + 1 \in 0..Len(answers) /\ (n + 1) - 1 = n /\ n + 1 # 0
    OBVIOUS
  <2> DEFINE a == answers[n + 1]
  <2>2. f[n + 1] = Heard(f[n], a)
    BY <1>1, <2>1 DEF IsRun
  <2>3. a \in Reply
    BY <2>1
  <2>4. Sound(f[n]) /\ Apart(f[n], n) /\ (Once(answers) => Known(f[n]))
    BY <1>3, <2>1
  <2>5. /\ Sound(f[n + 1])
        /\ \A k \in Keys \ {a[1]} : /\ k \in f[n + 1].online <=> k \in f[n].online
                                    /\ k \in f[n + 1].missed <=> k \in f[n].missed
        /\ a[1] \in f[n].online /\ a[1] \notin f[n + 1].online => a[1] \in f[n].missed
    <3> DEFINE s == f[n]
    <3>1. s \in Rows /\ RowsInv(s) /\ s.list = r.list /\ f[n + 1] = Heard(s, a)
      BY <2>2, <2>4
    <3> HIDE DEF a, s
    <3>2. /\ Heard(s, a) \in Rows
          /\ Heard(s, a).list = s.list
          /\ RowsInv(Heard(s, a))
          /\ \A k \in Keys \ {a[1]} : /\ k \in Heard(s, a).online <=> k \in s.online
                                      /\ k \in Heard(s, a).missed <=> k \in s.missed
          /\ a[1] \in s.online /\ a[1] \notin Heard(s, a).online => a[1] \in s.missed
      BY <2>3, <3>1, HeardOne
    <3> QED
      BY <3>1, <3>2 DEF s
  <2>6. a[1] \in Keys
    BY <2>3, RepliesAreAnswers
  <2>7. Apart(f[n + 1], n + 1)
    <3> SUFFICES ASSUME NEW k \in Keys, \A i \in 1..n + 1 : answers[i][1] # k
                 PROVE  /\ k \in f[n + 1].online <=> k \in r.online
                        /\ k \in f[n + 1].missed <=> k \in r.missed
      OBVIOUS
    <3>1. k # a[1] /\ \A i \in 1..n : answers[i][1] # k
      OBVIOUS
    <3> QED
      BY <3>1, <2>4, <2>5
  <2>8. ASSUME Once(answers) PROVE Known(f[n + 1])
    <3> SUFFICES ASSUME NEW k \in Keys, k \in r.online, k \notin f[n + 1].online
                 PROVE  k \in r.missed
      OBVIOUS
    <3>1. CASE k = a[1]
      <4>1. \A i \in 1..n : answers[i][1] # k
        <5>1. SUFFICES ASSUME NEW i \in 1..n, answers[i][1] = k PROVE FALSE
          OBVIOUS
        <5>2. n + 1 \in 1..Len(answers) /\ i \in 1..Len(answers) /\ i # n + 1
          BY <2>1
        <5>3. answers[i][1] = answers[n + 1][1]
          BY <3>1, <5>1
        <5> QED
          BY <2>8, <5>2, <5>3 DEF Once
      <4>2. /\ k \in f[n].online <=> k \in r.online
            /\ k \in f[n].missed <=> k \in r.missed
        BY <4>1, <2>4
      <4> QED
        BY <3>1, <4>2, <2>5
    <3>2. CASE k # a[1]
      BY <3>2, <2>4, <2>5, <2>8
    <3> QED
      BY <3>1, <3>2
  <2> QED
    BY <2>5, <2>7, <2>8
<1>4. Len(answers) \in Nat
  OBVIOUS
<1>5. Claim(Len(answers))
  <2> HIDE DEF Claim
  <2>1. Claims \in SUBSET Nat /\ 0 \in Claims /\ \A n \in Nat : n \in Claims => n + 1 \in Claims
    BY <1>2, <1>3
  <2> HIDE DEF Claims
  <2>2. Len(answers) \in Claims
    BY <1>4, <2>1, InductiveSet
  <2> QED
    BY <2>2 DEF Claims
<1>6. Sound(f[Len(answers)]) /\ (Once(answers) => Known(f[Len(answers)]))
  BY <1>4, <1>5
<1>7. r.list \subseteq Keys
  BY DEF Rows
<1> QED
  BY <1>1, <1>6, <1>7
(***************************************************************************)
(* The sweep: what its operators do to the balance and to the keys.        *)
(***************************************************************************)
KeysOf(answers) == {answers[i][1] : i \in 1..Len(answers)}

(* No server is in two places at once. *)
Apart(s) ==
  /\ \A i, j \in 1..Len(s.queue) : s.queue[i] = s.queue[j] => i = j
  /\ \A i \in 1..Len(s.queue) : s.queue[i] \notin s.asked /\ s.queue[i] \notin KeysOf(s.buffer)
  /\ Once(s.buffer)
  /\ s.asked \intersect KeysOf(s.buffer) = {}

Balanced(s) ==
  /\ s.completed + s.inflight + Len(s.queue) = s.total
  /\ s.inflight = Cardinality(s.asked)

Ended(s) == s.done => s.revealed /\ s.buffer = <<>> /\ s.asked = {}

LEMMA TailOfQueue ==
  ASSUME NEW S, NEW queue \in Seq(S), NEW n \in 0..Len(queue)
  PROVE  LET rest == SubSeq(queue, n + 1, Len(queue))
         IN  /\ rest \in Seq(S)
             /\ Len(rest) = Len(queue) - n
             /\ \A i \in 1..Len(rest) : i + n \in 1..Len(queue) /\ rest[i] = queue[i + n]
<1> DEFINE rest == SubSeq(queue, n + 1, Len(queue))
<1>1. Len(queue) \in Nat /\ n \in Nat /\ n <= Len(queue)
  OBVIOUS
<1>2. \A i \in n + 1..Len(queue) : i \in 1..Len(queue)
  BY <1>1
<1>3. rest \in Seq(S) /\ Len(rest) = Len(queue) - n
  BY <1>1
<1>4. \A i \in 1..Len(queue) - n : i + n \in 1..Len(queue) /\ rest[i] = queue[i + n]
  BY <1>1
<1> QED
  BY <1>3, <1>4

LEMMA TakenFacts ==
  ASSUME NEW s \in Sweeps, NEW list \in SUBSET Keys
  PROVE  /\ Taken(s, list) \in 0..Len(s.queue)
         /\ \/ Taken(s, list) = Len(s.queue)
            \/ Cardinality(Present(s.queue, Taken(s, list), list)) = Workers - s.inflight
<1> DEFINE Enough(n) == \/ n = Len(s.queue)
                        \/ Cardinality(Present(s.queue, n, list)) = Workers - s.inflight
           Prefixes == {n \in 0..Len(s.queue) : Enough(n)}
<1>1. Len(s.queue) \in Nat
  BY DEF Sweeps
<1>2. Prefixes \in SUBSET Nat /\ Len(s.queue) \in Prefixes
  BY <1>1
<1>3. PICK n \in Prefixes : \A m \in Prefixes : n <= m
  <2> HIDE DEF Prefixes
  <2> QED
    BY <1>2, LeastNatural
<1>4. n \in 0..Len(s.queue) /\ Enough(n)
  BY <1>3
<1>5. ASSUME NEW m \in 0..n - 1 PROVE ~Enough(m)
  <2>1. m \in 0..Len(s.queue) /\ ~(n <= m)
    BY <1>1, <1>4
  <2> QED
    BY <2>1, <1>3
<1>6. Taken(s, list) = CHOOSE k \in 0..Len(s.queue) : Enough(k) /\ \A m \in 0..k - 1 : ~Enough(m)
  BY DEF Taken
<1>7. Taken(s, list) \in 0..Len(s.queue) /\ Enough(Taken(s, list))
  <2> HIDE DEF Enough
  <2> QED
    BY <1>4, <1>5, <1>6
<1> QED
  BY <1>7

LEMMA PresentFacts ==
  ASSUME NEW queue \in Seq(Keys), NEW n \in 0..Len(queue), NEW list \in SUBSET Keys
  PROVE  LET asks == Present(queue, n, list)
         IN  /\ asks \in SUBSET Keys /\ asks \subseteq list
             /\ \A k \in asks : \E i \in 1..n : i \in 1..Len(queue) /\ k = queue[i]
             /\ IsFiniteSet(asks) /\ Cardinality(asks) \in Nat /\ Cardinality(asks) <= n
<1> DEFINE asks == Present(queue, n, list)
<1>1. asks \in SUBSET Keys /\ asks \subseteq list
  BY DEF Present
<1>2. \A k \in asks : \E i \in 1..n : i \in 1..Len(queue) /\ k = queue[i]
  BY DEF Present
<1>3. IsFiniteSet(asks) /\ Cardinality(asks) \in Nat
  <2> HIDE DEF asks
  <2> QED
    BY <1>1, KeysAreFinite
<1>4. Cardinality(asks) <= n
  <2> DEFINE f == [k \in asks |-> CHOOSE i \in 1..n : k = queue[i]]
  <2>1. \A k \in asks : f[k] \in 1..n /\ k = queue[f[k]]
    BY <1>2
  <2>2. f \in [asks -> 1..n]
    BY <2>1
  <2>3. f \in Injection(asks, 1..n)
    <3> HIDE DEF f, asks
    <3> QED
      BY <2>1, <2>2 DEF Injection, IsInjective
  <2>4. IsFiniteSet(1..n) /\ Cardinality(1..n) = n
    <3>1. 1 \in Int /\ n \in Int /\ n >= 0
      OBVIOUS
    <3>2. Cardinality(1..n) = IF 1 > n THEN 0 ELSE n - 1 + 1
      BY <3>1, FS_Interval
    <3> QED
      BY <3>1, <3>2, FS_Interval
  <2> HIDE DEF f, asks
  <2> QED
    BY <2>3, <2>4, FS_Injection
<1> QED
  BY <1>1, <1>2, <1>3, <1>4
LEMMA SweepFields ==
  ASSUME NEW s \in Sweeps
  PROVE  /\ s.current \in BOOLEAN /\ s.queue \in Seq(Keys) /\ Len(s.queue) \in Nat
         /\ s.inflight \in Nat
         /\ s.asked \in SUBSET Keys /\ s.buffer \in Seq(Reply) /\ Len(s.buffer) \in Nat
         /\ s.total \in Nat /\ s.completed \in Nat /\ s.warm \in SUBSET Keys /\ s.warmed \in Nat
         /\ s.target \in Nat /\ s.timer \in BOOLEAN /\ s.revealed \in BOOLEAN
         /\ s.done \in BOOLEAN
BY DEF Sweeps

(* What of a sweep the pump leaves alone. *)
SameShow(s, t) ==
  /\ t.current = s.current /\ t.buffer = s.buffer /\ t.total = s.total /\ t.warm = s.warm
  /\ t.warmed = s.warmed /\ t.target = s.target /\ t.timer = s.timer
  /\ t.revealed = s.revealed /\ t.done = s.done

LEMMA PumpedShape ==
  ASSUME NEW s \in Sweeps, NEW list \in SUBSET Keys
  PROVE  LET n == Taken(s, list)
             asks == Present(s.queue, n, list)
             t == Pumped(s, list)
         IN  /\ t \in Sweeps /\ SameShow(s, t)
             /\ t.queue = SubSeq(s.queue, n + 1, Len(s.queue))
             /\ t.inflight = s.inflight + Cardinality(asks)
             /\ t.asked = s.asked \union asks
             /\ t.completed = s.completed + (n - Cardinality(asks))
<1> DEFINE n == Taken(s, list)
           asks == Present(s.queue, n, list)
           rest == SubSeq(s.queue, n + 1, Len(s.queue))
           asking == s.inflight + Cardinality(asks)
           completed == s.completed + (n - Cardinality(asks))
           asked == s.asked \union asks
<1>1. Pumped(s, list) = [s EXCEPT !.queue = rest, !.inflight = asking, !.asked = asked,
                                  !.completed = completed]
  BY DEF Pumped
<1>2. n \in 0..Len(s.queue)
  BY TakenFacts
<1>3. asks \in SUBSET Keys /\ Cardinality(asks) \in Nat /\ Cardinality(asks) <= n
  <2> HIDE DEF n
  <2> QED
    BY <1>2, PresentFacts, SweepFields
<1>4. rest \in Seq(Keys)
  <2> HIDE DEF n
  <2> QED
    BY <1>2, TailOfQueue, SweepFields
<1>5. asking \in Nat /\ completed \in Nat /\ asked \in SUBSET Keys
  <2> HIDE DEF n, asks
  <2> QED
    BY <1>2, <1>3, SweepFields
<1> HIDE DEF rest, asking, asked, completed
<1>6. Pumped(s, list) \in Sweeps
  BY <1>1, <1>4, <1>5 DEF Sweeps
<1>7. /\ Pumped(s, list).queue = rest /\ Pumped(s, list).inflight = asking
      /\ Pumped(s, list).asked = asked /\ Pumped(s, list).completed = completed
  BY <1>1 DEF Sweeps
<1>8. SameShow(s, Pumped(s, list))
  BY <1>1 DEF Sweeps, SameShow
<1> QED
  BY <1>6, <1>7, <1>8 DEF rest, asking, asked, completed

LEMMA PumpedFacts ==
  ASSUME NEW s \in Sweeps, NEW list \in SUBSET Keys, Apart(s), Balanced(s)
  PROVE  LET t == Pumped(s, list)
         IN  /\ t \in Sweeps /\ SameShow(s, t) /\ Apart(t) /\ Balanced(t)
             /\ t.inflight > 0 \/ t.queue = <<>>
             /\ s.queue # <<>> /\ (\A i \in 1..Len(s.queue) : s.queue[i] \in list)
                => t.inflight > 0
<1> DEFINE n == Taken(s, list)
           asks == Present(s.queue, n, list)
           t == Pumped(s, list)
<1>1. /\ t \in Sweeps /\ SameShow(s, t)
      /\ t.queue = SubSeq(s.queue, n + 1, Len(s.queue))
      /\ t.inflight = s.inflight + Cardinality(asks)
      /\ t.asked = s.asked \union asks
      /\ t.completed = s.completed + (n - Cardinality(asks))
  BY PumpedShape
<1>2. n \in 0..Len(s.queue) /\ (n = Len(s.queue) \/ Cardinality(asks) = Workers - s.inflight)
  BY TakenFacts
<1> HIDE DEF n, t
<1>3. /\ asks \in SUBSET Keys /\ asks \subseteq list
      /\ \A k \in asks : \E i \in 1..n : i \in 1..Len(s.queue) /\ k = s.queue[i]
      /\ IsFiniteSet(asks) /\ Cardinality(asks) \in Nat /\ Cardinality(asks) <= n
  BY <1>2, PresentFacts, SweepFields
<1>4. /\ t.queue \in Seq(Keys) /\ Len(t.queue) = Len(s.queue) - n
      /\ \A i \in 1..Len(t.queue) : i + n \in 1..Len(s.queue) /\ t.queue[i] = s.queue[i + n]
  <2> DEFINE queue == s.queue
             rest == SubSeq(queue, n + 1, Len(queue))
  <2>1. queue \in Seq(Keys) /\ n \in 0..Len(queue)
    BY <1>2, SweepFields
  <2> HIDE DEF queue
  <2>2. /\ rest \in Seq(Keys) /\ Len(rest) = Len(queue) - n
        /\ \A i \in 1..Len(rest) : i + n \in 1..Len(queue) /\ rest[i] = queue[i + n]
    BY <2>1, TailOfQueue
  <2> HIDE DEF rest
  <2>3. t.queue = rest
    BY <1>1 DEF rest, queue
  <2> QED
    BY <2>2, <2>3 DEF queue
<1>5. t.buffer = s.buffer /\ t.total = s.total
  BY <1>1 DEF SameShow
<1>6. asks # {} => Cardinality(asks) > 0
  <2> HIDE DEF asks
  <2> QED
    BY <1>3, FS_EmptySet
<1>7. n = Len(s.queue) /\ n > 0 /\ (\A i \in 1..Len(s.queue) : s.queue[i] \in list) => asks # {}
  BY SweepFields DEF Present
<1> HIDE DEF asks
<1>8. s.asked \intersect asks = {}
  BY <1>3 DEF Apart
<1>9. Cardinality(t.asked) = t.inflight
  <2>1. IsFiniteSet(s.asked)
    BY KeysAreFinite, SweepFields
  <2>2. Cardinality(t.asked) = Cardinality(s.asked) + Cardinality(asks) - Cardinality(s.asked \cap asks)
    BY <1>1, <1>3, <2>1, FS_Union
  <2>3. Cardinality(s.asked \cap asks) = 0
    BY <1>8, FS_EmptySet
  <2> QED
    BY <1>1, <1>3, <2>2, <2>3, SweepFields DEF Balanced
<1>10. Balanced(t)
  <2>1. s.completed + s.inflight + Len(s.queue) = s.total
    BY DEF Balanced
  <2>2. /\ t.completed = s.completed + (n - Cardinality(asks))
        /\ t.inflight = s.inflight + Cardinality(asks)
        /\ Len(t.queue) = Len(s.queue) - n /\ t.total = s.total
    BY <1>1, <1>4, <1>5
  <2>3. /\ s.completed \in Nat /\ s.inflight \in Nat /\ Len(s.queue) \in Nat /\ s.total \in Nat
        /\ n \in Nat /\ Cardinality(asks) \in Nat
    BY <1>2, <1>3, SweepFields
  <2>4. t.completed + t.inflight + Len(t.queue) = t.total
    BY <2>1, <2>2, <2>3
  <2> QED
    BY <2>4, <1>9 DEF Balanced
<1>11. Apart(t)
  <2>1. \A i, j \in 1..Len(t.queue) : t.queue[i] = t.queue[j] => i = j
    <3> SUFFICES ASSUME NEW i \in 1..Len(t.queue), NEW j \in 1..Len(t.queue),
                        t.queue[i] = t.queue[j]
                 PROVE  i = j
      OBVIOUS
    <3>1. i + n = j + n
      BY <1>4 DEF Apart
    <3> QED
      BY <3>1, <1>2
  <2>2. \A i \in 1..Len(t.queue) : t.queue[i] \notin t.asked /\ t.queue[i] \notin KeysOf(t.buffer)
    <3> SUFFICES ASSUME NEW i \in 1..Len(t.queue)
                 PROVE  t.queue[i] \notin t.asked /\ t.queue[i] \notin KeysOf(t.buffer)
      OBVIOUS
    <3>1. i + n \in 1..Len(s.queue) /\ t.queue[i] = s.queue[i + n]
      BY <1>4
    <3>2. t.queue[i] \notin s.asked /\ t.queue[i] \notin KeysOf(t.buffer)
      BY <3>1, <1>5 DEF Apart
    <3>3. t.queue[i] \notin asks
      <4> SUFFICES ASSUME t.queue[i] \in asks PROVE FALSE
        OBVIOUS
      <4>1. PICK j \in 1..n : j \in 1..Len(s.queue) /\ t.queue[i] = s.queue[j]
        BY <1>3
      <4>2. i + n = j
        BY <3>1, <4>1 DEF Apart
      <4> QED
        BY <4>1, <4>2, <1>2, <3>1
    <3> QED
      BY <3>2, <3>3, <1>1
  <2>3. Once(t.buffer) /\ t.asked \intersect KeysOf(t.buffer) = {}
    <3>1. \A k \in asks : k \notin KeysOf(t.buffer)
      BY <1>3, <1>5 DEF Apart
    <3>2. Once(t.buffer) /\ s.asked \intersect KeysOf(t.buffer) = {}
      BY <1>5 DEF Apart
    <3> QED
      BY <3>1, <3>2, <1>1
  <2> QED
    BY <2>1, <2>2, <2>3 DEF Apart
<1>12. t.inflight > 0 \/ t.queue = <<>>
  <2>1. CASE n = Len(s.queue)
    <3>1. Len(t.queue) = 0
      BY <2>1, <1>4, SweepFields
    <3> QED
      BY <3>1, <1>4
  <2>2. CASE Cardinality(asks) = Workers - s.inflight
    BY <2>2, <1>1, <1>3, SweepFields, SweepAssumption
  <2> QED
    BY <2>1, <2>2, <1>2
<1>13. ASSUME s.queue # <<>>, \A i \in 1..Len(s.queue) : s.queue[i] \in list
       PROVE  t.inflight > 0
  <2>1. Len(s.queue) > 0
    BY <1>13, SweepFields
  <2>2. CASE n = Len(s.queue)
    BY <2>1, <2>2, <1>1, <1>3, <1>6, <1>7, <1>13, SweepFields
  <2>3. CASE Cardinality(asks) = Workers - s.inflight
    BY <2>3, <1>1, <1>3, SweepFields, SweepAssumption
  <2> QED
    BY <2>2, <2>3, <1>2
<1> QED
  BY <1>1, <1>10, <1>11, <1>12, <1>13 DEF t
SweepInv(s) ==
  /\ s.current \/ s = NoSweep
  /\ Apart(s)
  /\ Balanced(s)
  /\ Ended(s)
  /\ ~s.done => s.inflight > 0
  /\ s.current /\ ~s.revealed => s.timer

LEMMA NoSweepFacts ==
  /\ NoSweep \in Sweeps /\ SweepInv(NoSweep) /\ ~NoSweep.current /\ NoSweep.asked = {}
  /\ NoSweep.buffer = <<>> /\ NoSweep.revealed /\ NoSweep.done /\ NoSweep.queue = <<>>
  /\ NoSweep.inflight = 0 /\ NoSweep.completed = 0
<1> DEFINE nothing == <<>>
<1>1. nothing \in Seq(Keys) /\ nothing \in Seq(Reply) /\ Len(nothing) = 0
  OBVIOUS
<1>2. NoSweep = [current |-> FALSE, queue |-> nothing, inflight |-> 0, asked |-> {},
                 buffer |-> nothing, total |-> 0, completed |-> 0, warm |-> {}, warmed |-> 0,
                 target |-> 0, timer |-> FALSE, revealed |-> TRUE, done |-> TRUE]
  BY DEF NoSweep
<1> HIDE DEF nothing
<1>3. /\ ~NoSweep.current /\ NoSweep.queue = nothing /\ NoSweep.inflight = 0 /\ NoSweep.asked = {}
      /\ NoSweep.buffer = nothing /\ NoSweep.total = 0 /\ NoSweep.completed = 0
      /\ NoSweep.revealed /\ NoSweep.done
  BY <1>2
<1>4. NoSweep \in Sweeps
  BY <1>1, <1>2 DEF Sweeps
<1>5. Cardinality({}) = 0
  BY FS_EmptySet
<1>6. Balanced(NoSweep)
  BY <1>1, <1>3, <1>5 DEF Balanced
<1>7. Apart(NoSweep)
  <2>1. 1..Len(NoSweep.queue) = {} /\ 1..Len(NoSweep.buffer) = {}
    BY <1>1, <1>3
  <2> QED
    BY <2>1, <1>3 DEF Apart, Once
<1>8. Ended(NoSweep)
  BY <1>3 DEF Ended, nothing
<1>9. SweepInv(NoSweep)
  BY <1>3, <1>6, <1>7, <1>8 DEF SweepInv
<1> QED
  BY <1>3, <1>4, <1>9 DEF nothing

LEMMA StartedFacts ==
  ASSUME NEW list \in SUBSET Keys, list # {}, NEW warm \in SUBSET Keys
  PROVE  LET s == Started(list, warm)
         IN  /\ s \in Sweeps /\ SweepInv(s) /\ s.current /\ ~s.done /\ s.buffer = <<>>
             /\ s.revealed <=> warm = {}
<1> DEFINE queue == Ordered(list)
           total == Cardinality(list)
           target == (Cardinality(warm) * WarmPercent + 99) \div 100
           waiting == warm # {}
           plain == warm = {}
           first == [NoSweep EXCEPT !.current = TRUE, !.queue = queue, !.total = total,
                                    !.warm = warm, !.target = target,
                                    !.timer = waiting, !.revealed = plain, !.done = FALSE]
           s == Pumped(first, list)
<1>1. Started(list, warm) = s
  BY DEF Started
<1>2. queue \in Seq(Keys) /\ Len(queue) = total /\ total \in Nat
  BY OrderedFacts, KeysAreFinite
<1>3. target \in Nat
  <2>1. Cardinality(warm) \in Nat /\ WarmPercent \in Nat
    BY KeysAreFinite, SweepAssumption
  <2>2. Cardinality(warm) * WarmPercent \in Nat
    BY <2>1
  <2> DEFINE product == Cardinality(warm) * WarmPercent
  <2> HIDE DEF product
  <2>3. product \in Nat => (product + 99) \div 100 \in Nat
    OBVIOUS
  <2> QED
    BY <2>2, <2>3 DEF product
<1>4. waiting \in BOOLEAN /\ plain \in BOOLEAN /\ (plain <=> warm = {}) /\ (waiting <=> ~plain)
  OBVIOUS
<1>5. /\ \A i, j \in 1..Len(queue) : queue[i] = queue[j] => i = j
      /\ \A i \in 1..Len(queue) : queue[i] \in list
  BY OrderedFacts
<1>6. queue # <<>>
  <2>1. total # 0
    BY KeysAreFinite, FS_EmptySet
  <2> QED
    BY <2>1, <1>2
<1> DEFINE nothing == <<>>
<1>7. nothing \in Seq(Keys) /\ nothing \in Seq(Reply) /\ Len(nothing) = 0
  OBVIOUS
<1> HIDE DEF queue, total, target, waiting, plain
<1> DEFINE yes == TRUE
           no == FALSE
<1>8. /\ first = [NoSweep EXCEPT !.current = yes, !.queue = queue, !.total = total,
                                 !.warm = warm, !.target = target,
                                 !.timer = waiting, !.revealed = plain, !.done = no]
      /\ yes \in BOOLEAN /\ no \in BOOLEAN /\ yes /\ ~no
  OBVIOUS
<1> HIDE DEF nothing, first, yes, no
<1>9. /\ first.current /\ first.queue = queue /\ first.inflight = 0 /\ first.asked = {}
      /\ first.buffer = nothing /\ first.total = total /\ first.completed = 0
      /\ first.timer = waiting /\ first.revealed = plain /\ ~first.done
  BY <1>8, NoSweepFacts DEF Sweeps, nothing
<1>10. first \in Sweeps
  BY <1>2, <1>3, <1>4, <1>8, NoSweepFacts DEF Sweeps
<1>11. Cardinality({}) = 0
  BY FS_EmptySet
<1>12. Balanced(first)
  BY <1>2, <1>9, <1>11 DEF Balanced
<1>13. Apart(first)
  <2>1. 1..Len(first.buffer) = {}
    BY <1>7, <1>9
  <2> QED
    BY <2>1, <1>5, <1>9 DEF Apart, Once, KeysOf
<1>14. /\ s \in Sweeps /\ SameShow(first, s) /\ Apart(s) /\ Balanced(s)
       /\ first.queue # <<>> /\ (\A i \in 1..Len(first.queue) : first.queue[i] \in list)
          => s.inflight > 0
  BY <1>10, <1>12, <1>13, PumpedFacts
<1> HIDE DEF s
<1>15. s.inflight > 0
  BY <1>14, <1>5, <1>6, <1>9
<1>16. s.current /\ ~s.done /\ s.buffer = nothing /\ s.revealed = plain /\ s.timer = waiting
  BY <1>14, <1>9 DEF SameShow
<1>17. SweepInv(s)
  BY <1>4, <1>14, <1>15, <1>16 DEF SweepInv, Ended
<1> QED
  BY <1>1, <1>4, <1>14, <1>16, <1>17 DEF nothing

LEMMA RevealedFacts ==
  ASSUME NEW s \in Sweeps, Apart(s), Balanced(s)
  PROVE  LET t == Revealed(s)
         IN  /\ t \in Sweeps /\ Apart(t) /\ Balanced(t)
             /\ t.current = s.current /\ t.revealed /\ t.buffer = <<>>
             /\ t.asked = s.asked /\ t.inflight = s.inflight /\ t.queue = s.queue
             /\ t.done = s.done
<1> DEFINE nothing == <<>>
           t == Revealed(s)
<1>1. nothing \in Seq(Reply) /\ Len(nothing) = 0
  OBVIOUS
<1>2. t = [s EXCEPT !.buffer = nothing, !.revealed = TRUE, !.timer = FALSE]
  BY DEF Revealed
<1> HIDE DEF nothing, t
<1>3. t \in Sweeps
  BY <1>1, <1>2 DEF Sweeps
<1>4. /\ t.current = s.current /\ t.revealed /\ t.buffer = nothing /\ t.total = s.total
      /\ t.completed = s.completed /\ t.asked = s.asked /\ t.inflight = s.inflight
      /\ t.queue = s.queue /\ t.done = s.done
  BY <1>2 DEF Sweeps
<1>5. Balanced(t)
  BY <1>4 DEF Balanced
<1>6. Apart(t)
  <2>1. 1..Len(t.buffer) = {}
    BY <1>1, <1>4
  <2> QED
    BY <2>1, <1>4 DEF Apart, Once, KeysOf
<1> QED
  BY <1>3, <1>4, <1>5, <1>6 DEF t, nothing

LEMMA FlushedFacts ==
  ASSUME NEW s \in Sweeps, Apart(s), Balanced(s)
  PROVE  LET t == [s EXCEPT !.buffer = <<>>]
         IN  /\ t \in Sweeps /\ Apart(t) /\ Balanced(t)
             /\ t.current = s.current /\ t.revealed = s.revealed /\ t.buffer = <<>>
             /\ t.asked = s.asked /\ t.inflight = s.inflight /\ t.queue = s.queue
             /\ t.done = s.done /\ t.timer = s.timer
<1> DEFINE nothing == <<>>
           t == [s EXCEPT !.buffer = nothing]
<1>1. nothing \in Seq(Reply) /\ Len(nothing) = 0
  OBVIOUS
<1> HIDE DEF nothing
<1>3. t \in Sweeps
  BY <1>1 DEF Sweeps
<1>4. /\ t.current = s.current /\ t.revealed = s.revealed /\ t.buffer = nothing
      /\ t.total = s.total /\ t.timer = s.timer
      /\ t.completed = s.completed /\ t.asked = s.asked /\ t.inflight = s.inflight
      /\ t.queue = s.queue /\ t.done = s.done
  BY DEF Sweeps
<1> HIDE DEF t
<1>5. Balanced(t)
  BY <1>4 DEF Balanced
<1>6. Apart(t)
  <2>1. 1..Len(t.buffer) = {}
    BY <1>1, <1>4
  <2> QED
    BY <2>1, <1>4 DEF Apart, Once, KeysOf
<1> QED
  BY <1>3, <1>4, <1>5, <1>6 DEF t, nothing
LEMMA OneMoreOneLess ==
  ASSUME NEW a \in Nat, NEW b \in Nat, NEW c \in Nat, NEW d, a + b + c = d
  PROVE  (a + 1) + (b - 1) + c = d
OBVIOUS

LEMMA CountedFacts ==
  ASSUME NEW s \in Sweeps, Apart(s), Balanced(s), NEW k \in s.asked, NEW a \in Answers
  PROVE  LET t == Counted(s, <<k, a>>)
         IN  /\ t \in Sweeps /\ Apart(t) /\ Balanced(t)
             /\ t.current = s.current /\ t.revealed = s.revealed /\ t.timer = s.timer
             /\ t.done = s.done /\ t.buffer = Append(s.buffer, <<k, a>>)
<1> DEFINE answer == <<k, a>>
           t == Counted(s, answer)
           asking == s.inflight - 1
           asked == s.asked \ {k}
           completed == s.completed + 1
           buffer == Append(s.buffer, answer)
           warmed == IF k \in s.warm THEN s.warmed + 1 ELSE s.warmed
<1>1. answer \in Reply /\ answer[1] = k
  BY SweepFields DEF Reply
<1>2. s.inflight > 0 /\ Cardinality(asked) = s.inflight - 1
  <2>1. IsFiniteSet(s.asked) /\ Cardinality(s.asked) \in Nat
    BY KeysAreFinite, SweepFields
  <2>2. Cardinality(s.asked) > 0
    BY <2>1, FS_EmptySet
  <2>3. Cardinality(asked) = Cardinality(s.asked) - 1
    BY <2>1, FS_RemoveElement
  <2> QED
    BY <2>2, <2>3 DEF Balanced
<1>3. /\ buffer \in Seq(Reply) /\ Len(buffer) = Len(s.buffer) + 1
      /\ buffer[Len(buffer)] = answer
      /\ \A i \in 1..Len(s.buffer) : buffer[i] = s.buffer[i]
  <2> HIDE DEF answer
  <2>1. s.buffer \in Seq(Reply)
    BY SweepFields
  <2> QED
    BY <1>1, <2>1
<1>4. /\ asking \in Nat /\ asked \in SUBSET Keys /\ completed \in Nat /\ warmed \in Nat
  BY <1>2, SweepFields
<1>5. t = [s EXCEPT !.inflight = asking, !.asked = asked, !.completed = completed,
                    !.buffer = buffer, !.warmed = warmed]
  BY <1>1 DEF Counted
<1> HIDE DEF asking, asked, completed, buffer, warmed, t
<1>6. t \in Sweeps
  BY <1>3, <1>4, <1>5 DEF Sweeps
<1>7. /\ t.current = s.current /\ t.revealed = s.revealed /\ t.timer = s.timer
      /\ t.done = s.done /\ t.buffer = buffer /\ t.inflight = asking /\ t.asked = asked
      /\ t.completed = completed /\ t.queue = s.queue /\ t.total = s.total
  BY <1>5 DEF Sweeps
<1>8. Balanced(t)
  <2>1. s.completed + s.inflight + Len(s.queue) = s.total
    BY DEF Balanced
  <2>2. /\ s.completed \in Nat /\ s.inflight \in Nat /\ Len(s.queue) \in Nat
        /\ s.total \in Nat
    BY SweepFields
  <2>3. completed = s.completed + 1 /\ asking = s.inflight - 1
    BY DEF completed, asking
  <2>4. completed + asking + Len(s.queue) = s.total
    <3> DEFINE x == s.completed
               y == s.inflight
               z == Len(s.queue)
    <3>1. x \in Nat /\ y \in Nat /\ z \in Nat /\ x + y + z = s.total
      BY <2>1, <2>2
    <3> HIDE DEF x, y, z
    <3>2. (x + 1) + (y - 1) + z = s.total
      BY <3>1, OneMoreOneLess
    <3>3. completed = x + 1 /\ asking = y - 1
      BY <2>3 DEF x, y
    <3> QED
      BY <3>2, <3>3 DEF z
  <2>5. t.completed + t.inflight + Len(t.queue) = t.total
    BY <2>4, <1>7
  <2>6. t.inflight = Cardinality(t.asked)
    BY <2>3, <1>2, <1>7
  <2> QED
    BY <2>5, <2>6 DEF Balanced
<1> HIDE DEF answer
<1>9. KeysOf(buffer) = KeysOf(s.buffer) \union {k}
  <2>1. Len(s.buffer) \in Nat
    BY SweepFields
  <2>2. ASSUME NEW i \in 1..Len(buffer) PROVE buffer[i][1] \in KeysOf(s.buffer) \union {k}
    <3>1. CASE i \in 1..Len(s.buffer)
      <4>1. s.buffer[i][1] \in KeysOf(s.buffer)
        BY <3>1 DEF KeysOf
      <4> QED
        BY <3>1, <4>1, <1>3
    <3>2. CASE i \notin 1..Len(s.buffer)
      <4>1. i = Len(buffer)
        BY <3>2, <2>1, <1>3
      <4> QED
        BY <4>1, <1>1, <1>3
    <3> QED
      BY <3>1, <3>2
  <2>3. ASSUME NEW i \in 1..Len(s.buffer) PROVE s.buffer[i][1] \in KeysOf(buffer)
    <3>1. i \in 1..Len(buffer) /\ buffer[i] = s.buffer[i]
      BY <2>1, <1>3
    <3> QED
      BY <3>1 DEF KeysOf
  <2>4. k \in KeysOf(buffer)
    <3>1. Len(buffer) \in 1..Len(buffer)
      BY <2>1, <1>3
    <3> QED
      BY <3>1, <1>1, <1>3 DEF KeysOf
  <2> QED
    BY <2>2, <2>3, <2>4 DEF KeysOf
<1>10. Once(buffer)
  <2> SUFFICES ASSUME NEW i \in 1..Len(buffer), NEW j \in 1..Len(buffer),
                      buffer[i][1] = buffer[j][1]
               PROVE  i = j
    BY DEF Once
  <2>1. Len(s.buffer) \in Nat
    BY SweepFields
  <2>2. \A n \in 1..Len(buffer) : n # Len(buffer) => n \in 1..Len(s.buffer)
    BY <2>1, <1>3
  <2>3. \A n \in 1..Len(s.buffer) : s.buffer[n][1] # k
    BY DEF Apart, KeysOf
  <2>4. CASE i \in 1..Len(s.buffer) /\ j \in 1..Len(s.buffer)
    BY <2>4, <1>3 DEF Apart, Once
  <2>5. CASE i \in 1..Len(s.buffer) /\ j = Len(buffer)
    BY <2>5, <2>3, <1>1, <1>3
  <2>6. CASE i = Len(buffer) /\ j \in 1..Len(s.buffer)
    BY <2>6, <2>3, <1>1, <1>3
  <2> QED
    BY <2>2, <2>4, <2>5, <2>6
<1>11. Apart(t)
  <2>1. \A i, j \in 1..Len(s.queue) : s.queue[i] = s.queue[j] => i = j
    BY DEF Apart
  <2>2. \A i \in 1..Len(s.queue) : s.queue[i] \notin s.asked /\ s.queue[i] \notin KeysOf(s.buffer)
    BY DEF Apart
  <2>3. s.asked \intersect KeysOf(s.buffer) = {}
    BY DEF Apart
  <2>4. \A i \in 1..Len(s.queue) : s.queue[i] \notin asked /\ s.queue[i] \notin KeysOf(buffer)
    BY <2>2, <1>9 DEF asked
  <2>5. asked \intersect KeysOf(buffer) = {}
    BY <2>3, <1>9 DEF asked
  <2> QED
    BY <2>1, <2>4, <2>5, <1>7, <1>10 DEF Apart
<1> QED
  BY <1>6, <1>7, <1>8, <1>11 DEF t, answer, buffer

(* An answer ends the sweep when nothing is left, and shows the list then. *)
LEMMA AnsweredFacts ==
  ASSUME NEW s \in Sweeps, SweepInv(s), NEW k \in s.asked, NEW a \in Answers,
         NEW list \in SUBSET Keys
  PROVE  LET t == Answered(s, <<k, a>>, list)
         IN  /\ t \in Sweeps /\ SweepInv(t) /\ s.current /\ t.current
             /\ ~t.revealed => ~s.revealed
             /\ t.buffer = <<>> \/ t.buffer = Append(s.buffer, <<k, a>>)
<1> DEFINE c == Counted(s, <<k, a>>)
           f == IF Len(c.buffer) >= FlushMax THEN [c EXCEPT !.buffer = <<>>] ELSE c
           w == IF ~f.revealed /\ f.warmed >= f.target THEN Revealed(f) ELSE f
           p == Pumped(w, list)
           t == Finished(p)
<1>1. Answered(s, <<k, a>>, list) = t
  BY DEF Answered
<1>2. Apart(s) /\ Balanced(s) /\ Ended(s)
  BY DEF SweepInv
<1>3. s.current /\ ~s.done /\ (~s.revealed => s.timer)
  BY <1>2, NoSweepFacts DEF SweepInv, Ended
<1>4. /\ c \in Sweeps /\ Apart(c) /\ Balanced(c)
      /\ c.current = s.current /\ c.revealed = s.revealed /\ c.timer = s.timer
      /\ c.done = s.done /\ c.buffer = Append(s.buffer, <<k, a>>)
  BY <1>2, CountedFacts
<1> HIDE DEF c
<1>5. /\ f \in Sweeps /\ Apart(f) /\ Balanced(f)
      /\ f.current = s.current /\ f.revealed = s.revealed /\ f.timer = s.timer
      /\ f.done = s.done
      /\ f.buffer = <<>> \/ f.buffer = Append(s.buffer, <<k, a>>)
  BY <1>4, FlushedFacts
<1> HIDE DEF f
<1>6. /\ w \in Sweeps /\ Apart(w) /\ Balanced(w)
      /\ w.current = s.current /\ (~w.revealed => ~s.revealed /\ w.timer = s.timer)
      /\ w.done = s.done
      /\ w.buffer = <<>> \/ w.buffer = Append(s.buffer, <<k, a>>)
  BY <1>5, RevealedFacts
<1> HIDE DEF w
<1>7. /\ p \in Sweeps /\ SameShow(w, p) /\ Apart(p) /\ Balanced(p)
      /\ p.inflight > 0 \/ p.queue = <<>>
  BY <1>6, PumpedFacts
<1> HIDE DEF p
<1>8. /\ p.current = s.current /\ (~p.revealed => ~s.revealed /\ p.timer = s.timer)
      /\ p.done = s.done
      /\ p.buffer = <<>> \/ p.buffer = Append(s.buffer, <<k, a>>)
  BY <1>6, <1>7 DEF SameShow
<1>9. CASE p.inflight = 0 /\ p.queue = <<>>
  <2> DEFINE r == Revealed(p)
  <2>1. /\ r \in Sweeps /\ Apart(r) /\ Balanced(r)
        /\ r.current = p.current /\ r.revealed /\ r.buffer = <<>>
        /\ r.asked = p.asked /\ r.inflight = p.inflight /\ r.queue = p.queue
        /\ r.done = p.done
    BY <1>7, RevealedFacts
  <2>2. t = [r EXCEPT !.done = TRUE]
    BY <1>9 DEF Finished
  <2> HIDE DEF r, t
  <2>3. t \in Sweeps
    BY <2>1, <2>2 DEF Sweeps
  <2>4. /\ t.current = r.current /\ t.revealed = r.revealed /\ t.buffer = r.buffer
        /\ t.asked = r.asked /\ t.inflight = r.inflight /\ t.queue = r.queue /\ t.done
        /\ t.completed = r.completed /\ t.total = r.total
    BY <2>1, <2>2 DEF Sweeps
  <2>5. Apart(t) /\ Balanced(t)
    BY <2>1, <2>4 DEF Apart, Balanced
  <2>6. t.asked = {}
    <3>1. Cardinality(p.asked) = 0
      BY <1>7, <1>9 DEF Balanced
    <3>2. IsFiniteSet(p.asked)
      BY <1>7, KeysAreFinite, SweepFields
    <3> QED
      BY <3>1, <3>2, <2>1, <2>4, FS_EmptySet
  <2>7. SweepInv(t)
    BY <2>1, <2>4, <2>5, <2>6, <1>3, <1>8 DEF SweepInv, Ended
  <2> QED
    BY <1>1, <1>3, <1>8, <2>1, <2>3, <2>4, <2>7
<1>10. CASE ~(p.inflight = 0 /\ p.queue = <<>>)
  <2>1. t = p
    BY <1>10 DEF Finished
  <2> HIDE DEF t
  <2>2. p.inflight > 0
    <3>1. p.inflight \in Nat
      BY <1>7, SweepFields
    <3> QED
      BY <3>1, <1>7, <1>10
  <2>3. SweepInv(t)
    BY <2>1, <2>2, <1>3, <1>7, <1>8 DEF SweepInv, Ended
  <2> QED
    BY <1>1, <1>3, <1>7, <1>8, <2>1, <2>3
<1> QED
  BY <1>9, <1>10

LEMMA AppliedFacts ==
  ASSUME NEW s \in Sweeps, SweepInv(s), NEW k \in s.asked, NEW a \in Answers,
         NEW t
  PROVE  AppliedBy(s, t, <<k, a>>) \in Seq(Reply) /\ Once(AppliedBy(s, t, <<k, a>>))
<1> DEFINE c == Counted(s, <<k, a>>)
<1>1. Apart(s) /\ Balanced(s)
  BY DEF SweepInv
<1>2. c \in Sweeps /\ Apart(c) /\ c.buffer = Append(s.buffer, <<k, a>>)
  BY <1>1, CountedFacts
<1> HIDE DEF c
<1>3. c.buffer \in Seq(Reply) /\ Once(c.buffer)
  BY <1>2, SweepFields DEF Apart
<1>4. <<>> \in Seq(Reply) /\ Once(<<>>)
  BY DEF Once
<1> QED
  BY <1>2, <1>3, <1>4 DEF AppliedBy
(***************************************************************************)
(* The catalogue: its jobs and its flags.                                  *)
(***************************************************************************)
(* What a job says about the catalogue it was made for. *)
JobOK(c, job, list) ==
  /\ job.kind # "cache" => job.gen <= c.gen
  /\ job.kind = "cache" => job.gen <= c.cacheGen
  /\ job.kind = "refresh" => c.refreshing /\ (job.gen = c.gen => c.ready /\ job.list = list)
  /\ job.kind = "migrate" => c.migrating /\ (job.gen = c.gen => c.ready /\ job.list = c.index)
  /\ job.kind = "cache" /\ job.gen = c.cacheGen => job.list = list
  /\ job.kind = "restore" /\ job.gen = c.gen =>
       /\ c.restoring /\ ~c.ready /\ ~c.refreshing /\ ~c.migrating
       /\ job.out # "queued" /\ c.disk.format = 0 => job.file.format = 0
       /\ job.out # "queued" /\ c.disk.format # 0 => job.file = c.disk

JobsOK(c, list) == \A i \in 1..Len(c.jobs) : JobOK(c, c.jobs[i], list)

(* Two jobs that never are under way together. *)
Rivals(c, job, other) ==
  \/ job.kind \in {"refresh", "migrate"} /\ other.kind \in {"refresh", "migrate"}
  \/ job.kind = "restore" /\ job.gen = c.gen /\ other.kind = "restore" /\ other.gen = c.gen

NoRivals(c) == \A i, j \in 1..Len(c.jobs) : Rivals(c, c.jobs[i], c.jobs[j]) => i = j

FlagsBacked(c) ==
  /\ c.refreshing => \E i \in 1..Len(c.jobs) : c.jobs[i].kind = "refresh"
  /\ c.migrating => \E i \in 1..Len(c.jobs) : c.jobs[i].kind = "migrate"
  /\ c.restoring => /\ c.restoreGen = c.gen
                    /\ \E i \in 1..Len(c.jobs) : /\ c.jobs[i].kind = "restore"
                                                 /\ c.jobs[i].gen = c.gen

OnDisk(c) ==
  c.ready => c.migrate \/ c.expired \/ (c.disk.format = 2 /\ c.disk.list = c.index)

TimersOK(c, list) ==
  /\ \A g \in c.timers : g <= c.cacheGen
  /\ c.cacheGen \in c.timers => c.candidate = list

CatInv(c, list) ==
  /\ JobsOK(c, list)
  /\ NoRivals(c)
  /\ FlagsBacked(c)
  /\ c.migrate => c.ready
  /\ OnDisk(c)
  /\ TimersOK(c, list)

(* Nothing was made for the present list yet. *)
Quiet(c) ==
  /\ \A i \in 1..Len(c.jobs) : /\ c.jobs[i].kind # "cache" => c.jobs[i].gen < c.gen
                               /\ c.jobs[i].kind = "cache" => c.jobs[i].gen < c.cacheGen
  /\ c.cacheGen \notin c.timers

(* What is kept in files, and what of the catalogue is in memory. *)
SameFiles(c, d) == d.disk = c.disk /\ d.persisted = c.persisted

LEMMA CatFields ==
  ASSUME NEW c \in Catalogues
  PROVE  /\ c.gen \in Nat /\ c.ready \in BOOLEAN /\ c.expired \in BOOLEAN /\ c.migrate \in BOOLEAN
         /\ c.index \in SUBSET Keys /\ c.disk \in Files /\ c.restoring \in BOOLEAN
         /\ c.restoreGen \in Nat /\ c.refreshing \in BOOLEAN /\ c.migrating \in BOOLEAN
         /\ c.cacheGen \in Nat /\ c.candidate \in SUBSET Keys /\ c.persisted \in SUBSET Keys
         /\ c.timers \in SUBSET Nat /\ c.jobs \in Seq(Jobs) /\ Len(c.jobs) \in Nat
         /\ c.pending \in BOOLEAN /\ c.allowed \in BOOLEAN
BY DEF Catalogues

LEMMA JobFields ==
  ASSUME NEW c \in Catalogues, NEW i \in 1..Len(c.jobs)
  PROVE  /\ c.jobs[i] \in Jobs
         /\ c.jobs[i].kind \in {"restore", "refresh", "migrate", "cache"}
         /\ c.jobs[i].gen \in Nat /\ c.jobs[i].list \in SUBSET Keys
         /\ c.jobs[i].out \in {"queued", "failed", "made"} /\ c.jobs[i].file \in Files
<1>1. c.jobs[i] \in Jobs
  BY CatFields
<1> QED
  BY <1>1 DEF Jobs

LEMMA FileFields ==
  ASSUME NEW f \in Files
  PROVE  f.format \in {0, 1, 2} /\ f.list \in SUBSET Keys /\ f.old \in BOOLEAN
BY DEF Files

LEMMA QuietForAnyList ==
  ASSUME NEW c \in Catalogues, NEW list, NEW other, CatInv(c, list), Quiet(c)
  PROVE  CatInv(c, other)
<1>1. ASSUME NEW i \in 1..Len(c.jobs) PROVE JobOK(c, c.jobs[i], other)
  <2>1. /\ c.jobs[i].kind # "cache" => c.jobs[i].gen < c.gen
        /\ c.jobs[i].kind = "cache" => c.jobs[i].gen < c.cacheGen
    BY DEF Quiet
  <2>2. JobOK(c, c.jobs[i], list)
    BY DEF CatInv, JobsOK
  <2>3. c.jobs[i].gen \in Nat /\ c.gen \in Nat /\ c.cacheGen \in Nat
    BY JobFields, CatFields
  <2> DEFINE job == c.jobs[i]
  <2> HIDE DEF job
  <2>4. job.kind # "cache" => job.gen # c.gen
    BY <2>1, <2>3 DEF job
  <2>5. job.kind = "cache" => job.gen # c.cacheGen
    BY <2>1, <2>3 DEF job
  <2>6. JobOK(c, job, list)
    BY <2>2 DEF job
  <2>7. JobOK(c, job, other)
    BY <2>4, <2>5, <2>6 DEF JobOK
  <2> QED
    BY <2>7 DEF job
<1>2. TimersOK(c, other)
  BY DEF CatInv, TimersOK, Quiet
<1> QED
  BY <1>1, <1>2 DEF CatInv, JobsOK

(* The invariant reads no more of a catalogue than this. *)
Claims(c, d) ==
  /\ d.gen = c.gen /\ d.ready = c.ready /\ d.expired = c.expired /\ d.migrate = c.migrate
  /\ d.index = c.index /\ d.disk = c.disk /\ d.restoring = c.restoring
  /\ d.restoreGen = c.restoreGen /\ d.refreshing = c.refreshing /\ d.migrating = c.migrating
  /\ d.cacheGen = c.cacheGen /\ d.candidate = c.candidate /\ d.timers = c.timers
  /\ d.jobs = c.jobs

LEMMA ClaimsSuffice ==
  ASSUME NEW c, NEW d, NEW list, CatInv(c, list), Claims(c, d)
  PROVE  CatInv(d, list) /\ (Quiet(c) => Quiet(d))
BY DEF Claims, CatInv, JobsOK, JobOK, NoRivals, Rivals, FlagsBacked, OnDisk, TimersOK, Quiet

LEMMA OutdatedFacts ==
  ASSUME NEW c \in Catalogues, NEW list, NEW other, CatInv(c, list)
  PROVE  LET d == Outdated(c)
         IN  /\ d \in Catalogues /\ CatInv(d, other) /\ Quiet(d) /\ SameFiles(c, d)
             /\ d.index = c.index /\ d.ready = c.ready
<1> DEFINE d == Outdated(c)
           no == FALSE
           gen == c.gen + 1
           cacheGen == c.cacheGen + 1
<1>1. /\ d = [c EXCEPT !.gen = gen, !.pending = no, !.allowed = no, !.restoring = no,
                       !.cacheGen = cacheGen]
      /\ no \in BOOLEAN /\ ~no
  BY DEF Outdated
<1>2. gen \in Nat /\ cacheGen \in Nat /\ c.gen < gen /\ c.cacheGen < cacheGen
  BY CatFields
<1> HIDE DEF d, no, gen, cacheGen
<1>3. d \in Catalogues
  BY <1>1, <1>2 DEF Catalogues
<1>4. /\ d.gen = gen /\ ~d.restoring /\ d.cacheGen = cacheGen /\ d.ready = c.ready
      /\ d.expired = c.expired /\ d.migrate = c.migrate /\ d.index = c.index
      /\ d.disk = c.disk /\ d.refreshing = c.refreshing /\ d.migrating = c.migrating
      /\ d.candidate = c.candidate /\ d.persisted = c.persisted /\ d.timers = c.timers
      /\ d.jobs = c.jobs
  BY <1>1 DEF Catalogues
<1>5. Quiet(d)
  <2>1. ASSUME NEW i \in 1..Len(d.jobs)
        PROVE  /\ d.jobs[i].kind # "cache" => d.jobs[i].gen < d.gen
               /\ d.jobs[i].kind = "cache" => d.jobs[i].gen < d.cacheGen
    <3> DEFINE job == c.jobs[i]
    <3>1. i \in 1..Len(c.jobs) /\ d.jobs[i] = job
      BY <1>4
    <3>2. JobOK(c, job, list) /\ job.gen \in Nat
      BY <3>1, JobFields DEF CatInv, JobsOK
    <3> HIDE DEF job
    <3>3. /\ job.kind # "cache" => job.gen <= c.gen
          /\ job.kind = "cache" => job.gen <= c.cacheGen
      BY <3>2 DEF JobOK
    <3>4. c.gen \in Nat /\ c.cacheGen \in Nat
      BY CatFields
    <3>5. CASE job.kind = "cache"
      <4>1. job.gen < cacheGen
        BY <3>2, <3>3, <3>4, <3>5, <1>2
      <4> QED
        BY <4>1, <3>1, <3>5, <1>4
    <3>6. CASE job.kind # "cache"
      <4>1. job.gen < gen
        BY <3>2, <3>3, <3>4, <3>6, <1>2
      <4> QED
        BY <4>1, <3>1, <3>6, <1>4
    <3> QED
      BY <3>5, <3>6
  <2>2. d.cacheGen \notin d.timers
    <3>1. \A g \in c.timers : g \in Nat /\ g <= c.cacheGen
      BY CatFields DEF CatInv, TimersOK
    <3>2. c.cacheGen \in Nat
      BY CatFields
    <3>3. cacheGen \notin c.timers
      BY <1>2, <3>1, <3>2
    <3> QED
      BY <3>3, <1>4
  <2> QED
    BY <2>1, <2>2 DEF Quiet
<1>6. CatInv(d, other)
  <2>1. ASSUME NEW i \in 1..Len(d.jobs) PROVE JobOK(d, d.jobs[i], other)
    <3> DEFINE job == d.jobs[i]
    <3>1. JobOK(c, job, list) /\ job.gen \in Nat /\ d.gen \in Nat /\ d.cacheGen \in Nat
      BY <1>3, <1>4, JobFields, CatFields DEF CatInv, JobsOK
    <3>2. /\ job.kind # "cache" => job.gen < d.gen
          /\ job.kind = "cache" => job.gen < d.cacheGen
      BY <1>5 DEF Quiet
    <3> HIDE DEF job
    <3>3. /\ job.kind # "cache" => job.gen <= d.gen /\ job.gen # d.gen
          /\ job.kind = "cache" => job.gen <= d.cacheGen /\ job.gen # d.cacheGen
      BY <3>1, <3>2
    <3>4. JobOK(d, job, other)
      BY <3>1, <3>3, <1>4 DEF JobOK
    <3> QED
      BY <3>4 DEF job
  <2>2. NoRivals(d)
    <3> SUFFICES ASSUME NEW i \in 1..Len(d.jobs), NEW j \in 1..Len(d.jobs),
                        Rivals(d, d.jobs[i], d.jobs[j])
                 PROVE  i = j
      BY DEF NoRivals
    <3>1. ~(d.jobs[i].kind = "restore" /\ d.jobs[i].gen = d.gen)
      <4>1. d.jobs[i].kind = "restore" => d.jobs[i].gen < d.gen
        BY <1>5 DEF Quiet
      <4> QED
        BY <4>1, <1>3, JobFields, CatFields
    <3>2. Rivals(c, c.jobs[i], c.jobs[j])
      BY <3>1, <1>4 DEF Rivals
    <3> QED
      BY <3>2, <1>4 DEF CatInv, NoRivals
  <2>3. FlagsBacked(d)
    BY <1>4 DEF CatInv, FlagsBacked
  <2>4. (d.migrate => d.ready) /\ OnDisk(d)
    BY <1>4 DEF CatInv, OnDisk
  <2>5. TimersOK(d, other)
    <3>1. \A g \in c.timers : g \in Nat /\ g <= c.cacheGen
      BY CatFields DEF CatInv, TimersOK
    <3>2. \A g \in c.timers : g <= cacheGen
      BY <3>1, <1>2, CatFields
    <3> QED
      BY <3>2, <1>4, <1>5 DEF TimersOK, Quiet
  <2> QED
    BY <2>1, <2>2, <2>3, <2>4, <2>5 DEF CatInv, JobsOK
<1> QED
  BY <1>3, <1>4, <1>5, <1>6 DEF SameFiles, d
(* A job more. *)
LEMMA AppendedJob ==
  ASSUME NEW jobs \in Seq(Jobs), NEW job \in Jobs
  PROVE  LET longer == Append(jobs, job)
         IN  /\ longer \in Seq(Jobs) /\ Len(longer) = Len(jobs) + 1
             /\ longer[Len(jobs) + 1] = job /\ Len(jobs) + 1 \in 1..Len(longer)
             /\ \A i \in 1..Len(jobs) : i \in 1..Len(longer) /\ longer[i] = jobs[i]
             /\ \A i \in 1..Len(longer) : i \in 1..Len(jobs) \/ i = Len(jobs) + 1
OBVIOUS

LEMMA SubmittedJob ==
  ASSUME NEW kind \in {"restore", "refresh", "migrate", "cache"}, NEW gen \in Nat,
         NEW list \in SUBSET Keys
  PROVE  [kind |-> kind, gen |-> gen, list |-> list, out |-> "queued", file |-> NoFile] \in Jobs
<1>1. NoFile \in Files
  BY DEF NoFile, Files
<1>2. "queued" \in {"queued", "failed", "made"}
  OBVIOUS
<1> DEFINE out == "queued"
<1> HIDE DEF out
<1>3. out \in {"queued", "failed", "made"}
  BY <1>2 DEF out
<1>4. [kind |-> kind, gen |-> gen, list |-> list, out |-> out, file |-> NoFile] \in Jobs
  BY <1>1, <1>3 DEF Jobs
<1> QED
  BY <1>4 DEF out

LEMMA SubmittedFacts ==
  ASSUME NEW c \in Catalogues, NEW kind \in {"restore", "refresh", "migrate", "cache"},
         NEW gen \in Nat, NEW list \in SUBSET Keys
  PROVE  LET d == Submitted(c, kind, gen, list)
             job == [kind |-> kind, gen |-> gen, list |-> list, out |-> "queued", file |-> NoFile]
         IN  /\ d \in Catalogues /\ job \in Jobs
             /\ d.jobs = Append(c.jobs, job)
             /\ d.gen = c.gen /\ d.ready = c.ready /\ d.expired = c.expired
             /\ d.migrate = c.migrate /\ d.index = c.index /\ d.disk = c.disk
             /\ d.restoring = c.restoring /\ d.restoreGen = c.restoreGen
             /\ d.refreshing = c.refreshing /\ d.migrating = c.migrating
             /\ d.cacheGen = c.cacheGen /\ d.candidate = c.candidate /\ d.timers = c.timers
             /\ d.persisted = c.persisted
<1> DEFINE d == Submitted(c, kind, gen, list)
           job == [kind |-> kind, gen |-> gen, list |-> list, out |-> "queued", file |-> NoFile]
           jobs == Append(c.jobs, job)
<1>1. job \in Jobs
  BY SubmittedJob
<1>2. d = [c EXCEPT !.jobs = jobs]
  BY DEF Submitted
<1> HIDE DEF job
<1>3. jobs \in Seq(Jobs)
  BY <1>1, CatFields, AppendedJob
<1> HIDE DEF d, jobs
<1>4. d \in Catalogues
  BY <1>2, <1>3 DEF Catalogues
<1>5. /\ d.jobs = jobs
      /\ d.gen = c.gen /\ d.ready = c.ready /\ d.expired = c.expired
      /\ d.migrate = c.migrate /\ d.index = c.index /\ d.disk = c.disk
      /\ d.restoring = c.restoring /\ d.restoreGen = c.restoreGen
      /\ d.refreshing = c.refreshing /\ d.migrating = c.migrating
      /\ d.cacheGen = c.cacheGen /\ d.candidate = c.candidate /\ d.timers = c.timers
      /\ d.persisted = c.persisted
  BY <1>2 DEF Catalogues
<1> QED
  BY <1>1, <1>4, <1>5 DEF d, jobs, job

LEMMA OneMoreJob ==
  ASSUME NEW c \in Catalogues, NEW d \in Catalogues, NEW job \in Jobs, NEW list,
         JobsOK(c, list), NoRivals(c),
         d.jobs = Append(c.jobs, job), d.gen = c.gen,
         \A i \in 1..Len(c.jobs) : JobOK(d, c.jobs[i], list) /\ ~Rivals(d, c.jobs[i], job)
                                   /\ ~Rivals(d, job, c.jobs[i]),
         JobOK(d, job, list)
  PROVE  /\ JobsOK(d, list) /\ NoRivals(d)
         /\ \E i \in 1..Len(d.jobs) : d.jobs[i] = job
         /\ \A i \in 1..Len(c.jobs) : \E j \in 1..Len(d.jobs) : d.jobs[j] = c.jobs[i]
<1> DEFINE jobs == c.jobs
           longer == d.jobs
           last == Len(jobs) + 1
<1>1. /\ Len(longer) = Len(jobs) + 1
      /\ longer[last] = job /\ last \in 1..Len(longer)
      /\ \A i \in 1..Len(jobs) : i \in 1..Len(longer) /\ longer[i] = jobs[i]
      /\ \A i \in 1..Len(longer) : i \in 1..Len(jobs) \/ i = last
  BY CatFields, AppendedJob
<1>2. \A i \in 1..Len(jobs) : JobOK(d, jobs[i], list) /\ ~Rivals(d, jobs[i], job)
                              /\ ~Rivals(d, job, jobs[i])
  OBVIOUS
<1>3. \A i, j \in 1..Len(jobs) : Rivals(c, jobs[i], jobs[j]) => i = j
  BY DEF NoRivals
<1>4. \A one, other : Rivals(d, one, other) <=> Rivals(c, one, other)
  BY DEF Rivals
<1> HIDE DEF jobs, longer, last
<1>5. \A i \in 1..Len(longer) : JobOK(d, longer[i], list)
  BY <1>1, <1>2
<1>6. ASSUME NEW i \in 1..Len(longer), NEW j \in 1..Len(longer),
             Rivals(d, longer[i], longer[j])
      PROVE  i = j
  <2>1. CASE i \in 1..Len(jobs) /\ j \in 1..Len(jobs)
    BY <2>1, <1>1, <1>3, <1>4, <1>6
  <2>2. CASE i \in 1..Len(jobs) /\ j = last
    BY <2>2, <1>1, <1>2, <1>6
  <2>3. CASE i = last /\ j \in 1..Len(jobs)
    BY <2>3, <1>1, <1>2, <1>6
  <2> QED
    BY <2>1, <2>2, <2>3, <1>1
<1>7. /\ \E i \in 1..Len(longer) : longer[i] = job
      /\ \A i \in 1..Len(jobs) : \E j \in 1..Len(longer) : longer[j] = jobs[i]
  BY <1>1
<1>8. JobsOK(d, list) /\ NoRivals(d)
  BY <1>5, <1>6 DEF JobsOK, NoRivals, longer
<1> QED
  BY <1>7, <1>8 DEF longer, jobs

LEMMA KindsDiffer ==
  /\ "restore" # "refresh" /\ "restore" # "migrate" /\ "restore" # "cache"
  /\ "refresh" # "migrate" /\ "refresh" # "cache" /\ "migrate" # "cache"
  /\ "queued" # "failed" /\ "queued" # "made" /\ "failed" # "made"
OBVIOUS

LEMMA RestoreStarts ==
  ASSUME NEW c \in Catalogues, NEW list \in SUBSET Keys, CatInv(c, list),
         ~c.ready, ~c.restoring, ~c.refreshing, ~c.migrating
  PROVE  LET d == Submitted([c EXCEPT !.restoring = TRUE, !.restoreGen = c.gen],
                            "restore", c.gen, list)
         IN  d \in Catalogues /\ CatInv(d, list) /\ SameFiles(c, d)
<1> DEFINE yes == TRUE
           e == [c EXCEPT !.restoring = yes, !.restoreGen = c.gen]
           kind == "restore"
           d == Submitted(e, kind, c.gen, list)
           job == [kind |-> kind, gen |-> c.gen, list |-> list, out |-> "queued", file |-> NoFile]
<1>1. yes \in BOOLEAN /\ yes /\ kind = "restore"
      /\ kind \in {"restore", "refresh", "migrate", "cache"}
  OBVIOUS
<1>2. c.gen \in Nat
  BY CatFields
<1> HIDE DEF yes, kind
<1>3. e \in Catalogues
  BY <1>1, <1>2 DEF Catalogues
<1>4. /\ e.restoring /\ e.restoreGen = c.gen /\ e.gen = c.gen /\ e.ready = c.ready
      /\ e.expired = c.expired /\ e.migrate = c.migrate /\ e.index = c.index
      /\ e.disk = c.disk /\ e.refreshing = c.refreshing /\ e.migrating = c.migrating
      /\ e.cacheGen = c.cacheGen /\ e.candidate = c.candidate /\ e.timers = c.timers
      /\ e.persisted = c.persisted /\ e.jobs = c.jobs
  BY <1>1 DEF Catalogues
<1> HIDE DEF e
<1>5. /\ d \in Catalogues /\ job \in Jobs
      /\ d.jobs = Append(e.jobs, job)
      /\ d.gen = e.gen /\ d.ready = e.ready /\ d.expired = e.expired
      /\ d.migrate = e.migrate /\ d.index = e.index /\ d.disk = e.disk
      /\ d.restoring = e.restoring /\ d.restoreGen = e.restoreGen
      /\ d.refreshing = e.refreshing /\ d.migrating = e.migrating
      /\ d.cacheGen = e.cacheGen /\ d.candidate = e.candidate /\ d.timers = e.timers
      /\ d.persisted = e.persisted
  BY <1>1, <1>2, <1>3, SubmittedFacts
<1>6. job.kind = "restore" /\ job.gen = c.gen /\ job.out = "queued"
  BY <1>1
<1> HIDE DEF d, job
<1>7. ASSUME NEW i \in 1..Len(c.jobs)
      PROVE  /\ JobOK(d, c.jobs[i], list)
             /\ ~Rivals(d, c.jobs[i], job) /\ ~Rivals(d, job, c.jobs[i])
  <2> DEFINE other == c.jobs[i]
  <2>1. JobOK(c, other, list)
    BY DEF CatInv, JobsOK
  <2> HIDE DEF other
  <2>2. ~(other.kind = "restore" /\ other.gen = c.gen)
    BY <2>1 DEF JobOK
  <2>3. JobOK(d, other, list)
    BY <2>1, <2>2, <1>4, <1>5 DEF JobOK
  <2>4. ~Rivals(d, other, job) /\ ~Rivals(d, job, other)
    BY <2>2, <1>4, <1>5, <1>6, KindsDiffer DEF Rivals
  <2> QED
    BY <2>3, <2>4 DEF other
<1>8. JobOK(d, job, list)
  BY <1>2, <1>4, <1>5, <1>6, KindsDiffer DEF JobOK
<1>9. /\ JobsOK(d, list) /\ NoRivals(d)
      /\ \E i \in 1..Len(d.jobs) : d.jobs[i] = job
  <2>1. JobsOK(c, list) /\ NoRivals(c)
    BY DEF CatInv
  <2> QED
    BY <2>1, <1>4, <1>5, <1>7, <1>8, OneMoreJob
<1>10. FlagsBacked(d)
  BY <1>4, <1>5, <1>6, <1>9 DEF FlagsBacked
<1>11. (d.migrate => d.ready) /\ OnDisk(d) /\ TimersOK(d, list)
  BY <1>4, <1>5 DEF CatInv, OnDisk, TimersOK
<1>12. CatInv(d, list) /\ SameFiles(c, d)
  BY <1>4, <1>5, <1>9, <1>10, <1>11 DEF CatInv, SameFiles
<1> QED
  BY <1>5, <1>12 DEF d, e, kind, yes

LEMMA NoRefreshOrMigrate ==
  ASSUME NEW c \in Catalogues, NEW list, CatInv(c, list), ~c.refreshing, ~c.migrating,
         NEW i \in 1..Len(c.jobs)
  PROVE  c.jobs[i].kind # "refresh" /\ c.jobs[i].kind # "migrate"
BY DEF CatInv, JobsOK, JobOK

LEMMA NoRestoreWhenReady ==
  ASSUME NEW c \in Catalogues, NEW list, CatInv(c, list), c.ready, NEW i \in 1..Len(c.jobs)
  PROVE  ~(c.jobs[i].kind = "restore" /\ c.jobs[i].gen = c.gen)
BY DEF CatInv, JobsOK, JobOK

LEMMA RefreshStarts ==
  ASSUME NEW c \in Catalogues, NEW list \in SUBSET Keys, CatInv(c, list),
         c.ready, ~c.refreshing, ~c.migrating
  PROVE  LET d == Submitted([c EXCEPT !.refreshing = TRUE], "refresh", c.gen, list)
         IN  d \in Catalogues /\ CatInv(d, list) /\ SameFiles(c, d)
<1> DEFINE yes == TRUE
           e == [c EXCEPT !.refreshing = yes]
           kind == "refresh"
           d == Submitted(e, kind, c.gen, list)
           job == [kind |-> kind, gen |-> c.gen, list |-> list, out |-> "queued", file |-> NoFile]
<1>1. yes \in BOOLEAN /\ yes /\ kind = "refresh"
      /\ kind \in {"restore", "refresh", "migrate", "cache"}
  OBVIOUS
<1>2. c.gen \in Nat
  BY CatFields
<1> HIDE DEF yes, kind
<1>3. e \in Catalogues
  BY <1>1, <1>2 DEF Catalogues
<1>4. /\ e.refreshing /\ e.restoreGen = c.restoreGen /\ e.gen = c.gen /\ e.ready = c.ready
      /\ e.expired = c.expired /\ e.migrate = c.migrate /\ e.index = c.index
      /\ e.disk = c.disk /\ e.restoring = c.restoring /\ e.migrating = c.migrating
      /\ e.cacheGen = c.cacheGen /\ e.candidate = c.candidate /\ e.timers = c.timers
      /\ e.persisted = c.persisted /\ e.jobs = c.jobs
  BY <1>1 DEF Catalogues
<1> HIDE DEF e
<1>5. /\ d \in Catalogues /\ job \in Jobs
      /\ d.jobs = Append(e.jobs, job)
      /\ d.gen = e.gen /\ d.ready = e.ready /\ d.expired = e.expired
      /\ d.migrate = e.migrate /\ d.index = e.index /\ d.disk = e.disk
      /\ d.restoring = e.restoring /\ d.restoreGen = e.restoreGen
      /\ d.refreshing = e.refreshing /\ d.migrating = e.migrating
      /\ d.cacheGen = e.cacheGen /\ d.candidate = e.candidate /\ d.timers = e.timers
      /\ d.persisted = e.persisted
  BY <1>1, <1>2, <1>3, SubmittedFacts
<1>6. job.kind = "refresh" /\ job.gen = c.gen /\ job.out = "queued" /\ job.list = list
  BY <1>1
<1> HIDE DEF d, job
<1>7. ASSUME NEW i \in 1..Len(c.jobs)
      PROVE  /\ JobOK(d, c.jobs[i], list)
             /\ ~Rivals(d, c.jobs[i], job) /\ ~Rivals(d, job, c.jobs[i])
  <2> DEFINE other == c.jobs[i]
  <2>1. JobOK(c, other, list)
    BY DEF CatInv, JobsOK
  <2>2. ~(other.kind = "restore" /\ other.gen = c.gen)
    BY NoRestoreWhenReady
  <2>3. other.kind # "refresh" /\ other.kind # "migrate"
    BY NoRefreshOrMigrate
  <2> HIDE DEF other
  <2>4. JobOK(d, other, list)
    BY <2>1, <2>2, <2>3, <1>4, <1>5 DEF JobOK
  <2>5. ~Rivals(d, other, job) /\ ~Rivals(d, job, other)
    BY <2>3, <1>6, KindsDiffer DEF Rivals
  <2> QED
    BY <2>4, <2>5 DEF other
<1>8. JobOK(d, job, list)
  BY <1>2, <1>4, <1>5, <1>6, KindsDiffer DEF JobOK
<1>9. /\ JobsOK(d, list) /\ NoRivals(d)
      /\ \E i \in 1..Len(d.jobs) : d.jobs[i] = job
      /\ \A i \in 1..Len(c.jobs) : \E j \in 1..Len(d.jobs) : d.jobs[j] = c.jobs[i]
  <2>1. JobsOK(c, list) /\ NoRivals(c)
    BY DEF CatInv
  <2> QED
    BY <2>1, <1>4, <1>5, <1>7, <1>8, OneMoreJob
<1>10. FlagsBacked(d)
  BY <1>4, <1>5, <1>6, <1>9 DEF CatInv, FlagsBacked
<1>11. (d.migrate => d.ready) /\ OnDisk(d) /\ TimersOK(d, list)
  BY <1>4, <1>5 DEF CatInv, OnDisk, TimersOK
<1>12. CatInv(d, list) /\ SameFiles(c, d)
  BY <1>4, <1>5, <1>9, <1>10, <1>11 DEF CatInv, SameFiles
<1> QED
  BY <1>5, <1>12 DEF d, e, kind, yes
LEMMA MigrationStarts ==
  ASSUME NEW c \in Catalogues, NEW list \in SUBSET Keys, CatInv(c, list),
         c.migrate, ~c.refreshing, ~c.migrating
  PROVE  LET d == Submitted([c EXCEPT !.migrating = TRUE], "migrate", c.gen, c.index)
         IN  d \in Catalogues /\ CatInv(d, list) /\ SameFiles(c, d)
<1> DEFINE yes == TRUE
           e == [c EXCEPT !.migrating = yes]
           kind == "migrate"
           d == Submitted(e, kind, c.gen, c.index)
           job == [kind |-> kind, gen |-> c.gen, list |-> c.index, out |-> "queued", file |-> NoFile]
<1>1. yes \in BOOLEAN /\ yes /\ kind = "migrate"
      /\ kind \in {"restore", "refresh", "migrate", "cache"}
  OBVIOUS
<1>2. c.gen \in Nat /\ c.index \in SUBSET Keys /\ c.ready
  BY CatFields DEF CatInv
<1> HIDE DEF yes, kind
<1>3. e \in Catalogues
  BY <1>1, <1>2 DEF Catalogues
<1>4. /\ e.migrating /\ e.restoreGen = c.restoreGen /\ e.gen = c.gen /\ e.ready = c.ready
      /\ e.expired = c.expired /\ e.migrate = c.migrate /\ e.index = c.index
      /\ e.disk = c.disk /\ e.restoring = c.restoring /\ e.refreshing = c.refreshing
      /\ e.cacheGen = c.cacheGen /\ e.candidate = c.candidate /\ e.timers = c.timers
      /\ e.persisted = c.persisted /\ e.jobs = c.jobs
  BY <1>1 DEF Catalogues
<1> HIDE DEF e
<1>5. /\ d \in Catalogues /\ job \in Jobs
      /\ d.jobs = Append(e.jobs, job)
      /\ d.gen = e.gen /\ d.ready = e.ready /\ d.expired = e.expired
      /\ d.migrate = e.migrate /\ d.index = e.index /\ d.disk = e.disk
      /\ d.restoring = e.restoring /\ d.restoreGen = e.restoreGen
      /\ d.refreshing = e.refreshing /\ d.migrating = e.migrating
      /\ d.cacheGen = e.cacheGen /\ d.candidate = e.candidate /\ d.timers = e.timers
      /\ d.persisted = e.persisted
  BY <1>1, <1>2, <1>3, SubmittedFacts
<1>6. job.kind = "migrate" /\ job.gen = c.gen /\ job.out = "queued" /\ job.list = c.index
  BY <1>1
<1> HIDE DEF d, job
<1>7. ASSUME NEW i \in 1..Len(c.jobs)
      PROVE  /\ JobOK(d, c.jobs[i], list)
             /\ ~Rivals(d, c.jobs[i], job) /\ ~Rivals(d, job, c.jobs[i])
  <2> DEFINE other == c.jobs[i]
  <2>1. JobOK(c, other, list)
    BY DEF CatInv, JobsOK
  <2>2. ~(other.kind = "restore" /\ other.gen = c.gen)
    BY <1>2, NoRestoreWhenReady
  <2>3. other.kind # "refresh" /\ other.kind # "migrate"
    BY NoRefreshOrMigrate
  <2> HIDE DEF other
  <2>4. JobOK(d, other, list)
    BY <2>1, <2>2, <2>3, <1>4, <1>5 DEF JobOK
  <2>5. ~Rivals(d, other, job) /\ ~Rivals(d, job, other)
    BY <2>3, <1>6, KindsDiffer DEF Rivals
  <2> QED
    BY <2>4, <2>5 DEF other
<1>8. JobOK(d, job, list)
  BY <1>2, <1>4, <1>5, <1>6, KindsDiffer DEF JobOK
<1>9. /\ JobsOK(d, list) /\ NoRivals(d)
      /\ \E i \in 1..Len(d.jobs) : d.jobs[i] = job
      /\ \A i \in 1..Len(c.jobs) : \E j \in 1..Len(d.jobs) : d.jobs[j] = c.jobs[i]
  <2>1. JobsOK(c, list) /\ NoRivals(c)
    BY DEF CatInv
  <2> QED
    BY <2>1, <1>4, <1>5, <1>7, <1>8, OneMoreJob
<1>10. FlagsBacked(d)
  BY <1>4, <1>5, <1>6, <1>9 DEF CatInv, FlagsBacked
<1>11. (d.migrate => d.ready) /\ OnDisk(d) /\ TimersOK(d, list)
  BY <1>4, <1>5 DEF CatInv, OnDisk, TimersOK
<1>12. CatInv(d, list) /\ SameFiles(c, d)
  BY <1>4, <1>5, <1>9, <1>10, <1>11 DEF CatInv, SameFiles
<1> QED
  BY <1>5, <1>12 DEF d, e, kind, yes
(* What the main loop starts. *)
LEMMA TryRestoreFacts ==
  ASSUME NEW c \in Catalogues, NEW list \in SUBSET Keys, CatInv(c, list), NEW updating \in BOOLEAN
  PROVE  LET d == TryRestore(c, list, updating)
         IN  /\ d \in Catalogues /\ CatInv(d, list) /\ SameFiles(c, d)
             /\ d.ready = c.ready /\ d.index = c.index
             /\ updating /\ Quiet(c) => Quiet(d)
<1> DEFINE no == FALSE
           given == [c EXCEPT !.pending = no, !.allowed = no]
           due == /\ ~c.ready /\ c.pending /\ c.allowed /\ ~c.restoring
                  /\ list # {} /\ ~c.refreshing /\ ~c.migrating /\ ~updating
           started == Submitted([c EXCEPT !.restoring = TRUE, !.restoreGen = c.gen],
                                "restore", c.gen, list)
           d == TryRestore(c, list, updating)
<1>1. CASE c.ready
  <2>1. d = given
    BY <1>1 DEF TryRestore
  <2>2. no \in BOOLEAN
    OBVIOUS
  <2> HIDE DEF no, d
  <2>3. d \in Catalogues /\ Claims(c, d) /\ SameFiles(c, d)
    BY <2>1, <2>2 DEF Catalogues, Claims, SameFiles
  <2>4. CatInv(d, list) /\ (Quiet(c) => Quiet(d))
    BY <2>3, ClaimsSuffice
  <2> QED
    BY <2>3, <2>4 DEF Claims, d
<1>2. CASE due
  <2>1. ~c.ready /\ ~c.restoring /\ ~c.refreshing /\ ~c.migrating /\ ~updating
    BY <1>2
  <2>2. d = started
    BY <1>2 DEF TryRestore
  <2>3. started \in Catalogues /\ CatInv(started, list) /\ SameFiles(c, started)
    BY <2>1, RestoreStarts
  <2>4. started.ready = c.ready /\ started.index = c.index
    BY DEF Submitted, Catalogues
  <2> HIDE DEF started, d
  <2> QED
    BY <2>1, <2>2, <2>3, <2>4 DEF d
<1>3. CASE ~c.ready /\ ~due
  <2>1. d = c
    BY <1>3 DEF TryRestore
  <2> QED
    BY <2>1 DEF SameFiles
<1> QED
  BY <1>1, <1>2, <1>3

LEMMA TryRefreshFacts ==
  ASSUME NEW c \in Catalogues, NEW list \in SUBSET Keys, CatInv(c, list), NEW updating \in BOOLEAN
  PROVE  LET d == TryRefresh(c, list, updating)
         IN  /\ d \in Catalogues /\ CatInv(d, list) /\ SameFiles(c, d)
             /\ updating => d = c
<1> DEFINE due == /\ c.ready /\ c.expired /\ ~c.migrate /\ ~c.refreshing /\ ~c.migrating
                  /\ ~updating /\ SweepOver(c) /\ list # {}
           started == Submitted([c EXCEPT !.refreshing = TRUE], "refresh", c.gen, list)
           d == TryRefresh(c, list, updating)
<1>1. d = IF due THEN started ELSE c
  BY DEF TryRefresh
<1>2. due => started \in Catalogues /\ CatInv(started, list) /\ SameFiles(c, started)
  BY RefreshStarts
<1>3. SameFiles(c, c) /\ (updating => ~due)
  BY DEF SameFiles
<1> HIDE DEF due, started, d
<1> QED
  BY <1>1, <1>2, <1>3 DEF d

LEMMA TryMigrateFacts ==
  ASSUME NEW c \in Catalogues, NEW list \in SUBSET Keys, CatInv(c, list), NEW updating \in BOOLEAN
  PROVE  LET d == TryMigrate(c, updating)
         IN  /\ d \in Catalogues /\ CatInv(d, list) /\ SameFiles(c, d)
             /\ updating => d = c
<1> DEFINE due == c.migrate /\ ~c.migrating /\ ~c.refreshing /\ ~updating /\ SweepOver(c)
           started == Submitted([c EXCEPT !.migrating = TRUE], "migrate", c.gen, c.index)
           d == TryMigrate(c, updating)
<1>1. d = IF due THEN started ELSE c
  BY DEF TryMigrate
<1>2. due => started \in Catalogues /\ CatInv(started, list) /\ SameFiles(c, started)
  BY MigrationStarts
<1>3. SameFiles(c, c) /\ (updating => ~due)
  BY DEF SameFiles
<1> HIDE DEF due, started, d
<1> QED
  BY <1>1, <1>2, <1>3 DEF d

LEMMA AgedFacts ==
  ASSUME NEW c \in Catalogues, NEW list, CatInv(c, list)
  PROVE  LET d == Aged(c)
         IN  /\ d \in Catalogues /\ CatInv(d, list) /\ SameFiles(c, d)
             /\ Quiet(c) => Quiet(d)
<1> DEFINE yes == TRUE
           d == Aged(c)
<1>1. CASE ~c.ready
  <2>1. d = c
    BY <1>1 DEF Aged
  <2> QED
    BY <2>1 DEF SameFiles
<1>2. CASE c.ready
  <2>1. d = [c EXCEPT !.expired = yes] /\ yes \in BOOLEAN /\ yes
    BY <1>2 DEF Aged
  <2> HIDE DEF d, yes
  <2>2. d \in Catalogues
    BY <2>1 DEF Catalogues
  <2>3. /\ d.expired /\ d.gen = c.gen /\ d.ready = c.ready /\ d.migrate = c.migrate
        /\ d.index = c.index /\ d.disk = c.disk /\ d.restoring = c.restoring
        /\ d.restoreGen = c.restoreGen /\ d.refreshing = c.refreshing
        /\ d.migrating = c.migrating /\ d.cacheGen = c.cacheGen
        /\ d.candidate = c.candidate /\ d.timers = c.timers /\ d.jobs = c.jobs
        /\ d.persisted = c.persisted
    BY <2>1 DEF Catalogues
  <2>4. JobsOK(d, list) /\ NoRivals(d) /\ FlagsBacked(d)
    BY <2>3 DEF CatInv, JobsOK, JobOK, NoRivals, Rivals, FlagsBacked
  <2>5. CatInv(d, list)
    BY <2>3, <2>4 DEF CatInv, OnDisk, TimersOK
  <2>6. SameFiles(c, d) /\ (Quiet(c) => Quiet(d))
    BY <2>3 DEF SameFiles, Quiet
  <2> QED
    BY <2>2, <2>5, <2>6 DEF d
<1> QED
  BY <1>1, <1>2

LEMMA SameFilesTransitive ==
  ASSUME NEW c, NEW d, NEW e, SameFiles(c, d), SameFiles(d, e)
  PROVE  SameFiles(c, e)
BY DEF SameFiles

LEMMA TickedFacts ==
  ASSUME NEW c \in Catalogues, NEW list \in SUBSET Keys, CatInv(c, list),
         NEW updating \in BOOLEAN, NEW resting \in BOOLEAN, NEW aged \in BOOLEAN
  PROVE  LET d == Ticked(c, list, updating, resting, aged)
         IN  /\ d \in Catalogues /\ CatInv(d, list) /\ SameFiles(c, d)
             /\ updating /\ Quiet(c) => Quiet(d)
<1> DEFINE restored == TryRestore(c, list, updating)
           now == IF aged THEN Aged(restored) ELSE restored
           refreshed == TryRefresh(now, list, updating)
           migrated == TryMigrate(refreshed, updating)
           d == Ticked(c, list, updating, resting, aged)
<1>1. d = IF resting THEN restored ELSE migrated
  BY DEF Ticked
<1>2. /\ restored \in Catalogues /\ CatInv(restored, list) /\ SameFiles(c, restored)
      /\ updating /\ Quiet(c) => Quiet(restored)
  BY TryRestoreFacts
<1> HIDE DEF restored
<1>3. /\ now \in Catalogues /\ CatInv(now, list) /\ SameFiles(c, now)
      /\ updating /\ Quiet(c) => Quiet(now)
  <2>1. CASE aged
    BY <2>1, <1>2, AgedFacts, SameFilesTransitive
  <2>2. CASE ~aged
    BY <2>2, <1>2
  <2> QED
    BY <2>1, <2>2
<1> HIDE DEF now
<1>4. /\ refreshed \in Catalogues /\ CatInv(refreshed, list) /\ SameFiles(now, refreshed)
      /\ updating => refreshed = now
  BY <1>3, TryRefreshFacts
<1> HIDE DEF refreshed
<1>5. /\ migrated \in Catalogues /\ CatInv(migrated, list) /\ SameFiles(refreshed, migrated)
      /\ updating => migrated = refreshed
  BY <1>4, TryMigrateFacts
<1> HIDE DEF migrated, d
<1>6. SameFiles(c, migrated)
  BY <1>3, <1>4, <1>5, SameFilesTransitive
<1> QED
  BY <1>1, <1>2, <1>3, <1>4, <1>5, <1>6 DEF d

LEMMA ShownFacts ==
  ASSUME NEW c \in Catalogues, NEW list \in SUBSET Keys, CatInv(c, list), NEW updating \in BOOLEAN
  PROVE  LET d == Shown(c, list, updating)
         IN  /\ d \in Catalogues /\ CatInv(d, list) /\ SameFiles(c, d)
             /\ d.ready = c.ready /\ d.index = c.index
             /\ updating /\ Quiet(c) => Quiet(d)
<1> DEFINE yes == TRUE
           e == [c EXCEPT !.allowed = yes]
           t == TryRestore(e, list, updating)
           d == Shown(c, list, updating)
<1>1. d = (IF c.pending THEN t ELSE c) /\ yes \in BOOLEAN
  BY DEF Shown
<1> HIDE DEF yes, d
<1>2. e \in Catalogues /\ Claims(c, e) /\ SameFiles(c, e)
  BY <1>1 DEF Catalogues, Claims, SameFiles
<1>3. CatInv(e, list) /\ (Quiet(c) => Quiet(e)) /\ e.ready = c.ready /\ e.index = c.index
  BY <1>2, ClaimsSuffice DEF Claims
<1> HIDE DEF e
<1>4. /\ t \in Catalogues /\ CatInv(t, list) /\ SameFiles(e, t)
      /\ t.ready = e.ready /\ t.index = e.index
      /\ updating /\ Quiet(e) => Quiet(t)
  BY <1>2, <1>3, TryRestoreFacts
<1> HIDE DEF t
<1>5. SameFiles(c, t) /\ SameFiles(c, c)
  BY <1>2, <1>4, SameFilesTransitive DEF SameFiles
<1> QED
  BY <1>1, <1>3, <1>4, <1>5 DEF d

(* A list is loaded. *)
LEMMA RebuiltFacts ==
  ASSUME NEW c \in Catalogues, NEW list \in SUBSET Keys, CatInv(c, list), Quiet(c),
         NEW ok \in BOOLEAN, NEW provisional \in BOOLEAN, NEW saved \in BOOLEAN
  PROVE  LET d == Rebuilt(c, list, ok, provisional, saved)
         IN  /\ d \in Catalogues /\ CatInv(d, list) /\ Quiet(d)
             /\ d.candidate = c.candidate /\ d.persisted = c.persisted
             /\ d.disk # c.disk => d.disk.list = list /\ d.index = list
<1> DEFINE d == Rebuilt(c, list, ok, provisional, saved)
           kept == (list # {} \/ ok) /\ ~provisional /\ saved
           yes == TRUE
           no == FALSE
           due == c.disk.format = 1
           two == 2
           file == [format |-> two, list |-> list, old |-> no]
           read == [c EXCEPT !.index = c.disk.list, !.ready = yes, !.expired = c.disk.old,
                             !.migrate = due]
           written == [c EXCEPT !.index = list, !.ready = yes, !.expired = no, !.migrate = no,
                                !.disk = file]
           listed == [c EXCEPT !.index = list]
<1>1. /\ c.ready => d = c
      /\ ~c.ready /\ c.disk.format # 0 => d = read
      /\ ~c.ready /\ c.disk.format = 0 /\ kept => d = written
      /\ ~c.ready /\ c.disk.format = 0 /\ ~kept => d = listed
  BY DEF Rebuilt
<1>2. /\ c.disk \in Files /\ c.disk.format \in {0, 1, 2} /\ c.disk.list \in SUBSET Keys
      /\ c.disk.old \in BOOLEAN
  BY CatFields, FileFields
<1>3. /\ yes \in BOOLEAN /\ no \in BOOLEAN /\ yes /\ ~no /\ due \in BOOLEAN
      /\ (due <=> c.disk.format = 1)
  OBVIOUS
<1>4. file \in Files /\ file.list = list /\ file.format = 2
  BY <1>3 DEF Files
<1> HIDE DEF kept, yes, no, due, file, two
<1>5. /\ read \in Catalogues /\ written \in Catalogues /\ listed \in Catalogues
  BY ZenonT(60), <1>2, <1>3, <1>4 DEF Catalogues
<1>6. ASSUME NEW e \in {read, written, listed}
      PROVE  /\ e.gen = c.gen /\ e.restoring = c.restoring
             /\ e.restoreGen = c.restoreGen /\ e.refreshing = c.refreshing
             /\ e.migrating = c.migrating /\ e.cacheGen = c.cacheGen
             /\ e.candidate = c.candidate /\ e.timers = c.timers /\ e.jobs = c.jobs
             /\ e.persisted = c.persisted
  BY DEF Catalogues
<1>7. /\ read.index = c.disk.list /\ read.ready /\ read.migrate = due /\ read.disk = c.disk
      /\ written.index = list /\ written.ready /\ ~written.migrate /\ written.disk = file
      /\ listed.index = list /\ listed.ready = c.ready /\ listed.migrate = c.migrate
      /\ listed.disk = c.disk
  BY <1>3 DEF Catalogues
<1> HIDE DEF read, written, listed, d
<1>8. ASSUME NEW e \in {read, written, listed}
      PROVE  Quiet(e) /\ JobsOK(e, list) /\ NoRivals(e) /\ FlagsBacked(e) /\ TimersOK(e, list)
  <2>1. /\ e.gen = c.gen /\ e.restoring = c.restoring
        /\ e.restoreGen = c.restoreGen /\ e.refreshing = c.refreshing
        /\ e.migrating = c.migrating /\ e.cacheGen = c.cacheGen
        /\ e.candidate = c.candidate /\ e.timers = c.timers /\ e.jobs = c.jobs
    BY <1>6
  <2>2. Quiet(e)
    BY <2>1 DEF Quiet
  <2>3. NoRivals(e) /\ FlagsBacked(e) /\ TimersOK(e, list)
    BY <2>1 DEF CatInv, NoRivals, Rivals, FlagsBacked, TimersOK
  <2>4. ASSUME NEW i \in 1..Len(c.jobs) PROVE JobOK(e, c.jobs[i], list)
    <3> DEFINE job == c.jobs[i]
    <3>1. JobOK(c, job, list)
      BY DEF CatInv, JobsOK
    <3>2. job.gen \in Nat /\ c.gen \in Nat /\ (job.kind # "cache" => job.gen < c.gen)
      BY JobFields, CatFields DEF Quiet
    <3> HIDE DEF job
    <3>3. job.kind # "cache" => job.gen # c.gen
      BY <3>2
    <3>4. JobOK(e, job, list)
      BY <3>1, <3>3, <2>1, KindsDiffer DEF JobOK
    <3> QED
      BY <3>4 DEF job
  <2> QED
    BY <2>1, <2>2, <2>3, <2>4 DEF JobsOK
<1>9. CASE c.ready
  BY <1>1, <1>9 DEF d
<1>10. CASE ~c.ready /\ c.disk.format # 0
  <2>1. OnDisk(read) /\ (read.migrate => read.ready)
    BY <1>2, <1>3, <1>7, <1>10 DEF OnDisk
  <2>2. CatInv(read, list)
    BY <2>1, <1>8 DEF CatInv
  <2> QED
    BY <2>2, <1>1, <1>5, <1>6, <1>7, <1>8, <1>10 DEF d
<1>11. CASE ~c.ready /\ c.disk.format = 0 /\ kept
  <2>1. OnDisk(written) /\ (written.migrate => written.ready)
    BY <1>4, <1>7 DEF OnDisk
  <2>2. CatInv(written, list)
    BY <2>1, <1>8 DEF CatInv
  <2> QED
    BY <2>2, <1>1, <1>4, <1>5, <1>6, <1>7, <1>8, <1>11 DEF d
<1>12. CASE ~c.ready /\ c.disk.format = 0 /\ ~kept
  <2>1. OnDisk(listed) /\ (listed.migrate => listed.ready)
    BY <1>7, <1>12 DEF CatInv, OnDisk
  <2>2. CatInv(listed, list)
    BY <2>1, <1>8 DEF CatInv
  <2> QED
    BY <2>2, <1>1, <1>5, <1>6, <1>7, <1>8, <1>12 DEF d
<1> QED
  BY <1>9, <1>10, <1>11, <1>12
LEMMA LoadedAtOnceFacts ==
  ASSUME NEW c \in Catalogues, NEW before, CatInv(c, before), NEW list \in SUBSET Keys,
         NEW ok \in BOOLEAN, NEW provisional \in BOOLEAN, NEW saved \in BOOLEAN
  PROVE  LET d == LoadedAtOnce(c, list, ok, provisional, saved)
         IN  /\ d \in Catalogues /\ CatInv(d, list) /\ Quiet(d) /\ d.candidate = list
             /\ d.persisted = c.persisted
             /\ d.disk # c.disk => d.disk.list = list /\ d.index = list
<1> DEFINE no == FALSE
           yes == TRUE
           due == ~ok
           fresh == NewDatabase(c, ok)
           outdated == Outdated(fresh)
           e == [outdated EXCEPT !.candidate = list]
           r == Rebuilt(e, list, ok, provisional, saved)
           f == [r EXCEPT !.fallback = yes]
           d == LoadedAtOnce(c, list, ok, provisional, saved)
<1>1. d = IF list = {} THEN f ELSE r
  BY DEF LoadedAtOnce
<1>2. fresh = [c EXCEPT !.sweepDone = no, !.fallback = due]
      /\ no \in BOOLEAN /\ yes \in BOOLEAN /\ due \in BOOLEAN
  BY DEF NewDatabase
<1> HIDE DEF no, due, fresh, yes
<1>3. fresh \in Catalogues /\ Claims(c, fresh) /\ SameFiles(c, fresh)
  BY <1>2 DEF Catalogues, Claims, SameFiles
<1>4. CatInv(fresh, before)
  BY <1>3, ClaimsSuffice
<1>5. /\ outdated \in Catalogues /\ CatInv(outdated, list) /\ Quiet(outdated)
      /\ SameFiles(fresh, outdated)
  BY <1>3, <1>4, OutdatedFacts
<1> HIDE DEF outdated
<1>6. e \in Catalogues
  BY <1>5 DEF Catalogues
<1>7. /\ e.gen = outdated.gen /\ e.ready = outdated.ready /\ e.expired = outdated.expired
      /\ e.migrate = outdated.migrate /\ e.index = outdated.index /\ e.disk = outdated.disk
      /\ e.restoring = outdated.restoring /\ e.restoreGen = outdated.restoreGen
      /\ e.refreshing = outdated.refreshing /\ e.migrating = outdated.migrating
      /\ e.cacheGen = outdated.cacheGen /\ e.candidate = list /\ e.timers = outdated.timers
      /\ e.jobs = outdated.jobs /\ e.persisted = outdated.persisted
  BY <1>5 DEF Catalogues
<1> HIDE DEF e
<1>8. Quiet(e)
  BY <1>5, <1>7 DEF Quiet
<1>9. CatInv(e, list)
  <2>1. JobsOK(e, list) /\ NoRivals(e) /\ FlagsBacked(e)
    BY <1>5, <1>7 DEF CatInv, JobsOK, JobOK, NoRivals, Rivals, FlagsBacked
  <2>2. (e.migrate => e.ready) /\ OnDisk(e) /\ TimersOK(e, list)
    BY <1>5, <1>7 DEF CatInv, OnDisk, TimersOK
  <2> QED
    BY <2>1, <2>2 DEF CatInv
<1>10. /\ r \in Catalogues /\ CatInv(r, list) /\ Quiet(r)
       /\ r.candidate = list /\ r.persisted = e.persisted
       /\ r.disk # e.disk => r.disk.list = list /\ r.index = list
  BY SMTT(30), <1>6, <1>7, <1>8, <1>9, RebuiltFacts
<1> HIDE DEF r
<1>11. f \in Catalogues /\ Claims(r, f) /\ SameFiles(r, f)
  BY <1>2, <1>10 DEF Catalogues, Claims, SameFiles
<1>12. CatInv(f, list) /\ Quiet(f)
  BY <1>10, <1>11, ClaimsSuffice
<1>13. e.disk = c.disk /\ e.persisted = c.persisted
  BY <1>3, <1>5, <1>7 DEF SameFiles
<1>14. /\ f.candidate = r.candidate /\ f.disk = r.disk /\ f.index = r.index
       /\ f.persisted = r.persisted
  BY <1>11 DEF Claims, SameFiles
<1> HIDE DEF d, f
<1> QED
  BY <1>1, <1>10, <1>11, <1>12, <1>13, <1>14 DEF d

LEMMA LoadedInBatchesFacts ==
  ASSUME NEW c \in Catalogues, NEW before, CatInv(c, before), Quiet(c), NEW list \in SUBSET Keys
  PROVE  LET d == LoadedInBatches(c, list)
         IN  /\ d \in Catalogues /\ CatInv(d, list) /\ Quiet(d) /\ d.candidate = list
             /\ SameFiles(c, d)
<1> DEFINE no == FALSE
           pending == ~c.ready
           d == LoadedInBatches(c, list)
<1>1. d = [c EXCEPT !.candidate = list, !.pending = pending, !.allowed = no]
      /\ no \in BOOLEAN /\ pending \in BOOLEAN
  BY DEF LoadedInBatches
<1> HIDE DEF no, pending, d
<1>2. d \in Catalogues
  BY <1>1 DEF Catalogues
<1>3. /\ d.gen = c.gen /\ d.ready = c.ready /\ d.expired = c.expired
      /\ d.migrate = c.migrate /\ d.index = c.index /\ d.disk = c.disk
      /\ d.restoring = c.restoring /\ d.restoreGen = c.restoreGen
      /\ d.refreshing = c.refreshing /\ d.migrating = c.migrating
      /\ d.cacheGen = c.cacheGen /\ d.candidate = list /\ d.timers = c.timers
      /\ d.jobs = c.jobs /\ d.persisted = c.persisted
  BY <1>1 DEF Catalogues
<1>4. CatInv(c, list)
  BY QuietForAnyList
<1>5. Quiet(d) /\ SameFiles(c, d)
  BY <1>3 DEF Quiet, SameFiles
<1>6. JobsOK(d, list) /\ NoRivals(d) /\ FlagsBacked(d)
  BY <1>3, <1>4 DEF CatInv, JobsOK, JobOK, NoRivals, Rivals, FlagsBacked
<1>7. (d.migrate => d.ready) /\ OnDisk(d) /\ TimersOK(d, list)
  BY <1>3, <1>4 DEF CatInv, OnDisk, TimersOK
<1> QED
  BY <1>2, <1>3, <1>5, <1>6, <1>7 DEF CatInv, d

LEMMA CacheTimerSetFacts ==
  ASSUME NEW c \in Catalogues, NEW list, CatInv(c, list), c.candidate = list
  PROVE  LET d == CacheTimerSet(c)
         IN  d \in Catalogues /\ CatInv(d, list) /\ SameFiles(c, d) /\ d.index = c.index
<1> DEFINE timers == c.timers \union {c.cacheGen}
           d == CacheTimerSet(c)
<1>1. d = [c EXCEPT !.timers = timers] /\ timers \in SUBSET Nat
  BY CatFields DEF CacheTimerSet
<1>2. \A g \in timers : g <= c.cacheGen
  BY CatFields DEF CatInv, TimersOK
<1> HIDE DEF timers, d
<1>3. d \in Catalogues
  BY <1>1 DEF Catalogues
<1>4. /\ d.gen = c.gen /\ d.ready = c.ready /\ d.expired = c.expired
      /\ d.migrate = c.migrate /\ d.index = c.index /\ d.disk = c.disk
      /\ d.restoring = c.restoring /\ d.restoreGen = c.restoreGen
      /\ d.refreshing = c.refreshing /\ d.migrating = c.migrating
      /\ d.cacheGen = c.cacheGen /\ d.candidate = c.candidate /\ d.timers = timers
      /\ d.jobs = c.jobs /\ d.persisted = c.persisted
  BY <1>1 DEF Catalogues
<1>5. JobsOK(d, list) /\ NoRivals(d) /\ FlagsBacked(d)
  BY <1>4 DEF CatInv, JobsOK, JobOK, NoRivals, Rivals, FlagsBacked
<1>6. (d.migrate => d.ready) /\ OnDisk(d)
  BY <1>4 DEF CatInv, OnDisk
<1>7. TimersOK(d, list)
  BY <1>2, <1>4 DEF TimersOK
<1> QED
  BY <1>3, <1>4, <1>5, <1>6, <1>7 DEF CatInv, SameFiles, d

(* The flags of the presentation. *)
LEMMA FlaggedFacts ==
  ASSUME NEW c \in Catalogues, NEW list, CatInv(c, list),
         NEW swept \in BOOLEAN, NEW fallback \in BOOLEAN
  PROVE  LET d == [c EXCEPT !.sweepDone = swept, !.fallback = fallback]
         IN  /\ d \in Catalogues /\ CatInv(d, list) /\ SameFiles(c, d)
             /\ (Quiet(c) => Quiet(d)) /\ d.index = c.index /\ d.ready = c.ready
             /\ d.candidate = c.candidate
<1> DEFINE d == [c EXCEPT !.sweepDone = swept, !.fallback = fallback]
<1>1. d \in Catalogues /\ Claims(c, d) /\ SameFiles(c, d)
  BY DEF Catalogues, Claims, SameFiles
<1> HIDE DEF d
<1>2. CatInv(d, list) /\ (Quiet(c) => Quiet(d))
  BY <1>1, ClaimsSuffice
<1> QED
  BY <1>1, <1>2 DEF Claims, d

LEMMA SweepDoneFacts ==
  ASSUME NEW c \in Catalogues, NEW list, CatInv(c, list), NEW swept \in BOOLEAN
  PROVE  LET d == [c EXCEPT !.sweepDone = swept]
         IN  /\ d \in Catalogues /\ CatInv(d, list) /\ SameFiles(c, d)
             /\ (Quiet(c) => Quiet(d)) /\ d.index = c.index
<1> DEFINE d == [c EXCEPT !.sweepDone = swept]
<1>1. d \in Catalogues /\ Claims(c, d) /\ SameFiles(c, d)
  BY DEF Catalogues, Claims, SameFiles
<1> HIDE DEF d
<1>2. CatInv(d, list) /\ (Quiet(c) => Quiet(d))
  BY <1>1, ClaimsSuffice
<1> QED
  BY <1>1, <1>2 DEF Claims, d

LEMMA FallbackFacts ==
  ASSUME NEW c \in Catalogues, NEW list, CatInv(c, list)
  PROVE  LET d == [c EXCEPT !.fallback = TRUE]
         IN  /\ d \in Catalogues /\ CatInv(d, list) /\ SameFiles(c, d)
             /\ (Quiet(c) => Quiet(d)) /\ d.index = c.index
<1> DEFINE yes == TRUE
           d == [c EXCEPT !.fallback = yes]
<1>1. yes \in BOOLEAN
  OBVIOUS
<1> HIDE DEF yes
<1>2. d \in Catalogues /\ Claims(c, d) /\ SameFiles(c, d)
  BY <1>1 DEF Catalogues, Claims, SameFiles
<1> HIDE DEF d
<1>3. CatInv(d, list) /\ (Quiet(c) => Quiet(d))
  BY <1>2, ClaimsSuffice
<1> QED
  BY <1>2, <1>3 DEF Claims, d, yes

LEMMA AfterPublicationFacts ==
  ASSUME NEW c \in Catalogues, NEW list \in SUBSET Keys, CatInv(c, list), c.candidate = list,
         NEW how
  PROVE  LET d == AfterPublication(c, list, how)
         IN  /\ d \in Catalogues /\ CatInv(d, list) /\ SameFiles(c, d) /\ d.index = c.index
<1> DEFINE set == CacheTimerSet(c)
           timed == IF how = "ok" THEN set ELSE c
           no == FALSE
           flagged == [timed EXCEPT !.sweepDone = no, !.fallback = no]
           swept == IF how = "ok" THEN flagged ELSE timed
           yes == TRUE
           showing == Shown(swept, list, yes)
           d == AfterPublication(c, list, how)
<1>1. (d = showing \/ d = swept) /\ yes \in BOOLEAN /\ no \in BOOLEAN
  BY DEF AfterPublication
<1>2. set \in Catalogues /\ CatInv(set, list) /\ SameFiles(c, set) /\ set.index = c.index
  BY CacheTimerSetFacts
<1> HIDE DEF set, yes, no
<1>3. timed \in Catalogues /\ CatInv(timed, list) /\ SameFiles(c, timed) /\ timed.index = c.index
  BY <1>2 DEF SameFiles
<1> HIDE DEF timed
<1>4. /\ flagged \in Catalogues /\ CatInv(flagged, list) /\ SameFiles(timed, flagged)
      /\ flagged.index = timed.index
  BY <1>1, <1>3, FlaggedFacts
<1> HIDE DEF flagged
<1>5. swept \in Catalogues /\ CatInv(swept, list) /\ SameFiles(c, swept) /\ swept.index = c.index
  BY <1>3, <1>4 DEF SameFiles
<1> HIDE DEF swept
<1>6. /\ showing \in Catalogues /\ CatInv(showing, list) /\ SameFiles(swept, showing)
      /\ showing.index = swept.index
  BY <1>1, <1>5, ShownFacts
<1> HIDE DEF showing, d
<1> QED
  BY <1>1, <1>5, <1>6 DEF SameFiles, d

(* The timer of the cache. *)
LEMMA CacheTimerFiredFacts ==
  ASSUME NEW c \in Catalogues, NEW list, CatInv(c, list), NEW gen \in c.timers
  PROVE  LET d == CacheTimerFired(c, gen)
         IN  /\ d \in Catalogues /\ CatInv(d, list) /\ SameFiles(c, d)
             /\ (Quiet(c) => Quiet(d)) /\ d.index = c.index
<1> DEFINE timers == c.timers \ {gen}
           gone == [c EXCEPT !.timers = timers]
           kind == "cache"
           job == [kind |-> kind, gen |-> gen, list |-> c.candidate, out |-> "queued",
                   file |-> NoFile]
           sent == Submitted(gone, kind, gen, c.candidate)
           due == gen = c.cacheGen /\ c.candidate \notin {{}, c.persisted}
           d == CacheTimerFired(c, gen)
<1>0. kind = "cache" /\ kind \in {"restore", "refresh", "migrate", "cache"}
  OBVIOUS
<1>1. timers \in SUBSET Nat /\ gen \in Nat /\ c.candidate \in SUBSET Keys
      /\ timers \subseteq c.timers
  BY CatFields
<1> HIDE DEF timers, kind
<1>2. gone \in Catalogues
  BY <1>1 DEF Catalogues
<1>3. /\ gone.gen = c.gen /\ gone.ready = c.ready /\ gone.expired = c.expired
      /\ gone.migrate = c.migrate /\ gone.index = c.index /\ gone.disk = c.disk
      /\ gone.restoring = c.restoring /\ gone.restoreGen = c.restoreGen
      /\ gone.refreshing = c.refreshing /\ gone.migrating = c.migrating
      /\ gone.cacheGen = c.cacheGen /\ gone.candidate = c.candidate
      /\ gone.timers = timers /\ gone.jobs = c.jobs /\ gone.persisted = c.persisted
  BY <1>1 DEF Catalogues
<1>4. d = IF due THEN sent ELSE gone
  BY <1>3 DEF CacheTimerFired, timers, kind
<1> HIDE DEF gone
<1>5. JobsOK(gone, list) /\ NoRivals(gone) /\ FlagsBacked(gone)
  BY <1>3 DEF CatInv, JobsOK, JobOK, NoRivals, Rivals, FlagsBacked
<1>6. TimersOK(gone, list)
  BY <1>1, <1>3 DEF CatInv, TimersOK
<1>7. CatInv(gone, list) /\ SameFiles(c, gone) /\ (Quiet(c) => Quiet(gone))
  BY <1>1, <1>3, <1>5, <1>6 DEF CatInv, OnDisk, SameFiles, Quiet
<1>8. /\ sent \in Catalogues /\ job \in Jobs
      /\ sent.jobs = Append(gone.jobs, job)
      /\ sent.gen = gone.gen /\ sent.ready = gone.ready /\ sent.expired = gone.expired
      /\ sent.migrate = gone.migrate /\ sent.index = gone.index /\ sent.disk = gone.disk
      /\ sent.restoring = gone.restoring /\ sent.restoreGen = gone.restoreGen
      /\ sent.refreshing = gone.refreshing /\ sent.migrating = gone.migrating
      /\ sent.cacheGen = gone.cacheGen /\ sent.candidate = gone.candidate
      /\ sent.timers = gone.timers /\ sent.persisted = gone.persisted
  BY <1>0, <1>1, <1>2, SubmittedFacts
<1>9. job.kind = "cache" /\ job.gen = gen /\ job.list = c.candidate
  BY <1>0
<1> HIDE DEF sent, job, d
<1>10. ASSUME due PROVE CatInv(sent, list) /\ ~Quiet(c) /\ SameFiles(c, sent)
  <2>1. gen = c.cacheGen /\ c.candidate = list
    BY <1>10 DEF CatInv, TimersOK
  <2>2. ASSUME NEW i \in 1..Len(gone.jobs)
        PROVE  /\ JobOK(sent, gone.jobs[i], list)
               /\ ~Rivals(sent, gone.jobs[i], job) /\ ~Rivals(sent, job, gone.jobs[i])
    <3> DEFINE other == gone.jobs[i]
    <3>1. JobOK(gone, other, list)
      BY <1>7 DEF CatInv, JobsOK
    <3> HIDE DEF other
    <3>2. JobOK(sent, other, list)
      BY <3>1, <1>8 DEF JobOK
    <3>3. ~Rivals(sent, other, job) /\ ~Rivals(sent, job, other)
      BY <1>9, KindsDiffer DEF Rivals
    <3> QED
      BY <3>2, <3>3 DEF other
  <2>3. JobOK(sent, job, list)
    BY <2>1, <1>1, <1>3, <1>8, <1>9, KindsDiffer DEF JobOK
  <2>4. /\ JobsOK(sent, list) /\ NoRivals(sent)
        /\ \A i \in 1..Len(gone.jobs) : \E j \in 1..Len(sent.jobs) : sent.jobs[j] = gone.jobs[i]
    BY <1>2, <1>5, <1>8, <2>2, <2>3, OneMoreJob
  <2>5. FlagsBacked(sent)
    BY SMTT(30), <2>4, <1>7, <1>8 DEF CatInv, FlagsBacked
  <2>6. (sent.migrate => sent.ready) /\ OnDisk(sent) /\ TimersOK(sent, list)
    BY <1>7, <1>8 DEF CatInv, OnDisk, TimersOK
  <2>7. ~Quiet(c)
    BY <2>1 DEF Quiet
  <2> QED
    BY <2>4, <2>5, <2>6, <2>7, <1>3, <1>8 DEF CatInv, SameFiles
<1> QED
  BY <1>2, <1>3, <1>4, <1>7, <1>8, <1>10 DEF d
(* The worker runs the first job that waits. *)
LEMMA WorkerPicks ==
  ASSUME NEW c \in Catalogues, Waiting(c) # {}
  PROVE  LET i == CHOOSE i \in Waiting(c) : \A j \in Waiting(c) : i <= j
         IN  i \in 1..Len(c.jobs) /\ c.jobs[i].out = "queued"
<1>1. Len(c.jobs) \in Nat /\ DOMAIN c.jobs = 1..Len(c.jobs)
  BY CatFields
<1>2. Waiting(c) \in SUBSET Nat
  BY <1>1 DEF Waiting
<1>3. \E i \in Waiting(c) : \A j \in Waiting(c) : i <= j
  BY <1>2, LeastNatural
<1> DEFINE i == CHOOSE i \in Waiting(c) : \A j \in Waiting(c) : i <= j
<1>4. i \in Waiting(c)
  BY <1>3
<1> HIDE DEF i
<1>5. i \in 1..Len(c.jobs) /\ c.jobs[i].out = "queued"
  BY <1>1, <1>4 DEF Waiting
<1> QED
  BY <1>5 DEF i

LEMMA WorkerRanFacts ==
  ASSUME NEW c \in Catalogues, NEW list, CatInv(c, list), Waiting(c) # {}, NEW made \in BOOLEAN
  PROVE  LET d == WorkerRan(c, made)
         IN  /\ d \in Catalogues /\ CatInv(d, list) /\ SameFiles(c, d) /\ (Quiet(c) => Quiet(d))
             /\ d.index = c.index
<1> DEFINE k == CHOOSE i \in Waiting(c) : \A j \in Waiting(c) : i <= j
           job == c.jobs[k]
           out == IF made THEN "made" ELSE "failed"
           file == IF job.kind = "restore" THEN Restored(c, job) ELSE NoFile
           done == [job EXCEPT !.out = out, !.file = file]
           jobs == [c.jobs EXCEPT ![k] = done]
           d == WorkerRan(c, made)
<1>1. k \in 1..Len(c.jobs) /\ job.out = "queued"
  BY WorkerPicks
<1>2. d = [c EXCEPT !.jobs[k] = done]
  BY DEF WorkerRan
<1> HIDE DEF k, d
<1>3. /\ job \in Jobs /\ job.kind \in {"restore", "refresh", "migrate", "cache"}
      /\ job.gen \in Nat /\ job.list \in SUBSET Keys
  BY <1>1, JobFields
<1>4. out \in {"queued", "failed", "made"} /\ out # "queued"
  OBVIOUS
<1>5. c.disk \in Files
  BY CatFields
<1>6. /\ file \in Files
      /\ job.kind = "restore" /\ c.disk.format = 0 => file.format = 0
      /\ job.kind = "restore" /\ c.disk.format # 0 => file = c.disk
  <2> DEFINE none == [format |-> 0, list |-> job.list, old |-> FALSE]
             no == FALSE
  <2>1. no \in BOOLEAN /\ none = [format |-> 0, list |-> job.list, old |-> no]
    OBVIOUS
  <2> HIDE DEF no, none
  <2>2. none \in Files /\ none.format = 0
    BY <1>3, <2>1 DEF Files
  <2>3. [format |-> 0, list |-> {}, old |-> no] \in Files
    BY <2>1 DEF Files
  <2>4. NoFile \in Files
    BY <2>3 DEF NoFile, no
  <2>5. Restored(c, job) = IF c.disk.format # 0 THEN c.disk ELSE none
    BY DEF Restored, none
  <2> QED
    BY <2>2, <2>4, <2>5, <1>5
<1> HIDE DEF out, file
<1>7. /\ done \in Jobs /\ done.kind = job.kind /\ done.gen = job.gen /\ done.list = job.list
      /\ done.out = out /\ done.file = file
  BY <1>3, <1>4, <1>6 DEF Jobs
<1>8. c.jobs \in Seq(Jobs) /\ Len(c.jobs) \in Nat
  BY CatFields
<1> HIDE DEF done
<1>9. d = [c EXCEPT !.jobs = jobs]
  BY <1>2
<1>10. /\ jobs \in Seq(Jobs) /\ Len(jobs) = Len(c.jobs) /\ jobs[k] = done
       /\ \A i \in 1..Len(c.jobs) : i # k => jobs[i] = c.jobs[i]
  BY <1>1, <1>7, <1>8
<1> HIDE DEF jobs
<1>11. d \in Catalogues
  BY <1>9, <1>10 DEF Catalogues
<1>12. /\ d.gen = c.gen /\ d.ready = c.ready /\ d.expired = c.expired
       /\ d.migrate = c.migrate /\ d.index = c.index /\ d.disk = c.disk
       /\ d.restoring = c.restoring /\ d.restoreGen = c.restoreGen
       /\ d.refreshing = c.refreshing /\ d.migrating = c.migrating
       /\ d.cacheGen = c.cacheGen /\ d.candidate = c.candidate /\ d.timers = c.timers
       /\ d.jobs = jobs /\ d.persisted = c.persisted
  BY <1>9 DEF Catalogues
<1>13. \A i \in 1..Len(c.jobs) : /\ jobs[i].kind = c.jobs[i].kind /\ jobs[i].gen = c.jobs[i].gen
                                 /\ jobs[i].list = c.jobs[i].list
  BY <1>7, <1>10 DEF job
<1>14. JobOK(d, done, list)
  <2>1. JobOK(c, job, list)
    BY <1>1 DEF CatInv, JobsOK
  <2> HIDE DEF job
  <2> QED
    BY <2>1, <1>4, <1>6, <1>7, <1>12 DEF JobOK
<1>15. JobsOK(d, list)
  <2>1. ASSUME NEW i \in 1..Len(c.jobs), i # k PROVE JobOK(d, c.jobs[i], list)
    <3>1. JobOK(c, c.jobs[i], list)
      BY DEF CatInv, JobsOK
    <3> QED
      BY <3>1, <1>12 DEF JobOK
  <2> QED
    BY <2>1, <1>10, <1>12, <1>14 DEF JobsOK
<1>16. NoRivals(d)
  <2>1. \A i, j \in 1..Len(c.jobs) : Rivals(d, jobs[i], jobs[j]) <=> Rivals(c, c.jobs[i], c.jobs[j])
    BY <1>12, <1>13 DEF Rivals
  <2> QED
    BY <2>1, <1>10, <1>12 DEF CatInv, NoRivals
<1>17. FlagsBacked(d)
  BY <1>10, <1>12, <1>13 DEF CatInv, FlagsBacked
<1>18. (d.migrate => d.ready) /\ OnDisk(d) /\ TimersOK(d, list)
  BY <1>12 DEF CatInv, OnDisk, TimersOK
<1>19. Quiet(c) => Quiet(d)
  BY <1>10, <1>12, <1>13 DEF Quiet
<1>20. CatInv(d, list) /\ SameFiles(c, d)
  BY <1>12, <1>15, <1>16, <1>17, <1>18 DEF CatInv, SameFiles
<1> QED
  BY <1>11, <1>12, <1>19, <1>20 DEF d

(* The callback of the first job. *)
LEMMA TailOfJobs ==
  ASSUME NEW jobs \in Seq(Jobs), jobs # <<>>
  PROVE  LET rest == Tail(jobs)
         IN  /\ rest \in Seq(Jobs) /\ Head(jobs) = jobs[1] /\ 1 \in 1..Len(jobs)
             /\ \A i \in 1..Len(rest) : i + 1 \in 1..Len(jobs) /\ i + 1 # 1 /\ rest[i] = jobs[i + 1]
             /\ \A j \in 1..Len(jobs) : j # 1 => j - 1 \in 1..Len(rest) /\ rest[j - 1] = jobs[j]
OBVIOUS

LEMMA OneJobLess ==
  ASSUME NEW c \in Catalogues, NEW e, NEW list, CatInv(c, list), c.jobs # <<>>,
         e.jobs = Tail(c.jobs), e.gen = c.gen, e.cacheGen = c.cacheGen
  PROVE  /\ e.jobs \in Seq(Jobs) /\ NoRivals(e)
         /\ \A i \in 1..Len(e.jobs) : /\ JobOK(c, e.jobs[i], list)
                                      /\ ~Rivals(c, Head(c.jobs), e.jobs[i])
         /\ \A j \in 1..Len(c.jobs) : \/ c.jobs[j] = Head(c.jobs)
                                      \/ \E i \in 1..Len(e.jobs) : e.jobs[i] = c.jobs[j]
         /\ JobOK(c, Head(c.jobs), list) /\ Head(c.jobs) \in Jobs
         /\ Quiet(c) /\ e.timers \subseteq c.timers => Quiet(e)
<1> DEFINE jobs == c.jobs
           rest == e.jobs
<1>1. /\ rest \in Seq(Jobs) /\ Head(jobs) = jobs[1] /\ 1 \in 1..Len(jobs)
      /\ \A i \in 1..Len(rest) : i + 1 \in 1..Len(jobs) /\ i + 1 # 1 /\ rest[i] = jobs[i + 1]
      /\ \A j \in 1..Len(jobs) : j # 1 => j - 1 \in 1..Len(rest) /\ rest[j - 1] = jobs[j]
  BY CatFields, TailOfJobs
<1>2. \A i, j \in 1..Len(jobs) : Rivals(c, jobs[i], jobs[j]) => i = j
  BY DEF CatInv, NoRivals
<1>3. \A one, other : Rivals(e, one, other) <=> Rivals(c, one, other)
  BY DEF Rivals
<1>4. \A i \in 1..Len(jobs) : JobOK(c, jobs[i], list)
  BY DEF CatInv, JobsOK
<1>5. jobs[1] \in Jobs
  BY <1>1, JobFields
<1>6. ASSUME Quiet(c), e.timers \subseteq c.timers PROVE Quiet(e)
  <2>1. \A i \in 1..Len(jobs) : /\ jobs[i].kind # "cache" => jobs[i].gen < e.gen
                                /\ jobs[i].kind = "cache" => jobs[i].gen < e.cacheGen
    BY <1>6 DEF Quiet
  <2>2. \A i \in 1..Len(rest) : /\ rest[i].kind # "cache" => rest[i].gen < e.gen
                                /\ rest[i].kind = "cache" => rest[i].gen < e.cacheGen
    <3> HIDE DEF jobs, rest
    <3> QED
      BY <1>1, <2>1
  <2> QED
    BY <1>6, <2>2 DEF Quiet
<1> HIDE DEF jobs, rest
<1>7. \A i, j \in 1..Len(rest) : Rivals(e, rest[i], rest[j]) => i = j
  <2> SUFFICES ASSUME NEW i \in 1..Len(rest), NEW j \in 1..Len(rest), Rivals(e, rest[i], rest[j])
               PROVE  i = j
    OBVIOUS
  <2>1. i + 1 = j + 1
    BY <1>1, <1>2, <1>3
  <2> QED
    BY <2>1
<1>8. \A i \in 1..Len(rest) : JobOK(c, rest[i], list) /\ ~Rivals(c, jobs[1], rest[i])
  BY <1>1, <1>2, <1>4
<1>9. \A j \in 1..Len(jobs) : jobs[j] = jobs[1] \/ \E i \in 1..Len(rest) : rest[i] = jobs[j]
  BY <1>1
<1> QED
  BY <1>1, <1>4, <1>5, <1>6, <1>7, <1>8, <1>9 DEF NoRivals, jobs, rest

(* What a callback may do to the files. *)
Published(c, d, list) ==
  /\ d.disk # c.disk => d.disk.list = d.index /\ (d.disk.list = list \/ d.index = c.index)
  /\ d.persisted # c.persisted => d.persisted = list

LEMMA RestoreDoneFacts ==
  ASSUME NEW c \in Catalogues, NEW list, CatInv(c, list), c.jobs # <<>>,
         Head(c.jobs).kind = "restore", Head(c.jobs).out # "queued"
  PROVE  LET d == RestoreDone([c EXCEPT !.jobs = Tail(@)], Head(c.jobs))
         IN  /\ d \in Catalogues /\ CatInv(d, list) /\ Published(c, d, list)
             /\ Quiet(c) => Quiet(d)
<1> DEFINE job == Head(c.jobs)
           e == [c EXCEPT !.jobs = Tail(@)]
           no == FALSE
           yes == TRUE
           mine == e.restoring /\ job.gen = e.restoreGen
           over == IF mine THEN [e EXCEPT !.restoring = no] ELSE e
           old == job.file.format \in {0, 1}
           publish == [over EXCEPT !.index = job.file.list, !.ready = yes,
                                   !.expired = job.file.old, !.migrate = old,
                                   !.pending = no, !.allowed = no]
           keep == job.out = "failed" \/ job.gen # e.gen
           d == RestoreDone(e, job)
<1>1. d = (IF keep THEN over ELSE publish) /\ no \in BOOLEAN /\ yes \in BOOLEAN /\ yes /\ ~no
      /\ old \in BOOLEAN
  BY DEF RestoreDone
<1>2. e.jobs = Tail(c.jobs) /\ e.gen = c.gen /\ e.ready = c.ready /\ e.expired = c.expired
      /\ e.migrate = c.migrate /\ e.index = c.index /\ e.disk = c.disk
      /\ e.restoring = c.restoring /\ e.restoreGen = c.restoreGen
      /\ e.refreshing = c.refreshing /\ e.migrating = c.migrating
      /\ e.cacheGen = c.cacheGen /\ e.candidate = c.candidate /\ e.timers = c.timers
      /\ e.persisted = c.persisted
  BY DEF Catalogues
<1>3. /\ Tail(c.jobs) \in Seq(Jobs) /\ job \in Jobs /\ JobOK(c, job, list)
  BY ZenonT(60), <1>2, OneJobLess
<1>4. e \in Catalogues
  BY <1>3 DEF Catalogues
<1>5. job.file \in Files /\ job.file.list \in SUBSET Keys /\ job.file.old \in BOOLEAN
      /\ job.file.format \in {0, 1, 2}
  <2>1. job.file \in Files
    BY <1>3 DEF Jobs
  <2> QED
    BY <2>1, FileFields
<1>6. job.kind = "restore" /\ job.out # "queued"
  OBVIOUS
<1> HIDE DEF e, job, no, yes, old
<1>7. mine <=> job.gen = c.gen
  BY <1>2, <1>3, <1>6 DEF CatInv, FlagsBacked, JobOK
<1> HIDE DEF mine
<1>8. over \in Catalogues
  BY ZenonT(60), <1>1, <1>4 DEF Catalogues
<1>9. /\ over.jobs = Tail(c.jobs) /\ over.gen = c.gen /\ over.ready = c.ready
      /\ over.expired = c.expired
      /\ over.migrate = c.migrate /\ over.index = c.index /\ over.disk = c.disk
      /\ over.restoreGen = c.restoreGen
      /\ over.refreshing = c.refreshing /\ over.migrating = c.migrating
      /\ over.cacheGen = c.cacheGen /\ over.candidate = c.candidate /\ over.timers = c.timers
      /\ over.persisted = c.persisted
      /\ over.restoring = (IF mine THEN no ELSE c.restoring)
  BY <1>2, <1>4 DEF Catalogues
<1> HIDE DEF over
<1>10. publish \in Catalogues
  BY <1>1, <1>5, <1>8 DEF Catalogues
<1>11. /\ publish.jobs = Tail(c.jobs) /\ publish.gen = c.gen /\ publish.ready
       /\ publish.migrate = old /\ publish.index = job.file.list /\ publish.disk = c.disk
       /\ publish.restoreGen = c.restoreGen /\ publish.restoring = over.restoring
       /\ publish.refreshing = c.refreshing /\ publish.migrating = c.migrating
       /\ publish.cacheGen = c.cacheGen /\ publish.candidate = c.candidate
       /\ publish.timers = c.timers /\ publish.persisted = c.persisted
  BY <1>1, <1>8, <1>9 DEF Catalogues
<1> HIDE DEF publish, keep, d
<1>12. ASSUME NEW f \in {over, publish}
       PROVE  /\ NoRivals(f) /\ (Quiet(c) => Quiet(f))
              /\ \A i \in 1..Len(f.jobs) : /\ JobOK(c, f.jobs[i], list)
                                           /\ ~Rivals(c, job, f.jobs[i])
              /\ \A j \in 1..Len(c.jobs) : \/ c.jobs[j] = job
                                           \/ \E i \in 1..Len(f.jobs) : f.jobs[i] = c.jobs[j]
  <2>1. f.jobs = Tail(c.jobs) /\ f.gen = c.gen /\ f.cacheGen = c.cacheGen /\ f.timers = c.timers
    BY <1>9, <1>11
  <2> QED
    BY <2>1, OneJobLess DEF job
<1>13. ASSUME NEW f \in {over, publish} PROVE FlagsBacked(f)
  <2>1. /\ f.gen = c.gen /\ f.restoreGen = c.restoreGen /\ f.refreshing = c.refreshing
        /\ f.migrating = c.migrating /\ (f.restoring => c.restoring /\ job.gen # c.gen)
    BY <1>1, <1>7, <1>9, <1>11
  <2>2. f.refreshing => \E i \in 1..Len(f.jobs) : f.jobs[i].kind = "refresh"
    <3>1. c.refreshing => \E j \in 1..Len(c.jobs) : c.jobs[j].kind = "refresh"
      BY DEF CatInv, FlagsBacked
    <3> QED
      BY <3>1, <2>1, <1>6, <1>12, KindsDiffer
  <2>3. f.migrating => \E i \in 1..Len(f.jobs) : f.jobs[i].kind = "migrate"
    <3>1. c.migrating => \E j \in 1..Len(c.jobs) : c.jobs[j].kind = "migrate"
      BY DEF CatInv, FlagsBacked
    <3> QED
      BY <3>1, <2>1, <1>6, <1>12, KindsDiffer
  <2>4. f.restoring => /\ f.restoreGen = f.gen
                       /\ \E i \in 1..Len(f.jobs) : f.jobs[i].kind = "restore" /\ f.jobs[i].gen = f.gen
    <3>1. FlagsBacked(c)
      BY DEF CatInv
    <3> SUFFICES ASSUME f.restoring
                 PROVE  /\ f.restoreGen = f.gen
                        /\ \E i \in 1..Len(f.jobs) : f.jobs[i].kind = "restore" /\ f.jobs[i].gen = f.gen
      OBVIOUS
    <3>2. c.restoring /\ job.gen # c.gen
      BY <2>1
    <3>3. c.restoreGen = c.gen
      BY <3>1, <3>2 DEF FlagsBacked
    <3>4. PICK j \in 1..Len(c.jobs) : c.jobs[j].kind = "restore" /\ c.jobs[j].gen = c.gen
      BY <3>1, <3>2 DEF FlagsBacked
    <3>5. c.jobs[j] # job
      BY <3>2, <3>4
    <3>6. PICK i \in 1..Len(f.jobs) : f.jobs[i] = c.jobs[j]
      BY <3>5, <1>12
    <3> QED
      BY <3>3, <3>4, <3>6, <2>1
  <2> QED
    BY <2>2, <2>3, <2>4 DEF FlagsBacked
<1>14. CASE keep
  <2>1. JobsOK(over, list)
    <3>1. ASSUME NEW i \in 1..Len(over.jobs) PROVE JobOK(over, over.jobs[i], list)
      <4> DEFINE other == over.jobs[i]
      <4>1. JobOK(c, other, list) /\ ~Rivals(c, job, other)
        BY <1>12
      <4> HIDE DEF other
      <4>2. other.kind = "restore" /\ other.gen = c.gen => ~mine
        BY <4>1, <1>6, <1>7 DEF Rivals
      <4>3. JobOK(over, other, list)
        BY <4>1, <4>2, <1>9 DEF JobOK
      <4> QED
        BY <4>3 DEF other
    <3> QED
      BY <3>1 DEF JobsOK
  <2>2. (over.migrate => over.ready) /\ OnDisk(over) /\ TimersOK(over, list)
    BY <1>9 DEF CatInv, OnDisk, TimersOK
  <2>3. CatInv(over, list)
    BY <2>1, <2>2, <1>12, <1>13 DEF CatInv
  <2>4. Published(c, over, list)
    BY <1>9 DEF Published
  <2> QED
    BY <2>3, <2>4, <1>1, <1>8, <1>12, <1>14 DEF d, e, job
<1>15. CASE ~keep
  <2>1. job.gen = c.gen /\ mine
    BY <1>2, <1>7, <1>15 DEF keep
  <2>2. /\ ~c.ready /\ ~c.refreshing /\ ~c.migrating
        /\ c.disk.format = 0 => job.file.format = 0
        /\ c.disk.format # 0 => job.file = c.disk
    BY <2>1, <1>3, <1>6 DEF JobOK
  <2>3. JobsOK(publish, list)
    <3>1. ASSUME NEW i \in 1..Len(publish.jobs) PROVE JobOK(publish, publish.jobs[i], list)
      <4> DEFINE other == publish.jobs[i]
      <4>1. JobOK(c, other, list) /\ ~Rivals(c, job, other)
        BY <1>12
      <4> HIDE DEF other
      <4>2. ~(other.kind = "restore" /\ other.gen = c.gen)
        BY <4>1, <2>1, <1>6 DEF Rivals
      <4>3. other.kind # "refresh" /\ other.kind # "migrate"
        BY <4>1, <2>2 DEF JobOK
      <4>4. JobOK(publish, other, list)
        BY <4>1, <4>2, <4>3, <1>11 DEF JobOK
      <4> QED
        BY <4>4 DEF other
    <3> QED
      BY <3>1 DEF JobsOK
  <2>4. OnDisk(publish)
    BY <2>2, <1>5, <1>11 DEF OnDisk, old
  <2>5. TimersOK(publish, list) /\ publish.ready
    BY <1>11 DEF CatInv, TimersOK
  <2>6. CatInv(publish, list)
    BY <2>3, <2>4, <2>5, <1>12, <1>13 DEF CatInv
  <2>7. Published(c, publish, list)
    BY <1>11 DEF Published
  <2> QED
    BY <2>6, <2>7, <1>1, <1>10, <1>12, <1>15 DEF d, e, job
<1> QED
  BY <1>14, <1>15
LEMMA RefreshDoneFacts ==
  ASSUME NEW c \in Catalogues, NEW list, CatInv(c, list), c.jobs # <<>>,
         Head(c.jobs).kind = "refresh", NEW published \in BOOLEAN
  PROVE  LET d == RefreshDone([c EXCEPT !.jobs = Tail(@)], Head(c.jobs), published)
         IN  /\ d \in Catalogues /\ CatInv(d, list) /\ Published(c, d, list)
             /\ Quiet(c) => Quiet(d)
<1> DEFINE job == Head(c.jobs)
           e == [c EXCEPT !.jobs = Tail(@)]
           no == FALSE
           fresh == [format |-> 2, list |-> job.list, old |-> no]
           over == [e EXCEPT !.refreshing = no]
           publish == [e EXCEPT !.refreshing = no, !.expired = no, !.migrate = no,
                                !.index = job.list, !.disk = fresh]
           keep == job.out = "failed" \/ job.gen # e.gen \/ ~published
           d == RefreshDone(e, job, published)
<1>1. d = (IF keep THEN over ELSE publish) /\ no \in BOOLEAN /\ ~no
  BY DEF RefreshDone
<1>2. e.jobs = Tail(c.jobs) /\ e.gen = c.gen /\ e.ready = c.ready /\ e.expired = c.expired
      /\ e.migrate = c.migrate /\ e.index = c.index /\ e.disk = c.disk
      /\ e.restoring = c.restoring /\ e.restoreGen = c.restoreGen
      /\ e.refreshing = c.refreshing /\ e.migrating = c.migrating
      /\ e.cacheGen = c.cacheGen /\ e.candidate = c.candidate /\ e.timers = c.timers
      /\ e.persisted = c.persisted
  BY DEF Catalogues
<1>3. /\ Tail(c.jobs) \in Seq(Jobs) /\ job \in Jobs /\ JobOK(c, job, list)
  BY ZenonT(60), <1>2, OneJobLess
<1>4. e \in Catalogues
  BY <1>3 DEF Catalogues
<1>5. job.list \in SUBSET Keys /\ job.kind = "refresh"
  BY <1>3 DEF Jobs
<1> HIDE DEF e, job, no
<1>6. fresh \in Files /\ fresh.format = 2 /\ fresh.list = job.list
  BY <1>1, <1>5 DEF Files
<1> HIDE DEF fresh
<1>7. c.refreshing /\ (job.gen = c.gen => c.ready /\ job.list = list)
  BY <1>3, <1>5 DEF JobOK
<1>8. over \in Catalogues /\ publish \in Catalogues
  BY <1>1, <1>4, <1>5, <1>6 DEF Catalogues
<1>9. ASSUME NEW f \in {over, publish}
      PROVE  /\ f.jobs = Tail(c.jobs) /\ f.gen = c.gen /\ f.ready = c.ready
             /\ f.restoring = c.restoring /\ f.restoreGen = c.restoreGen
             /\ f.refreshing = no /\ f.migrating = c.migrating
             /\ f.cacheGen = c.cacheGen /\ f.candidate = c.candidate /\ f.timers = c.timers
             /\ f.persisted = c.persisted
  <2>1. CASE f = over
    BY <2>1, <1>2, <1>4 DEF Catalogues
  <2>2. CASE f = publish
    BY <2>2, <1>2, <1>4 DEF Catalogues
  <2> QED
    BY <2>1, <2>2
<1>10. over.expired = c.expired /\ over.migrate = c.migrate /\ over.index = c.index
       /\ over.disk = c.disk
  BY <1>2, <1>4 DEF Catalogues
<1>11. publish.expired = no /\ publish.migrate = no /\ publish.index = job.list
       /\ publish.disk = fresh
  BY <1>2, <1>4 DEF Catalogues
<1> HIDE DEF over, publish, keep, d
<1>12. ASSUME NEW f \in {over, publish}
       PROVE  /\ NoRivals(f) /\ (Quiet(c) => Quiet(f))
              /\ JobsOK(f, list) /\ FlagsBacked(f) /\ TimersOK(f, list)
  <2>1. f.jobs = Tail(c.jobs) /\ f.gen = c.gen /\ f.cacheGen = c.cacheGen /\ f.timers = c.timers
    BY <1>9
  <2>2. /\ NoRivals(f) /\ (Quiet(c) => Quiet(f))
        /\ \A i \in 1..Len(f.jobs) : JobOK(c, f.jobs[i], list) /\ ~Rivals(c, job, f.jobs[i])
        /\ \A j \in 1..Len(c.jobs) : \/ c.jobs[j] = job
                                     \/ \E i \in 1..Len(f.jobs) : f.jobs[i] = c.jobs[j]
    BY <2>1, OneJobLess DEF job
  <2>3. ASSUME NEW i \in 1..Len(f.jobs) PROVE JobOK(f, f.jobs[i], list)
    <3> DEFINE other == f.jobs[i]
    <3>1. JobOK(c, other, list) /\ ~Rivals(c, job, other)
      BY <2>2
    <3> HIDE DEF other
    <3>2. other.kind # "refresh" /\ other.kind # "migrate"
      BY <3>1, <1>5 DEF Rivals
    <3>3. ~(other.kind = "restore" /\ other.gen = c.gen)
      BY <3>1, <1>7 DEF JobOK
    <3>4. JobOK(f, other, list)
      BY <3>1, <3>2, <3>3, <1>9 DEF JobOK
    <3> QED
      BY <3>4 DEF other
  <2>4. f.migrating => \E i \in 1..Len(f.jobs) : f.jobs[i].kind = "migrate"
    <3>1. c.migrating => \E j \in 1..Len(c.jobs) : c.jobs[j].kind = "migrate"
      BY DEF CatInv, FlagsBacked
    <3> QED
      BY <3>1, <2>2, <1>5, <1>9, KindsDiffer
  <2>5. f.restoring => /\ f.restoreGen = f.gen
                       /\ \E i \in 1..Len(f.jobs) : f.jobs[i].kind = "restore" /\ f.jobs[i].gen = f.gen
    <3>1. c.restoring => /\ c.restoreGen = c.gen
                         /\ \E j \in 1..Len(c.jobs) : c.jobs[j].kind = "restore" /\ c.jobs[j].gen = c.gen
      BY DEF CatInv, FlagsBacked
    <3> QED
      BY <3>1, <2>2, <1>5, <1>9, KindsDiffer
  <2>6. FlagsBacked(f)
    BY <2>4, <2>5, <1>1, <1>9 DEF FlagsBacked
  <2>7. TimersOK(f, list)
    BY <1>9 DEF CatInv, TimersOK
  <2> QED
    BY <2>2, <2>3, <2>6, <2>7 DEF JobsOK
<1>13. CASE keep
  <2>1. (over.migrate => over.ready) /\ OnDisk(over)
    BY <1>9, <1>10 DEF CatInv, OnDisk
  <2>2. CatInv(over, list)
    BY <2>1, <1>12 DEF CatInv
  <2>3. Published(c, over, list)
    BY <1>9, <1>10 DEF Published
  <2> QED
    BY <2>2, <2>3, <1>1, <1>8, <1>12, <1>13 DEF d, e, job
<1>14. CASE ~keep
  <2>1. job.list = list
    BY <1>2, <1>7, <1>14 DEF keep
  <2>2. (publish.migrate => publish.ready) /\ OnDisk(publish)
    BY <1>1, <1>6, <1>11 DEF OnDisk
  <2>3. CatInv(publish, list)
    BY <2>2, <1>12 DEF CatInv
  <2>4. Published(c, publish, list)
    BY <2>1, <1>6, <1>9, <1>11 DEF Published
  <2> QED
    BY <2>3, <2>4, <1>1, <1>8, <1>12, <1>14 DEF d, e, job
<1> QED
  BY <1>13, <1>14

LEMMA MigrationDoneFacts ==
  ASSUME NEW c \in Catalogues, NEW list, CatInv(c, list), c.jobs # <<>>,
         Head(c.jobs).kind = "migrate", NEW published \in BOOLEAN
  PROVE  LET d == MigrationDone([c EXCEPT !.jobs = Tail(@)], Head(c.jobs), published)
         IN  /\ d \in Catalogues /\ CatInv(d, list) /\ Published(c, d, list)
             /\ Quiet(c) => Quiet(d)
<1> DEFINE job == Head(c.jobs)
           e == [c EXCEPT !.jobs = Tail(@)]
           no == FALSE
           fresh == [format |-> 2, list |-> job.list, old |-> e.expired]
           over == [e EXCEPT !.migrating = no]
           due == over.migrate /\ ~e.expired
           given == [over EXCEPT !.migrate = due]
           publish == [over EXCEPT !.migrate = no, !.disk = fresh]
           failed == job.out = "failed" \/ ~published
           outdated == job.out # "failed" /\ (job.gen # e.gen \/ ~e.migrate)
           d == MigrationDone(e, job, published)
<1>1. /\ d = (CASE outdated -> over
               [] ~outdated /\ failed -> given
               [] ~outdated /\ ~failed -> publish)
      /\ no \in BOOLEAN /\ ~no /\ outdated \in BOOLEAN /\ failed \in BOOLEAN
  BY DEF MigrationDone
<1>2. e.jobs = Tail(c.jobs) /\ e.gen = c.gen /\ e.ready = c.ready /\ e.expired = c.expired
      /\ e.migrate = c.migrate /\ e.index = c.index /\ e.disk = c.disk
      /\ e.restoring = c.restoring /\ e.restoreGen = c.restoreGen
      /\ e.refreshing = c.refreshing /\ e.migrating = c.migrating
      /\ e.cacheGen = c.cacheGen /\ e.candidate = c.candidate /\ e.timers = c.timers
      /\ e.persisted = c.persisted
  BY DEF Catalogues
<1>3. /\ Tail(c.jobs) \in Seq(Jobs) /\ job \in Jobs /\ JobOK(c, job, list)
  BY <1>2, OneJobLess
<1>4. e \in Catalogues /\ e.expired \in BOOLEAN
  BY <1>3 DEF Catalogues
<1>5. job.list \in SUBSET Keys /\ job.kind = "migrate"
  BY <1>3 DEF Jobs
<1> HIDE DEF e, job, no
<1>6. fresh \in Files /\ fresh.format = 2 /\ fresh.list = job.list
  BY <1>1, <1>4, <1>5 DEF Files
<1> HIDE DEF fresh
<1>7. c.migrating /\ (job.gen = c.gen => c.ready /\ job.list = c.index)
  BY <1>3, <1>5 DEF JobOK
<1>8. over \in Catalogues
  BY <1>1, <1>4 DEF Catalogues
<1>9. /\ over.jobs = Tail(c.jobs) /\ over.gen = c.gen /\ over.ready = c.ready
      /\ over.restoring = c.restoring /\ over.restoreGen = c.restoreGen
      /\ over.refreshing = c.refreshing /\ over.migrating = no
      /\ over.cacheGen = c.cacheGen /\ over.candidate = c.candidate /\ over.timers = c.timers
      /\ over.persisted = c.persisted /\ over.index = c.index /\ over.expired = c.expired
      /\ over.migrate = c.migrate /\ over.disk = c.disk
  BY <1>2, <1>4 DEF Catalogues
<1> HIDE DEF over
<1>10. due \in BOOLEAN /\ (due <=> c.migrate /\ ~c.expired)
  BY <1>2, <1>9
<1> HIDE DEF due
<1>11. given \in Catalogues /\ publish \in Catalogues
  BY <1>1, <1>6, <1>8, <1>10 DEF Catalogues
<1>12. ASSUME NEW f \in {over, given, publish}
       PROVE  /\ f.jobs = Tail(c.jobs) /\ f.gen = c.gen /\ f.ready = c.ready
              /\ f.restoring = c.restoring /\ f.restoreGen = c.restoreGen
              /\ f.refreshing = c.refreshing /\ f.migrating = no
              /\ f.cacheGen = c.cacheGen /\ f.candidate = c.candidate /\ f.timers = c.timers
              /\ f.persisted = c.persisted /\ f.index = c.index /\ f.expired = c.expired
  <2>1. CASE f = over
    BY <2>1, <1>9
  <2>2. CASE f = given
    BY <2>2, <1>8, <1>9 DEF Catalogues
  <2>3. CASE f = publish
    BY <2>3, <1>8, <1>9 DEF Catalogues
  <2> QED
    BY <2>1, <2>2, <2>3
<1>13. given.migrate = due /\ given.disk = c.disk /\ publish.migrate = no /\ publish.disk = fresh
  BY <1>8, <1>9 DEF Catalogues
<1> HIDE DEF given, publish, d
<1>14. ASSUME NEW f \in {over, given, publish}
       PROVE  /\ NoRivals(f) /\ (Quiet(c) => Quiet(f))
              /\ JobsOK(f, list) /\ FlagsBacked(f) /\ TimersOK(f, list)
  <2>1. f.jobs = Tail(c.jobs) /\ f.gen = c.gen /\ f.cacheGen = c.cacheGen /\ f.timers = c.timers
    BY <1>12
  <2>2. /\ NoRivals(f) /\ (Quiet(c) => Quiet(f))
        /\ \A i \in 1..Len(f.jobs) : JobOK(c, f.jobs[i], list) /\ ~Rivals(c, job, f.jobs[i])
        /\ \A j \in 1..Len(c.jobs) : \/ c.jobs[j] = job
                                     \/ \E i \in 1..Len(f.jobs) : f.jobs[i] = c.jobs[j]
    BY <2>1, OneJobLess DEF job
  <2>3. ASSUME NEW i \in 1..Len(f.jobs) PROVE JobOK(f, f.jobs[i], list)
    <3> DEFINE other == f.jobs[i]
    <3>1. JobOK(c, other, list) /\ ~Rivals(c, job, other)
      BY <2>2
    <3> HIDE DEF other
    <3>2. other.kind # "refresh" /\ other.kind # "migrate"
      BY <3>1, <1>5 DEF Rivals
    <3>3. ~(other.kind = "restore" /\ other.gen = c.gen)
      BY <3>1, <1>7 DEF JobOK
    <3>4. JobOK(f, other, list)
      BY <3>1, <3>2, <3>3, <1>12 DEF JobOK
    <3> QED
      BY <3>4 DEF other
  <2>4. f.refreshing => \E i \in 1..Len(f.jobs) : f.jobs[i].kind = "refresh"
    <3>1. c.refreshing => \E j \in 1..Len(c.jobs) : c.jobs[j].kind = "refresh"
      BY DEF CatInv, FlagsBacked
    <3> QED
      BY <3>1, <2>2, <1>5, <1>12, KindsDiffer
  <2>5. f.restoring => /\ f.restoreGen = f.gen
                       /\ \E i \in 1..Len(f.jobs) : f.jobs[i].kind = "restore" /\ f.jobs[i].gen = f.gen
    <3>1. c.restoring => /\ c.restoreGen = c.gen
                         /\ \E j \in 1..Len(c.jobs) : c.jobs[j].kind = "restore" /\ c.jobs[j].gen = c.gen
      BY DEF CatInv, FlagsBacked
    <3> QED
      BY SMTT(30), <3>1, <2>2, <1>5, <1>12, KindsDiffer
  <2>6. FlagsBacked(f)
    BY <2>4, <2>5, <1>1, <1>12 DEF FlagsBacked
  <2>7. TimersOK(f, list)
    BY <1>12 DEF CatInv, TimersOK
  <2> QED
    BY <2>2, <2>3, <2>6, <2>7 DEF JobsOK
<1>15. ASSUME NEW f \in {over, given, publish}, f.migrate => f.ready, OnDisk(f), Published(c, f, list),
              d = f
       PROVE  d \in Catalogues /\ CatInv(d, list) /\ Published(c, d, list) /\ (Quiet(c) => Quiet(d))
  <2>1. CatInv(f, list)
    BY <1>14, <1>15 DEF CatInv
  <2> QED
    BY <2>1, <1>8, <1>11, <1>14, <1>15
<1>16. CASE outdated
  <2>1. (over.migrate => over.ready) /\ OnDisk(over)
    BY <1>9 DEF CatInv, OnDisk
  <2>2. Published(c, over, list)
    BY <1>9 DEF Published
  <2>3. d = over
    BY <1>1, <1>16
  <2> QED
    BY <2>1, <2>2, <2>3, <1>15 DEF d, e, job
<1>17. CASE ~outdated /\ failed
  <2>1. (given.migrate => given.ready) /\ OnDisk(given)
    BY <1>10, <1>12, <1>13 DEF CatInv, OnDisk
  <2>2. Published(c, given, list)
    BY <1>12, <1>13 DEF Published
  <2>3. d = given
    BY <1>1, <1>17
  <2> QED
    BY <2>1, <2>2, <2>3, <1>15 DEF d, e, job
<1>18. CASE ~outdated /\ ~failed
  <2>1. job.list = c.index
    BY <1>2, <1>7, <1>18
  <2>2. (publish.migrate => publish.ready) /\ OnDisk(publish)
    BY <2>1, <1>1, <1>6, <1>12, <1>13 DEF OnDisk
  <2>3. Published(c, publish, list)
    BY <2>1, <1>6, <1>12, <1>13 DEF Published
  <2>4. d = publish
    BY <1>1, <1>18
  <2> QED
    BY <2>2, <2>3, <2>4, <1>15 DEF d, e, job
<1> QED
  BY <1>1, <1>16, <1>17, <1>18

LEMMA CacheDoneFacts ==
  ASSUME NEW c \in Catalogues, NEW list, CatInv(c, list), c.jobs # <<>>,
         Head(c.jobs).kind = "cache", NEW published \in BOOLEAN
  PROVE  LET d == CacheDone([c EXCEPT !.jobs = Tail(@)], Head(c.jobs), published)
         IN  /\ d \in Catalogues /\ CatInv(d, list) /\ Published(c, d, list)
             /\ Quiet(c) => Quiet(d)
<1> DEFINE job == Head(c.jobs)
           e == [c EXCEPT !.jobs = Tail(@)]
           publish == [e EXCEPT !.persisted = job.list]
           keep == job.out = "failed" \/ job.gen # e.cacheGen \/ ~published
           d == CacheDone(e, job, published)
<1>1. d = (IF keep THEN e ELSE publish)
  BY DEF CacheDone
<1>2. e.jobs = Tail(c.jobs) /\ e.gen = c.gen /\ e.ready = c.ready /\ e.expired = c.expired
      /\ e.migrate = c.migrate /\ e.index = c.index /\ e.disk = c.disk
      /\ e.restoring = c.restoring /\ e.restoreGen = c.restoreGen
      /\ e.refreshing = c.refreshing /\ e.migrating = c.migrating
      /\ e.cacheGen = c.cacheGen /\ e.candidate = c.candidate /\ e.timers = c.timers
      /\ e.persisted = c.persisted
  BY DEF Catalogues
<1>3. /\ Tail(c.jobs) \in Seq(Jobs) /\ job \in Jobs /\ JobOK(c, job, list)
  BY ZenonT(60), <1>2, OneJobLess
<1>4. e \in Catalogues
  BY <1>3 DEF Catalogues
<1>5. job.list \in SUBSET Keys /\ job.kind = "cache" /\ (job.gen = c.cacheGen => job.list = list)
  BY <1>3 DEF Jobs, JobOK
<1> HIDE DEF e, job
<1>6. publish \in Catalogues
  BY <1>4, <1>5 DEF Catalogues
<1>7. ASSUME NEW f \in {e, publish}
      PROVE  /\ f.jobs = Tail(c.jobs) /\ f.gen = c.gen /\ f.ready = c.ready
             /\ f.expired = c.expired
             /\ f.migrate = c.migrate /\ f.index = c.index /\ f.disk = c.disk
             /\ f.restoring = c.restoring /\ f.restoreGen = c.restoreGen
             /\ f.refreshing = c.refreshing /\ f.migrating = c.migrating
             /\ f.cacheGen = c.cacheGen /\ f.candidate = c.candidate /\ f.timers = c.timers
  <2>1. CASE f = e
    BY <2>1, <1>2
  <2>2. CASE f = publish
    BY <2>2, <1>2, <1>4 DEF Catalogues
  <2> QED
    BY <2>1, <2>2
<1>8. publish.persisted = job.list
  BY <1>4 DEF Catalogues
<1> HIDE DEF publish, keep, d
<1>9. ASSUME NEW f \in {e, publish} PROVE CatInv(f, list) /\ (Quiet(c) => Quiet(f))
  <2>1. f.jobs = Tail(c.jobs) /\ f.gen = c.gen /\ f.cacheGen = c.cacheGen /\ f.timers = c.timers
    BY <1>7
  <2>2. /\ NoRivals(f) /\ (Quiet(c) => Quiet(f))
        /\ \A i \in 1..Len(f.jobs) : JobOK(c, f.jobs[i], list)
        /\ \A j \in 1..Len(c.jobs) : \/ c.jobs[j] = job
                                     \/ \E i \in 1..Len(f.jobs) : f.jobs[i] = c.jobs[j]
    BY <2>1, OneJobLess DEF job
  <2>3. \A i \in 1..Len(f.jobs) : JobOK(f, f.jobs[i], list)
    BY <2>2, <1>7 DEF JobOK
  <2>4. FlagsBacked(c)
    BY DEF CatInv
  <2>5. FlagsBacked(f)
    BY SMTT(30), <2>2, <2>4, <1>5, <1>7, KindsDiffer DEF FlagsBacked
  <2>6. TimersOK(f, list) /\ (f.migrate => f.ready) /\ OnDisk(f)
    BY <1>7 DEF CatInv, TimersOK, OnDisk
  <2>7. JobsOK(f, list)
    BY <2>3 DEF JobsOK
  <2> QED
    BY <2>2, <2>5, <2>6, <2>7 DEF CatInv
<1>10. Published(c, e, list)
  BY <1>2 DEF Published
<1>11. ~keep => Published(c, publish, list)
  BY <1>2, <1>5, <1>7, <1>8 DEF Published, keep
<1> QED
  BY <1>1, <1>4, <1>6, <1>9, <1>10, <1>11 DEF d, e, job

LEMMA JobDoneFacts ==
  ASSUME NEW c \in Catalogues, NEW list, CatInv(c, list), c.jobs # <<>>,
         Head(c.jobs).out # "queued", NEW published \in BOOLEAN
  PROVE  LET d == JobDone(c, published)
         IN  /\ d \in Catalogues /\ CatInv(d, list) /\ Published(c, d, list)
             /\ Quiet(c) => Quiet(d)
<1> DEFINE job == Head(c.jobs)
           e == [c EXCEPT !.jobs = Tail(@)]
           d == JobDone(c, published)
<1>1. job.kind \in {"restore", "refresh", "migrate", "cache"}
  <2>1. Head(c.jobs) = c.jobs[1] /\ 1 \in 1..Len(c.jobs)
    BY CatFields, TailOfJobs
  <2> QED
    BY <2>1, JobFields
<1>2. /\ job.kind = "restore" => d = RestoreDone(e, job)
      /\ job.kind = "refresh" => d = RefreshDone(e, job, published)
      /\ job.kind = "migrate" => d = MigrationDone(e, job, published)
      /\ job.kind = "cache" => d = CacheDone(e, job, published)
  BY DEF JobDone
<1> HIDE DEF d
<1>3. CASE job.kind = "restore"
  BY <1>2, <1>3, RestoreDoneFacts DEF d
<1>4. CASE job.kind = "refresh"
  BY <1>2, <1>4, RefreshDoneFacts DEF d
<1>5. CASE job.kind = "migrate"
  BY <1>2, <1>5, MigrationDoneFacts DEF d
<1>6. CASE job.kind = "cache"
  BY <1>2, <1>6, CacheDoneFacts DEF d
<1> QED
  BY <1>1, <1>3, <1>4, <1>5, <1>6

(***************************************************************************)
(* The invariant of the server list, in four parts: the rows and the       *)
(* sweeps, the update and what is shown, the refresh of the visible rows,  *)
(* and the catalogue.                                                      *)
(***************************************************************************)
Databases ==
  [inflight: BOOLEAN, fetch: {"none", "start", "user"}, answer: {Nil} \union Fetched,
   file: SUBSET Keys, watchdog: BOOLEAN, applied: BOOLEAN, provisional: BOOLEAN,
   batch: {Nil} \union SUBSET Keys, loads: Nat, updates: 0..MaxUpdates, rechecks: Nat]

Uis == [dimmed: BOOLEAN, nudged: BOOLEAN, started: BOOLEAN]

Lives == [inflight: BOOLEAN, job: {Nil} \union LiveJobs, deferred: {Nil} \union Deferrals,
          drag: BOOLEAN]

RowsPart ==
  /\ rows \in Rows /\ RowsInv(rows)
  /\ sweep \in Sweeps /\ SweepInv(sweep)
  /\ refresh \in Sweeps /\ SweepInv(refresh)
  /\ stale \in SUBSET Keys

UpdateInv ==
  /\ db.inflight <=> (db.fetch # "none" \/ db.answer # Nil \/ db.batch # Nil)
  /\ db.fetch # "none" => db.answer = Nil /\ db.batch = Nil
  /\ db.answer # Nil => db.batch = Nil
  /\ db.batch # {}
  /\ ~db.applied => (db.fetch = "start" \/ Answering("start")) /\ db.batch = Nil
  /\ db.applied => db.fetch # "start" /\ ~Answering("start")

ShownInv ==
  /\ ~db.applied => /\ ~sweep.current
                    /\ db.watchdog <=> ~ui.started
                    /\ db.provisional <=> ui.started
                    /\ ui.started /\ ui.dimmed => ui.nudged
  /\ db.batch # Nil => ~ui.started /\ ~sweep.current
  /\ db.applied /\ ~ui.started => db.batch # Nil \/ (sweep.current /\ ~sweep.revealed)
  /\ ui.dimmed => \/ ui.nudged \/ db.fetch # "none" \/ db.answer # Nil \/ db.batch # Nil
                  \/ sweep.current /\ ~sweep.revealed

UpdatePart ==
  on \in Scenarios /\ db \in Databases /\ ui \in Uis /\ UpdateInv /\ ShownInv

LivePart ==
  /\ live \in Lives /\ loose \subseteq LooseJobs
  /\ live.inflight <=> live.job # Nil
  /\ live.deferred # Nil => live.drag /\ live.job = Nil

CatPart ==
  /\ cat \in Catalogues /\ CatInv(cat, rows.list)
  /\ db.batch # Nil => Quiet(cat) /\ rows.list = {}

BrowserInv == RowsPart /\ UpdatePart /\ LivePart /\ CatPart

LEMMA InvIsTyped == BrowserInv => ListTypeOK
BY DEF BrowserInv, RowsPart, UpdatePart, LivePart, CatPart, ListTypeOK, Databases, Uis, Lives

LEMMA DbFields ==
  ASSUME NEW d \in Databases
  PROVE  /\ d.inflight \in BOOLEAN /\ d.fetch \in {"none", "start", "user"}
         /\ d.answer \in {Nil} \union Fetched /\ d.file \in SUBSET Keys
         /\ d.watchdog \in BOOLEAN /\ d.applied \in BOOLEAN /\ d.provisional \in BOOLEAN
         /\ d.batch \in {Nil} \union SUBSET Keys /\ d.loads \in Nat
         /\ d.updates \in 0..MaxUpdates /\ d.rechecks \in Nat
BY DEF Databases

LEMMA AnswerFields ==
  ASSUME NEW d \in Databases, d.answer # Nil
  PROVE  /\ d.answer.by \in {"start", "user"} /\ d.answer.how \in {"ok", "failed", "error"}
         /\ d.answer.list \in SUBSET Keys
<1>1. d.answer \in Fetched
  BY DbFields
<1> QED
  BY <1>1 DEF Fetched

LEMMA RowFields ==
  ASSUME NEW r \in Rows
  PROVE  /\ r.list \in SUBSET Keys /\ r.online \in SUBSET Keys /\ r.missed \in SUBSET Keys
BY DEF Rows

(***************************************************************************)
(* A list is loaded.                                                       *)
(***************************************************************************)
LEMMA SweptFacts ==
  ASSUME RowsPart, NEW list \in SUBSET Keys, list # {}, NEW how, Swept(list, how)
  PROVE  /\ sweep' \in Sweeps /\ SweepInv(sweep') /\ stale' \in SUBSET Keys
         /\ how = "ok" => sweep'.current /\ (sweep'.revealed <=> WarmUp(list) = {})
         /\ how # "ok" => ~sweep'.current
<1>1. sweep.asked \in SUBSET Keys /\ stale \in SUBSET Keys
  BY SweepFields DEF RowsPart
<1>2. WarmUp(list) \in SUBSET Keys
  BY DEF WarmUp
<1>3. CASE how = "ok"
  <2> DEFINE warm == WarmUp(list)
             s == Started(list, warm)
  <2>1. sweep' = s /\ stale' = stale \union sweep.asked
    BY <1>3 DEF Swept
  <2>2. s \in Sweeps /\ SweepInv(s) /\ s.current /\ (s.revealed <=> warm = {})
    <3> HIDE DEF warm
    <3>1. warm \in SUBSET Keys
      BY <1>2 DEF warm
    <3> QED
      BY <3>1, StartedFacts
  <2> HIDE DEF s
  <2> QED
    BY <2>1, <2>2, <1>1, <1>3
<1>4. CASE how # "ok"
  <2>1. sweep' = NoSweep /\ stale' = stale \union sweep.asked
    BY <1>4 DEF Swept
  <2> QED
    BY <2>1, <1>1, <1>4, NoSweepFacts
<1> QED
  BY <1>3, <1>4

LEMMA LoadedCatalogue ==
  ASSUME NEW c \in Catalogues, NEW before, CatInv(c, before), NEW list \in SUBSET Keys, NEW how,
         NEW saved \in BOOLEAN, NEW d,
         LET e == LoadedAtOnce(c, list, how = "ok", how = "provisional", saved)
         IN  IF list = {} THEN d = Shown(e, {}, TRUE) ELSE d = AfterPublication(e, list, how)
  PROVE  d \in Catalogues /\ CatInv(d, list) /\ Published(c, d, list)
<1> DEFINE ok == how = "ok"
           provisional == how = "provisional"
           e == LoadedAtOnce(c, list, ok, provisional, saved)
           yes == TRUE
<1>1. ok \in BOOLEAN /\ provisional \in BOOLEAN /\ yes \in BOOLEAN
  OBVIOUS
<1> HIDE DEF ok, provisional
<1>2. /\ e \in Catalogues /\ CatInv(e, list) /\ Quiet(e) /\ e.candidate = list
      /\ e.persisted = c.persisted
      /\ e.disk # c.disk => e.disk.list = list /\ e.index = list
  BY <1>1, LoadedAtOnceFacts
<1>3. IF list = {} THEN d = Shown(e, list, yes) ELSE d = AfterPublication(e, list, how)
  BY DEF ok, provisional
<1> HIDE DEF e, yes
<1>4. CASE list = {}
  <2> DEFINE showing == Shown(e, list, yes)
  <2>1. showing \in Catalogues /\ CatInv(showing, list) /\ SameFiles(e, showing) /\ showing.index = e.index
    BY <1>1, <1>2, ShownFacts
  <2>2. d = showing
    BY <1>3, <1>4
  <2> QED
    BY <2>1, <2>2, <1>2 DEF SameFiles, Published
<1>5. CASE list # {}
  <2>1. d \in Catalogues /\ CatInv(d, list) /\ SameFiles(e, d) /\ d.index = e.index
    BY <1>2, <1>3, <1>5, AfterPublicationFacts
  <2> QED
    BY <2>1, <1>2 DEF SameFiles, Published
<1> QED
  BY <1>4, <1>5

LEMMA LoadFacts ==
  ASSUME RowsPart, CatPart, NEW list \in SUBSET Keys, NEW how, Load(list, how)
  PROVE  /\ rows' \in Rows /\ RowsInv(rows') /\ rows'.list = list
         /\ sweep' \in Sweeps /\ SweepInv(sweep') /\ stale' \in SUBSET Keys
         /\ live' \in {live, LetGo(live)}
         /\ cat' \in Catalogues /\ CatInv(cat', list) /\ Published(cat, cat', list)
         /\ list = {} => sweep' = sweep
         /\ list # {} /\ how = "ok" => sweep'.current /\ (sweep'.revealed <=> WarmUp(list) = {})
         /\ list # {} /\ how # "ok" => ~sweep'.current
<1>1. PICK saved \in BOOLEAN :
        LET c == LoadedAtOnce(cat, list, how = "ok", how = "provisional", saved)
        IN /\ rows' = LoadedRows(list, list \ Unreachable)
           /\ live' \in {live, LetGo(live)}
           /\ IF list = {}
              THEN cat' = Shown(c, {}, TRUE) /\ UNCHANGED <<sweep, stale>>
              ELSE cat' = AfterPublication(c, list, how) /\ Swept(list, how)
  BY DEF Load
<1>2. LET e == LoadedAtOnce(cat, list, how = "ok", how = "provisional", saved)
      IN  IF list = {} THEN cat' = Shown(e, {}, TRUE) ELSE cat' = AfterPublication(e, list, how)
  BY <1>1
<1>3. cat \in Catalogues /\ CatInv(cat, rows.list)
  BY DEF CatPart
<1>4. cat' \in Catalogues /\ CatInv(cat', list) /\ Published(cat, cat', list)
  BY <1>2, <1>3, LoadedCatalogue
<1>5. rows' \in Rows /\ RowsInv(rows') /\ rows'.list = list
  BY <1>1, LoadedRowsTyped
<1>6. list = {} => sweep' = sweep /\ stale' = stale
  BY <1>1
<1>7. list # {} => Swept(list, how)
  BY <1>1
<1> QED
  BY <1>1, <1>4, <1>5, <1>6, <1>7, SweptFacts DEF RowsPart

(* What the actions do to the update. *)
LEMMA SettledDb ==
  ASSUME NEW b \in Databases
  PROVE  LET d == [b EXCEPT !.inflight = FALSE, !.answer = Nil]
         IN  /\ d \in Databases /\ ~d.inflight /\ d.fetch = b.fetch /\ d.answer = Nil
             /\ d.watchdog = b.watchdog /\ d.applied = b.applied /\ d.provisional = b.provisional
             /\ d.batch = b.batch /\ d.loads = b.loads
<1> DEFINE yes == TRUE
           no == FALSE
           d == [b EXCEPT !.inflight = no, !.answer = Nil]
<1>1. yes \in BOOLEAN /\ no \in BOOLEAN /\ yes /\ ~no
  OBVIOUS
<1> HIDE DEF yes, no
<1>2. /\ b.loads \in Nat /\ b.loads + 1 \in Nat /\ b.rechecks \in Nat
      /\ Nil \in {Nil} \union Fetched /\ Nil \in {Nil} \union SUBSET Keys
  BY DbFields
<1>3. d \in Databases
  BY <1>1, <1>2 DEF Databases
<1>4. /\ ~d.inflight /\ d.fetch = b.fetch /\ d.answer = Nil /\ d.watchdog = b.watchdog
      /\ d.applied = b.applied /\ d.provisional = b.provisional /\ d.batch = b.batch
      /\ d.loads = b.loads
  BY <1>1, <1>2 DEF Databases
<1> HIDE DEF d
<1> QED
  BY <1>3, <1>4 DEF d, yes, no

LEMMA AppliedDb ==
  ASSUME NEW b \in Databases
  PROVE  LET d == [b EXCEPT !.applied = TRUE]
         IN  /\ d \in Databases /\ d.inflight = b.inflight /\ d.fetch = b.fetch
             /\ d.answer = b.answer /\ d.watchdog = b.watchdog /\ d.applied
             /\ d.provisional = b.provisional /\ d.batch = b.batch /\ d.loads = b.loads
<1> DEFINE yes == TRUE
           no == FALSE
           d == [b EXCEPT !.applied = yes]
<1>1. yes \in BOOLEAN /\ no \in BOOLEAN /\ yes /\ ~no
  OBVIOUS
<1> HIDE DEF yes, no
<1>2. /\ b.loads \in Nat /\ b.loads + 1 \in Nat /\ b.rechecks \in Nat
      /\ Nil \in {Nil} \union Fetched /\ Nil \in {Nil} \union SUBSET Keys
  BY DbFields
<1>3. d \in Databases
  BY <1>1, <1>2 DEF Databases
<1>4. /\ d.inflight = b.inflight /\ d.fetch = b.fetch /\ d.answer = b.answer
      /\ d.watchdog = b.watchdog /\ d.applied /\ d.provisional = b.provisional
      /\ d.batch = b.batch /\ d.loads = b.loads
  BY <1>1, <1>2 DEF Databases
<1> HIDE DEF d
<1> QED
  BY <1>3, <1>4 DEF d, yes, no

LEMMA FirstLoadDb ==
  ASSUME NEW b \in Databases
  PROVE  LET d == [b EXCEPT !.applied = TRUE, !.loads = @ + 1]
         IN  /\ d \in Databases /\ d.inflight = b.inflight /\ d.fetch = b.fetch
             /\ d.answer = b.answer /\ d.watchdog = b.watchdog /\ d.applied
             /\ d.provisional = b.provisional /\ d.batch = b.batch /\ d.loads = b.loads + 1
<1> DEFINE yes == TRUE
           no == FALSE
           d == [b EXCEPT !.applied = yes, !.loads = @ + 1]
<1>1. yes \in BOOLEAN /\ no \in BOOLEAN /\ yes /\ ~no
  OBVIOUS
<1> HIDE DEF yes, no
<1>2. /\ b.loads \in Nat /\ b.loads + 1 \in Nat /\ b.rechecks \in Nat
      /\ Nil \in {Nil} \union Fetched /\ Nil \in {Nil} \union SUBSET Keys
  BY DbFields
<1>3. d \in Databases
  BY <1>1, <1>2 DEF Databases
<1>4. /\ d.inflight = b.inflight /\ d.fetch = b.fetch /\ d.answer = b.answer
      /\ d.watchdog = b.watchdog /\ d.applied /\ d.provisional = b.provisional
      /\ d.batch = b.batch /\ d.loads = b.loads + 1
  BY <1>1, <1>2 DEF Databases
<1> HIDE DEF d
<1> QED
  BY <1>3, <1>4 DEF d, yes, no

LEMMA LaterLoadDb ==
  ASSUME NEW b \in Databases, NEW more \in Nat
  PROVE  LET d == [b EXCEPT !.loads = @ + 1, !.rechecks = @ + more]
         IN  /\ d \in Databases /\ d.inflight = b.inflight /\ d.fetch = b.fetch
             /\ d.answer = b.answer /\ d.watchdog = b.watchdog /\ d.applied = b.applied
             /\ d.provisional = b.provisional /\ d.batch = b.batch /\ d.loads = b.loads + 1
<1> DEFINE yes == TRUE
           no == FALSE
           d == [b EXCEPT !.loads = @ + 1, !.rechecks = @ + more]
<1>1. yes \in BOOLEAN /\ no \in BOOLEAN /\ yes /\ ~no
  OBVIOUS
<1> HIDE DEF yes, no
<1>2. /\ b.loads \in Nat /\ b.loads + 1 \in Nat /\ b.rechecks + more \in Nat
      /\ Nil \in {Nil} \union Fetched /\ Nil \in {Nil} \union SUBSET Keys
  BY DbFields
<1>3. d \in Databases
  BY <1>1, <1>2 DEF Databases
<1>4. /\ d.inflight = b.inflight /\ d.fetch = b.fetch /\ d.answer = b.answer
      /\ d.watchdog = b.watchdog /\ d.applied = b.applied /\ d.provisional = b.provisional
      /\ d.batch = b.batch /\ d.loads = b.loads + 1
  BY <1>1, <1>2 DEF Databases
<1> HIDE DEF d
<1> QED
  BY <1>3, <1>4 DEF d, yes, no

LEMMA StartLoadDb ==
  ASSUME NEW b \in Databases, NEW more \in Nat
  PROVE  LET d == [b EXCEPT !.applied = TRUE, !.loads = @ + 1, !.rechecks = @ + more]
         IN  /\ d \in Databases /\ d.inflight = b.inflight /\ d.fetch = b.fetch
             /\ d.answer = b.answer /\ d.watchdog = b.watchdog /\ d.applied
             /\ d.provisional = b.provisional /\ d.batch = b.batch /\ d.loads = b.loads + 1
<1> DEFINE yes == TRUE
           no == FALSE
           d == [b EXCEPT !.applied = yes, !.loads = @ + 1, !.rechecks = @ + more]
<1>1. yes \in BOOLEAN /\ no \in BOOLEAN /\ yes /\ ~no
  OBVIOUS
<1> HIDE DEF yes, no
<1>2. /\ b.loads \in Nat /\ b.loads + 1 \in Nat /\ b.rechecks + more \in Nat
      /\ Nil \in {Nil} \union Fetched /\ Nil \in {Nil} \union SUBSET Keys
  BY DbFields
<1>3. d \in Databases
  BY <1>1, <1>2 DEF Databases
<1>4. /\ d.inflight = b.inflight /\ d.fetch = b.fetch /\ d.answer = b.answer
      /\ d.watchdog = b.watchdog /\ d.applied /\ d.provisional = b.provisional
      /\ d.batch = b.batch /\ d.loads = b.loads + 1
  BY <1>1, <1>2 DEF Databases
<1> HIDE DEF d
<1> QED
  BY <1>3, <1>4 DEF d, yes, no

LEMMA BatchingDb ==
  ASSUME NEW b \in Databases, NEW list \in SUBSET Keys
  PROVE  LET d == [b EXCEPT !.answer = Nil, !.applied = TRUE, !.batch = list]
         IN  /\ d \in Databases /\ d.inflight = b.inflight /\ d.fetch = b.fetch /\ d.answer = Nil
             /\ d.watchdog = b.watchdog /\ d.applied /\ d.provisional = b.provisional
             /\ d.batch = list /\ d.loads = b.loads
<1> DEFINE yes == TRUE
           no == FALSE
           d == [b EXCEPT !.answer = Nil, !.applied = yes, !.batch = list]
<1>1. yes \in BOOLEAN /\ no \in BOOLEAN /\ yes /\ ~no
  OBVIOUS
<1> HIDE DEF yes, no
<1>2. /\ b.loads \in Nat /\ b.loads + 1 \in Nat /\ b.rechecks \in Nat
      /\ Nil \in {Nil} \union Fetched /\ Nil \in {Nil} \union SUBSET Keys
  BY DbFields
<1>3. d \in Databases
  BY <1>1, <1>2 DEF Databases
<1>4. /\ d.inflight = b.inflight /\ d.fetch = b.fetch /\ d.answer = Nil
      /\ d.watchdog = b.watchdog /\ d.applied /\ d.provisional = b.provisional
      /\ d.batch = list /\ d.loads = b.loads
  BY <1>1, <1>2 DEF Databases
<1> HIDE DEF d
<1> QED
  BY <1>3, <1>4 DEF d, yes, no

LEMMA BatchOverDb ==
  ASSUME NEW b \in Databases
  PROVE  LET d == [b EXCEPT !.inflight = FALSE, !.batch = Nil]
         IN  /\ d \in Databases /\ ~d.inflight /\ d.fetch = b.fetch /\ d.answer = b.answer
             /\ d.watchdog = b.watchdog /\ d.applied = b.applied /\ d.provisional = b.provisional
             /\ d.batch = Nil /\ d.loads = b.loads
<1> DEFINE yes == TRUE
           no == FALSE
           d == [b EXCEPT !.inflight = no, !.batch = Nil]
<1>1. yes \in BOOLEAN /\ no \in BOOLEAN /\ yes /\ ~no
  OBVIOUS
<1> HIDE DEF yes, no
<1>2. /\ b.loads \in Nat /\ b.loads + 1 \in Nat /\ b.rechecks \in Nat
      /\ Nil \in {Nil} \union Fetched /\ Nil \in {Nil} \union SUBSET Keys
  BY DbFields
<1>3. d \in Databases
  BY <1>1, <1>2 DEF Databases
<1>4. /\ ~d.inflight /\ d.fetch = b.fetch /\ d.answer = b.answer
      /\ d.watchdog = b.watchdog /\ d.applied = b.applied /\ d.provisional = b.provisional
      /\ d.batch = Nil /\ d.loads = b.loads
  BY <1>1, <1>2 DEF Databases
<1> HIDE DEF d
<1> QED
  BY <1>3, <1>4 DEF d, yes, no

LEMMA WatchedDb ==
  ASSUME NEW b \in Databases
  PROVE  LET d == [b EXCEPT !.watchdog = FALSE]
         IN  /\ d \in Databases /\ d.inflight = b.inflight /\ d.fetch = b.fetch
             /\ d.answer = b.answer /\ ~d.watchdog /\ d.applied = b.applied
             /\ d.provisional = b.provisional /\ d.batch = b.batch /\ d.loads = b.loads
<1> DEFINE yes == TRUE
           no == FALSE
           d == [b EXCEPT !.watchdog = no]
<1>1. yes \in BOOLEAN /\ no \in BOOLEAN /\ yes /\ ~no
  OBVIOUS
<1> HIDE DEF yes, no
<1>2. /\ b.loads \in Nat /\ b.loads + 1 \in Nat /\ b.rechecks \in Nat
      /\ Nil \in {Nil} \union Fetched /\ Nil \in {Nil} \union SUBSET Keys
  BY DbFields
<1>3. d \in Databases
  BY <1>1, <1>2 DEF Databases
<1>4. /\ d.inflight = b.inflight /\ d.fetch = b.fetch /\ d.answer = b.answer
      /\ ~d.watchdog /\ d.applied = b.applied /\ d.provisional = b.provisional
      /\ d.batch = b.batch /\ d.loads = b.loads
  BY <1>1, <1>2 DEF Databases
<1> HIDE DEF d
<1> QED
  BY <1>3, <1>4 DEF d, yes, no

LEMMA WatchdogDb ==
  ASSUME NEW b \in Databases
  PROVE  LET d == [b EXCEPT !.watchdog = FALSE, !.provisional = TRUE, !.loads = @ + 1]
         IN  /\ d \in Databases /\ d.inflight = b.inflight /\ d.fetch = b.fetch
             /\ d.answer = b.answer /\ ~d.watchdog /\ d.applied = b.applied /\ d.provisional
             /\ d.batch = b.batch /\ d.loads = b.loads + 1
<1> DEFINE yes == TRUE
           no == FALSE
           d == [b EXCEPT !.watchdog = no, !.provisional = yes, !.loads = @ + 1]
<1>1. yes \in BOOLEAN /\ no \in BOOLEAN /\ yes /\ ~no
  OBVIOUS
<1> HIDE DEF yes, no
<1>2. /\ b.loads \in Nat /\ b.loads + 1 \in Nat /\ b.rechecks \in Nat
      /\ Nil \in {Nil} \union Fetched /\ Nil \in {Nil} \union SUBSET Keys
  BY DbFields
<1>3. d \in Databases
  BY <1>1, <1>2 DEF Databases
<1>4. /\ d.inflight = b.inflight /\ d.fetch = b.fetch /\ d.answer = b.answer
      /\ ~d.watchdog /\ d.applied = b.applied /\ d.provisional /\ d.batch = b.batch
      /\ d.loads = b.loads + 1
  BY <1>1, <1>2 DEF Databases
<1> HIDE DEF d
<1> QED
  BY <1>3, <1>4 DEF d, yes, no

LEMMA AskedDb ==
  ASSUME NEW b \in Databases, b.updates < MaxUpdates
  PROVE  LET d == [b EXCEPT !.inflight = TRUE, !.fetch = "user", !.updates = @ + 1]
         IN  /\ d \in Databases /\ d.inflight /\ d.fetch = "user" /\ d.answer = b.answer
             /\ d.watchdog = b.watchdog /\ d.applied = b.applied /\ d.provisional = b.provisional
             /\ d.batch = b.batch /\ d.loads = b.loads
<1> DEFINE yes == TRUE
           no == FALSE
           d == [b EXCEPT !.inflight = yes, !.fetch = "user", !.updates = @ + 1]
<1>1. yes \in BOOLEAN /\ no \in BOOLEAN /\ yes /\ ~no
  OBVIOUS
<1> HIDE DEF yes, no
<1>0. b.updates + 1 \in 0..MaxUpdates
  BY DbFields, BrowserAssumption
<1>2. /\ b.loads \in Nat /\ b.loads + 1 \in Nat /\ b.rechecks \in Nat
      /\ Nil \in {Nil} \union Fetched /\ Nil \in {Nil} \union SUBSET Keys
  BY DbFields
<1>3. d \in Databases
  BY <1>1, <1>2, <1>0 DEF Databases
<1>4. /\ d.inflight /\ d.fetch = "user" /\ d.answer = b.answer /\ d.watchdog = b.watchdog
      /\ d.applied = b.applied /\ d.provisional = b.provisional /\ d.batch = b.batch
      /\ d.loads = b.loads
  BY <1>1, <1>2 DEF Databases
<1> HIDE DEF d
<1> QED
  BY <1>3, <1>4 DEF d, yes, no

(***************************************************************************)
(* Answers and the rows.                                                   *)
(***************************************************************************)
(* A row goes offline by an answer that follows an unanswered query. *)
NoneLostAtOnce ==
  \A k \in rows.list : k \in rows.online /\ k \notin rows'.online => k \in rows.missed

LEMMA RepliedFacts ==
  ASSUME NEW keys \in SUBSET Keys, NEW replies, \A k \in keys : replies[k] \in Answers
  PROVE  Replied(keys, replies) \in Seq(Reply) /\ Once(Replied(keys, replies))
<1> DEFINE c == Cardinality(keys)
           asked == Ordered(keys)
           answers == [i \in 1..c |-> <<asked[i], replies[asked[i]]>>]
<1>1. c \in Nat
  BY KeysAreFinite
<1>2. /\ asked \in [1..c -> keys]
      /\ \A i, j \in 1..c : asked[i] = asked[j] => i = j
  BY OrderedFacts
<1>3. Replied(keys, replies) = answers
  <2>1. DOMAIN asked = 1..c
    BY <1>2
  <2> HIDE DEF asked, c
  <2> QED
    BY <2>1 DEF Replied, asked
<1> HIDE DEF c, asked
<1>4. \A i \in 1..c : <<asked[i], replies[asked[i]]>> \in Reply
  BY <1>2 DEF Reply
<1>5. answers \in Seq(Reply) /\ Len(answers) = c
  <2>1. answers \in [1..c -> Reply]
    BY <1>4
  <2> HIDE DEF answers
  <2> QED
    BY <2>1, <1>1
<1>6. \A i \in 1..c : answers[i][1] = asked[i]
  OBVIOUS
<1> HIDE DEF answers
<1>7. Once(answers)
  BY <1>2, <1>5, <1>6 DEF Once
<1> QED
  BY <1>3, <1>5, <1>7

LEMMA RowsHeard ==
  ASSUME RowsPart, NEW answers \in Seq(Reply), Once(answers), rows' = HeardAll(rows, answers)
  PROVE  rows' \in Rows /\ RowsInv(rows') /\ rows'.list = rows.list /\ NoneLostAtOnce
<1> DEFINE after == HeardAll(rows, answers)
<1>1. rows \in Rows /\ RowsInv(rows)
  BY DEF RowsPart
<1>2. /\ after \in Rows /\ after.list = rows.list /\ RowsInv(after)
      /\ \A k \in rows.list : k \in rows.online /\ k \notin after.online => k \in rows.missed
  BY <1>1, HeardAllFacts
<1>3. rows' = after
  OBVIOUS
<1> HIDE DEF after
<1> QED
  BY <1>2, <1>3 DEF NoneLostAtOnce

LEMMA RowsHeeded ==
  ASSUME RowsPart, NEW job, job.targets \in SUBSET Keys, NEW replies \in Replies(job.targets),
         rows' = Heeded(job, replies)
  PROVE  rows' \in Rows /\ RowsInv(rows') /\ rows'.list = rows.list /\ NoneLostAtOnce
<1> DEFINE keys == {k \in job.targets : replies[k] # "none"}
           answers == Replied(keys, replies)
<1>1. keys \in SUBSET Keys
  OBVIOUS
<1>2. \A k \in keys : replies[k] \in Answers
  BY DEF Replies, Answers
<1>3. rows' = HeardAll(rows, answers)
  BY DEF Heeded
<1> HIDE DEF keys
<1>4. answers \in Seq(Reply) /\ Once(answers)
  BY <1>1, <1>2, RepliedFacts
<1> HIDE DEF answers
<1> QED
  BY <1>3, <1>4, RowsHeard

LEMMA BufferIsOnce ==
  ASSUME NEW s \in Sweeps, SweepInv(s)
  PROVE  s.buffer \in Seq(Reply) /\ Once(s.buffer)
BY SweepFields DEF SweepInv, Apart

LEMMA ReplyingAnswers == Replying \subseteq Answers
BY DEF Replying, Answers

(* What a step leaves of the rows and the sweeps. *)
RowsKept ==
  /\ rows' \in Rows /\ RowsInv(rows')
  /\ sweep' \in Sweeps /\ SweepInv(sweep')
  /\ refresh' \in Sweeps /\ SweepInv(refresh')
  /\ stale' \in SUBSET Keys

(* It goes on with the same list. *)
SameList == rows'.list = rows.list /\ NoneLostAtOnce

LEMMA RowsUntouched ==
  ASSUME RowsPart, UNCHANGED <<rows, sweep, stale, refresh>>
  PROVE  RowsKept /\ SameList
BY DEF RowsPart, RowsKept, SameList, NoneLostAtOnce

LEMMA SweepAnswersRows ==
  ASSUME RowsPart, SweepAnswers
  PROVE  /\ RowsKept /\ SameList
         /\ sweep.current /\ sweep'.current /\ (~sweep'.revealed => ~sweep.revealed)
<1>1. PICK k \in sweep.asked, a \in Replying :
        /\ sweep' = Answered(sweep, <<k, a>>, rows.list)
        /\ rows' = HeardAll(rows, AppliedBy(sweep, sweep', <<k, a>>))
  BY DEF SweepAnswers
<1> DEFINE t == Answered(sweep, <<k, a>>, rows.list)
           answers == AppliedBy(sweep, sweep', <<k, a>>)
<1>2. sweep \in Sweeps /\ SweepInv(sweep) /\ a \in Answers /\ rows.list \in SUBSET Keys
  BY ReplyingAnswers, RowFields DEF RowsPart
<1>3. /\ t \in Sweeps /\ SweepInv(t) /\ sweep.current /\ t.current
      /\ ~t.revealed => ~sweep.revealed
  BY <1>2, AnsweredFacts
<1>4. sweep' = t
  BY <1>1
<1>5. answers \in Seq(Reply) /\ Once(answers)
  BY <1>2, AppliedFacts
<1>6. rows' = HeardAll(rows, answers)
  BY <1>1
<1> HIDE DEF t, answers
<1>7. rows' \in Rows /\ RowsInv(rows') /\ SameList
  BY <1>5, <1>6, RowsHeard DEF SameList
<1>8. refresh' = refresh /\ stale' = stale
  BY DEF SweepAnswers
<1> QED
  BY <1>3, <1>4, <1>7, <1>8 DEF RowsPart, RowsKept

LEMMA RefreshAnswersRows ==
  ASSUME RowsPart, RefreshAnswers
  PROVE  RowsKept /\ SameList
<1>1. PICK k \in refresh.asked, a \in Replying :
        /\ refresh' = Answered(refresh, <<k, a>>, rows.list)
        /\ rows' = HeardAll(rows, AppliedBy(refresh, refresh', <<k, a>>))
  BY DEF RefreshAnswers
<1> DEFINE t == Answered(refresh, <<k, a>>, rows.list)
           answers == AppliedBy(refresh, refresh', <<k, a>>)
<1>2. refresh \in Sweeps /\ SweepInv(refresh) /\ a \in Answers /\ rows.list \in SUBSET Keys
  BY ReplyingAnswers, RowFields DEF RowsPart
<1>3. t \in Sweeps /\ SweepInv(t)
  BY <1>2, AnsweredFacts
<1>4. refresh' = t
  BY <1>1
<1>5. answers \in Seq(Reply) /\ Once(answers)
  BY <1>2, AppliedFacts
<1>6. rows' = HeardAll(rows, answers)
  BY <1>1
<1> HIDE DEF t, answers
<1>7. rows' \in Rows /\ RowsInv(rows') /\ SameList
  BY <1>5, <1>6, RowsHeard DEF SameList
<1>8. sweep' = sweep /\ stale' = stale
  BY DEF RefreshAnswers
<1> QED
  BY <1>3, <1>4, <1>7, <1>8 DEF RowsPart, RowsKept

(* The buffered answers are applied before the sweep is over. *)
LEMMA EmptiedSweep ==
  ASSUME NEW s \in Sweeps, SweepInv(s), s.buffer # <<>>
  PROVE  LET t == [s EXCEPT !.buffer = <<>>]
         IN  t \in Sweeps /\ SweepInv(t) /\ t.current = s.current /\ t.revealed = s.revealed
<1> DEFINE t == [s EXCEPT !.buffer = <<>>]
<1>1. Apart(s) /\ Balanced(s)
  BY DEF SweepInv
<1>2. /\ t \in Sweeps /\ Apart(t) /\ Balanced(t)
      /\ t.current = s.current /\ t.revealed = s.revealed /\ t.buffer = <<>>
      /\ t.asked = s.asked /\ t.inflight = s.inflight
      /\ t.done = s.done /\ t.timer = s.timer
  BY <1>1, FlushedFacts
<1> HIDE DEF t
<1>3. s.current
  BY NoSweepFacts DEF SweepInv
<1>4. Ended(t)
  BY <1>2 DEF SweepInv, Ended
<1>5. SweepInv(t)
  BY <1>2, <1>3, <1>4 DEF SweepInv
<1> QED
  BY <1>2, <1>5 DEF t

LEMMA SweepFlushesRows ==
  ASSUME RowsPart, SweepFlushes
  PROVE  RowsKept /\ SameList /\ sweep'.current = sweep.current /\ sweep'.revealed = sweep.revealed
<1> DEFINE t == [sweep EXCEPT !.buffer = <<>>]
           answers == sweep.buffer
<1>1. sweep \in Sweeps /\ SweepInv(sweep) /\ sweep.buffer # <<>>
  BY DEF RowsPart, SweepFlushes
<1>2. t \in Sweeps /\ SweepInv(t) /\ t.current = sweep.current /\ t.revealed = sweep.revealed
  BY <1>1, EmptiedSweep
<1>3. answers \in Seq(Reply) /\ Once(answers)
  BY <1>1, BufferIsOnce
<1>4. sweep' = t /\ rows' = HeardAll(rows, answers) /\ refresh' = refresh /\ stale' = stale
  BY DEF SweepFlushes
<1> HIDE DEF t, answers
<1>5. rows' \in Rows /\ RowsInv(rows') /\ SameList
  BY <1>3, <1>4, RowsHeard DEF SameList
<1> QED
  BY <1>2, <1>4, <1>5 DEF RowsPart, RowsKept

LEMMA RefreshFlushesRows ==
  ASSUME RowsPart, RefreshFlushes
  PROVE  RowsKept /\ SameList
<1> DEFINE t == [refresh EXCEPT !.buffer = <<>>]
           answers == refresh.buffer
<1>1. refresh \in Sweeps /\ SweepInv(refresh) /\ refresh.buffer # <<>>
  BY DEF RowsPart, RefreshFlushes
<1>2. t \in Sweeps /\ SweepInv(t)
  BY <1>1, EmptiedSweep
<1>3. answers \in Seq(Reply) /\ Once(answers)
  BY <1>1, BufferIsOnce
<1>4. refresh' = t /\ rows' = HeardAll(rows, answers) /\ sweep' = sweep /\ stale' = stale
  BY DEF RefreshFlushes
<1> HIDE DEF t, answers
<1>5. rows' \in Rows /\ RowsInv(rows') /\ SameList
  BY <1>3, <1>4, RowsHeard DEF SameList
<1> QED
  BY <1>2, <1>4, <1>5 DEF RowsPart, RowsKept

LEMMA WarmUpTimeoutRows ==
  ASSUME RowsPart, WarmUpTimeout
  PROVE  RowsKept /\ SameList /\ sweep'.current /\ sweep'.revealed
<1> DEFINE t == Revealed(sweep)
           answers == sweep.buffer
<1>1. sweep \in Sweeps /\ SweepInv(sweep) /\ sweep.current
  BY DEF RowsPart, WarmUpTimeout
<1>2. Apart(sweep) /\ Balanced(sweep)
  BY <1>1 DEF SweepInv
<1>3. /\ t \in Sweeps /\ Apart(t) /\ Balanced(t)
      /\ t.current = sweep.current /\ t.revealed /\ t.buffer = <<>>
      /\ t.asked = sweep.asked /\ t.inflight = sweep.inflight /\ t.done = sweep.done
  BY <1>1, <1>2, RevealedFacts
<1>4. answers \in Seq(Reply) /\ Once(answers)
  BY <1>1, BufferIsOnce
<1>5. sweep' = t /\ rows' = HeardAll(rows, answers) /\ refresh' = refresh /\ stale' = stale
  BY DEF WarmUpTimeout
<1> HIDE DEF t, answers
<1>6. SweepInv(t)
  BY <1>1, <1>3 DEF SweepInv, Ended
<1>7. rows' \in Rows /\ RowsInv(rows') /\ SameList
  BY <1>4, <1>5, RowsHeard DEF SameList
<1> QED
  BY <1>1, <1>3, <1>5, <1>6, <1>7 DEF RowsPart, RowsKept

LEMMA RefreshBeginsRows ==
  ASSUME RowsPart, RefreshBegins
  PROVE  RowsKept /\ SameList
<1> DEFINE s == Started(rows.list, {})
           none == {}
<1>1. rows.list \in SUBSET Keys /\ rows.list # {} /\ none \in SUBSET Keys
  BY RowFields DEF RowsPart, RefreshBegins
<1>2. s \in Sweeps /\ SweepInv(s)
  BY <1>1, StartedFacts
<1>3. refresh' = s /\ UNCHANGED <<rows, sweep, stale>>
  BY DEF RefreshBegins
<1> HIDE DEF s
<1> QED
  BY <1>2, <1>3 DEF RowsPart, RowsKept, SameList, NoneLostAtOnce

LEMMA StaleSweepAnswerRows ==
  ASSUME RowsPart, StaleSweepAnswer
  PROVE  RowsKept /\ SameList
BY DEF RowsPart, StaleSweepAnswer, RowsKept, SameList, NoneLostAtOnce

LEMMA LiveFields ==
  ASSUME LivePart
  PROVE  /\ live.inflight \in BOOLEAN /\ live.drag \in BOOLEAN
         /\ live.job # Nil => /\ live.job \in LiveJobs /\ live.job.targets \in SUBSET Keys
                              /\ live.job.current \in BOOLEAN
         /\ live.deferred # Nil =>
              /\ live.deferred \in Deferrals /\ live.deferred.targets \in SUBSET Keys
              /\ live.deferred.current \in BOOLEAN
              /\ live.deferred.replies \in Replies(live.deferred.targets)
<1>1. /\ live.inflight \in BOOLEAN /\ live.drag \in BOOLEAN
      /\ live.job \in {Nil} \union LiveJobs /\ live.deferred \in {Nil} \union Deferrals
  BY DEF LivePart, Lives
<1>2. \A job \in LiveJobs : job.targets \in SUBSET Keys /\ job.current \in BOOLEAN
  BY DEF LiveJobs
<1>3. \A job \in Deferrals : /\ job.targets \in SUBSET Keys /\ job.current \in BOOLEAN
                             /\ job.replies \in Replies(job.targets)
  BY DEF Deferrals
<1> QED
  BY <1>1, <1>2, <1>3

LEMMA TickAnswersRows ==
  ASSUME RowsPart, LivePart, TickAnswers
  PROVE  RowsKept /\ SameList
<1>1. PICK replies \in Replies(live.job.targets), scrolling \in BOOLEAN :
        rows' = IF ~live.drag /\ ~scrolling /\ live.job.current THEN Heeded(live.job, replies) ELSE rows
  BY DEF TickAnswers
<1>2. live.job.targets \in SUBSET Keys
  BY LiveFields DEF TickAnswers
<1>3. UNCHANGED <<sweep, stale, refresh>>
  BY DEF TickAnswers
<1>4. rows' = Heeded(live.job, replies) => rows' \in Rows /\ RowsInv(rows') /\ SameList
  BY <1>2, RowsHeeded DEF SameList
<1>5. rows' = rows => rows' \in Rows /\ RowsInv(rows') /\ SameList
  BY DEF RowsPart, SameList, NoneLostAtOnce
<1> QED
  BY <1>1, <1>3, <1>4, <1>5 DEF RowsPart, RowsKept

LEMMA DragEndsRows ==
  ASSUME RowsPart, LivePart, DragEnds
  PROVE  RowsKept /\ SameList
<1>1. rows' = IF live.deferred # Nil /\ live.deferred.current
              THEN Heeded(live.deferred, live.deferred.replies) ELSE rows
  BY DEF DragEnds
<1>2. live.deferred # Nil => /\ live.deferred.targets \in SUBSET Keys
                             /\ live.deferred.replies \in Replies(live.deferred.targets)
  BY LiveFields
<1>3. UNCHANGED <<sweep, stale, refresh>>
  BY DEF DragEnds
<1>4. live.deferred # Nil /\ rows' = Heeded(live.deferred, live.deferred.replies)
      => rows' \in Rows /\ RowsInv(rows') /\ SameList
  BY <1>2, RowsHeeded DEF SameList
<1>5. rows' = rows => rows' \in Rows /\ RowsInv(rows') /\ SameList
  BY DEF RowsPart, SameList, NoneLostAtOnce
<1> QED
  BY <1>1, <1>3, <1>4, <1>5 DEF RowsPart, RowsKept

LEMMA LooseAnswersRows ==
  ASSUME RowsPart, LivePart, LooseAnswers
  PROVE  RowsKept /\ SameList
<1>1. PICK job \in loose : \E replies \in [job.keys -> Replying] :
        rows' = HeardAll(rows, Replied(job.keys, replies))
  BY DEF LooseAnswers
<1>9. PICK replies \in [job.keys -> Replying] :
        rows' = HeardAll(rows, Replied(job.keys, replies))
  BY <1>1
<1>2. job \in LooseJobs
  BY <1>1 DEF LivePart
<1> DEFINE keys == job.keys
           answers == Replied(keys, replies)
<1>3. keys \in SUBSET Keys /\ replies \in [keys -> Replying]
  BY <1>2 DEF LooseJobs
<1> HIDE DEF keys
<1>4. \A k \in keys : replies[k] \in Answers
  BY <1>3, ReplyingAnswers
<1>5. answers \in Seq(Reply) /\ Once(answers)
  BY <1>3, <1>4, RepliedFacts
<1>6. rows' = HeardAll(rows, answers)
  BY <1>9 DEF keys
<1> HIDE DEF answers
<1>7. rows' \in Rows /\ RowsInv(rows') /\ SameList
  BY <1>5, <1>6, RowsHeard DEF SameList
<1>8. UNCHANGED <<sweep, stale, refresh>>
  BY DEF LooseAnswers
<1> QED
  BY <1>7, <1>8 DEF RowsPart, RowsKept

(***************************************************************************)
(* The steps and the refresh of the visible rows.                          *)
(***************************************************************************)
LEMMA ReleasedFacts ==
  /\ Released(Nil) = Nil
  /\ \A job \in LiveJobs : Released(job) \in LiveJobs /\ job # Nil /\ Released(job) # Nil
  /\ \A job \in Deferrals : Released(job) \in Deferrals /\ job # Nil /\ Released(job) # Nil
<1>1. Nil \notin LiveJobs /\ Nil \notin Deferrals
  BY BrowserAssumption
<1>2. ASSUME NEW job \in LiveJobs PROVE [job EXCEPT !.current = FALSE] \in LiveJobs
  BY DEF LiveJobs
<1>3. ASSUME NEW job \in Deferrals PROVE [job EXCEPT !.current = FALSE] \in Deferrals
  <2>1. PICK t \in SUBSET Keys : job \in [targets: {t}, current: BOOLEAN, replies: Replies(t)]
    BY DEF Deferrals
  <2>2. [job EXCEPT !.current = FALSE] \in [targets: {t}, current: BOOLEAN, replies: Replies(t)]
    BY <2>1
  <2> QED
    BY <2>2 DEF Deferrals
<1> QED
  BY <1>1, <1>2, <1>3 DEF Released

LEMMA LetGoFacts ==
  ASSUME LivePart
  PROVE  /\ LetGo(live) \in Lives /\ LetGo(live).inflight = live.inflight
         /\ LetGo(live).drag = live.drag
         /\ LetGo(live).job = Nil <=> live.job = Nil
         /\ LetGo(live).deferred = Nil <=> live.deferred = Nil
<1>1. live \in Lives
  BY DEF LivePart
<1>2. live.job \in {Nil} \union LiveJobs /\ live.deferred \in {Nil} \union Deferrals
  BY <1>1 DEF Lives
<1> DEFINE job == Released(live.job)
           deferred == Released(live.deferred)
<1>3. /\ job \in {Nil} \union LiveJobs /\ (job = Nil <=> live.job = Nil)
      /\ deferred \in {Nil} \union Deferrals /\ (deferred = Nil <=> live.deferred = Nil)
  BY <1>2, ReleasedFacts
<1>4. LetGo(live) = [live EXCEPT !.job = job, !.deferred = deferred]
  BY DEF LetGo
<1> HIDE DEF job, deferred
<1>5. /\ LetGo(live) \in Lives /\ LetGo(live).inflight = live.inflight
      /\ LetGo(live).drag = live.drag /\ LetGo(live).job = job /\ LetGo(live).deferred = deferred
  BY <1>1, <1>3, <1>4 DEF Lives
<1> QED
  BY <1>3, <1>5

LEMMA LiveKept ==
  ASSUME LivePart, live' \in {live, LetGo(live)}, loose' \in SUBSET LooseJobs
  PROVE  LivePart'
<1>1. CASE live' = live
  BY <1>1 DEF LivePart
<1>2. CASE live' = LetGo(live)
  BY <1>2, LetGoFacts DEF LivePart
<1> QED
  BY <1>1, <1>2

LEMMA TickLive ==
  ASSUME RowsPart, LivePart, NEW resting \in BOOLEAN, Tick(resting)
  PROVE  LivePart'
<1>1. CASE UNCHANGED live
  BY <1>1 DEF LivePart, Tick
<1>2. CASE ~(UNCHANGED live)
  <2>1. PICK targets \in SUBSET rows.list :
          live' = [live EXCEPT !.inflight = TRUE, !.job = [targets |-> targets, current |-> TRUE]]
    BY <1>2 DEF Tick
  <2> DEFINE job == [targets |-> targets, current |-> TRUE]
  <2>2. targets \in SUBSET Keys
    BY RowFields DEF RowsPart
  <2>3. job \in LiveJobs /\ job # Nil
    <3>1. job \in LiveJobs
      BY <2>2 DEF LiveJobs
    <3> QED
      BY <3>1, ReleasedFacts
  <2>4. live.deferred = Nil
    BY <1>2 DEF Tick, LivePart
  <2> HIDE DEF job
  <2>5. live' = [live EXCEPT !.inflight = TRUE, !.job = job]
    BY <2>1 DEF job
  <2>6. live' \in Lives /\ live'.inflight /\ live'.job = job /\ live'.deferred = Nil
    BY <2>3, <2>4, <2>5 DEF LivePart, Lives
  <2>7. loose' = loose
    BY DEF Tick
  <2> QED
    BY <2>3, <2>6, <2>7 DEF LivePart
<1> QED
  BY <1>1, <1>2

LEMMA TickAnswersLive ==
  ASSUME LivePart, TickAnswers
  PROVE  LivePart'
<1>1. PICK replies \in Replies(live.job.targets) :
        live' = [live EXCEPT !.inflight = FALSE, !.job = Nil,
                             !.deferred = IF live.drag
                                          THEN [targets |-> live.job.targets,
                                                current |-> live.job.current,
                                                replies |-> replies]
                                          ELSE @]
  BY DEF TickAnswers
<1> DEFINE targets == live.job.targets
           current == live.job.current
           put == [targets |-> targets, current |-> current, replies |-> replies]
           deferred == IF live.drag THEN put ELSE live.deferred
<1>2. targets \in SUBSET Keys /\ current \in BOOLEAN
  BY LiveFields DEF TickAnswers
<1>3. replies \in Replies(targets)
  BY <1>1
<1> HIDE DEF targets, current
<1>4. put \in Deferrals
  BY <1>2, <1>3 DEF Deferrals
<1> HIDE DEF put
<1>5. live \in Lives /\ (live.deferred # Nil => live.drag)
  BY DEF LivePart
<1>6. deferred \in {Nil} \union Deferrals /\ (deferred # Nil => live.drag)
  BY <1>4, <1>5 DEF Lives
<1>7. live' = [live EXCEPT !.inflight = FALSE, !.job = Nil, !.deferred = deferred]
  BY <1>1 DEF deferred, put, targets, current
<1> HIDE DEF deferred
<1>8. /\ live' \in Lives /\ ~live'.inflight /\ live'.job = Nil /\ live'.deferred = deferred
      /\ live'.drag = live.drag
  BY <1>5, <1>6, <1>7 DEF Lives
<1>9. loose' = loose
  BY DEF TickAnswers
<1> QED
  BY <1>6, <1>8, <1>9 DEF LivePart

LEMMA DragLive ==
  ASSUME LivePart, DragBegins \/ DragEnds
  PROVE  LivePart'
<1>1. CASE DragBegins
  BY <1>1 DEF DragBegins, LivePart, Lives
<1>2. CASE DragEnds
  <2> DEFINE still == live.inflight /\ live.deferred = Nil
  <2>1. live \in Lives /\ loose' = loose
    BY <1>2 DEF LivePart, DragEnds
  <2>2. still \in BOOLEAN /\ (still <=> live.job # Nil)
    BY DEF LivePart
  <2>3. live' = [live EXCEPT !.drag = FALSE, !.deferred = Nil, !.inflight = still]
    BY <1>2 DEF DragEnds
  <2> HIDE DEF still
  <2>4. live' \in Lives /\ live'.inflight = still /\ live'.job = live.job /\ live'.deferred = Nil
    BY <2>1, <2>2, <2>3 DEF Lives
  <2> QED
    BY <2>1, <2>2, <2>4 DEF LivePart
<1> QED
  BY <1>1, <1>2

LEMMA AsksLive ==
  ASSUME LivePart, NEW why \in {"recheck", "row"}, NEW keys \in SUBSET Keys, Asks(why, keys)
  PROVE  LivePart'
<1>1. [why |-> why, keys |-> keys] \in LooseJobs
  BY DEF LooseJobs
<1>2. loose' \in SUBSET LooseJobs /\ live' = live
  BY <1>1 DEF Asks, LivePart
<1> QED
  BY <1>2, LiveKept

(***************************************************************************)
(* The steps and what is shown.                                            *)
(***************************************************************************)
LEMMA UiFacts ==
  ASSUME NEW u \in Uis
  PROVE  /\ u.dimmed \in BOOLEAN /\ u.nudged \in BOOLEAN /\ u.started \in BOOLEAN
         /\ Dimmed(u) \in Uis /\ Dimmed(u).dimmed /\ Dimmed(u).nudged = u.nudged
         /\ Dimmed(u).started = u.started
         /\ Undimmed(u) \in Uis /\ ~Undimmed(u).dimmed /\ Undimmed(u).started = u.started
         /\ RevealedUi(u) \in Uis /\ ~RevealedUi(u).dimmed /\ RevealedUi(u).started
         /\ PresentedUi(u) \in Uis /\ PresentedUi(u).started
         /\ u.started => PresentedUi(u) = u
         /\ ~u.started => ~PresentedUi(u).dimmed
BY DEF Uis, Dimmed, Undimmed, RevealedUi, PresentedUi

LEMMA LoadedUiFacts ==
  ASSUME ui \in Uis, NEW list, NEW how
  PROVE  /\ LoadedUi(list, how) \in Uis
         /\ ui.started => LoadedUi(list, how).started
         /\ list = {} \/ how # "ok" => LoadedUi(list, how).started
         /\ (list = {} \/ how # "ok") /\ ~ui.started => ~LoadedUi(list, how).dimmed
         /\ list = {} /\ ui.started => LoadedUi(list, how) = ui
         /\ list # {} /\ how = "ok" /\ WarmUp(list) = {} => /\ LoadedUi(list, how).started
                                                            /\ ~LoadedUi(list, how).dimmed
<1> DEFINE w == WarmUp(list) = {}
           d == Dimmed(ui)
<1>1. /\ d \in Uis /\ d.started = ui.started /\ d.dimmed
      /\ ui.started \in BOOLEAN
  BY UiFacts
<1>2. CASE list = {}
  <2>1. LoadedUi(list, how) = PresentedUi(ui)
    BY <1>2 DEF LoadedUi
  <2> QED
    BY <2>1, <1>2, UiFacts
<1>3. CASE list # {} /\ how # "ok"
  <2>1. LoadedUi(list, how) = PresentedUi(d)
    BY <1>3 DEF LoadedUi
  <2> HIDE DEF d
  <2> QED
    BY <2>1, <1>1, <1>3, UiFacts
<1>4. CASE list # {} /\ how = "ok"
  <2>1. LoadedUi(list, how) = IF w THEN RevealedUi(ui) ELSE d
    BY <1>4 DEF LoadedUi
  <2>2. CASE w
    BY <2>1, <2>2, <1>4, UiFacts
  <2>3. CASE ~w
    <3> HIDE DEF d
    <3> QED
      BY <2>1, <2>3, <1>1, <1>4
  <2> QED
    BY <2>2, <2>3
<1> QED
  BY <1>2, <1>3, <1>4

LEMMA UpdateKept ==
  ASSUME UpdatePart, UNCHANGED <<on, db, ui>>, sweep'.current = sweep.current,
         sweep'.revealed = sweep.revealed
  PROVE  UpdatePart'
BY DEF UpdatePart, UpdateInv, ShownInv, Answering

LEMMA FetchEndsShown ==
  ASSUME UpdatePart, FetchEnds
  PROVE  UpdatePart'
<1>1. PICK file \in Lists \union {db.file}, how \in {"ok", "failed", "error"},
           readable \in BOOLEAN :
        LET read == readable /\ how # "error" /\ (db.fetch = "start" \/ how = "ok")
        IN db' = [db EXCEPT !.fetch = "none", !.file = file,
                            !.answer = [by |-> db.fetch, how |-> how,
                                        list |-> IF read THEN file ELSE {}]]
  BY DEF FetchEnds
<1> DEFINE read == readable /\ how # "error" /\ (db.fetch = "start" \/ how = "ok")
           list == IF read THEN file ELSE {}
           answer == [by |-> db.fetch, how |-> how, list |-> list]
<1>2. db \in Databases /\ db.fetch # "none" /\ db.answer = Nil
  BY DEF UpdatePart, FetchEnds
<1>3. file \in SUBSET Keys /\ db.fetch \in {"start", "user"}
  BY <1>2, DbFields, BrowserAssumption
<1> HIDE DEF read
<1>4. list \in SUBSET Keys
  BY <1>3
<1>5. db' = [db EXCEPT !.fetch = "none", !.file = file, !.answer = answer]
  BY <1>1 DEF read
<1> HIDE DEF list
<1>6. answer \in Fetched
  BY <1>3, <1>4 DEF Fetched
<1>7. answer # Nil /\ answer.by = db.fetch
  BY <1>6, BrowserAssumption
<1> HIDE DEF answer
<1>8. /\ db' \in Databases /\ db'.inflight = db.inflight /\ db'.fetch = "none"
      /\ db'.answer = answer /\ db'.watchdog = db.watchdog /\ db'.applied = db.applied
      /\ db'.provisional = db.provisional /\ db'.batch = db.batch
  BY <1>2, <1>3, <1>5, <1>6 DEF Databases
<1>9. UNCHANGED <<on, ui, sweep>>
  BY DEF FetchEnds
<1>10. UpdateInv'
  BY <1>2, <1>3, <1>7, <1>8 DEF UpdatePart, UpdateInv, Answering
<1>11. ShownInv'
  BY <1>7, <1>8, <1>9 DEF UpdatePart, ShownInv
<1> QED
  BY <1>8, <1>9, <1>10, <1>11 DEF UpdatePart

LEMMA StartKeepsProvisionalShown ==
  ASSUME UpdatePart, StartKeepsProvisional
  PROVE  UpdatePart' /\ db'.batch = db.batch /\ db'.loads = db.loads
<1> DEFINE b == Settled
<1>1. db \in Databases /\ ui \in Uis
  BY DEF UpdatePart
<1>2. /\ b \in Databases /\ ~b.inflight /\ b.fetch = db.fetch /\ b.answer = Nil
      /\ b.watchdog = db.watchdog /\ b.provisional = db.provisional
      /\ b.batch = db.batch /\ b.loads = db.loads
  BY <1>1, SettledDb DEF Settled
<1>3. db' = [b EXCEPT !.applied = TRUE] /\ ui' = PresentedUi(ui) /\ UNCHANGED <<on, sweep>>
  BY DEF StartKeepsProvisional
<1> HIDE DEF b
<1>4. /\ db' \in Databases /\ ~db'.inflight /\ db'.fetch = db.fetch /\ db'.answer = Nil
      /\ db'.applied /\ db'.provisional = db.provisional
      /\ db'.batch = db.batch /\ db'.loads = db.loads
  BY <1>2, <1>3, AppliedDb
<1>5. Answering("start") /\ db.provisional
  BY DEF StartKeepsProvisional
<1>6. ~db.applied /\ db.answer # Nil /\ db.fetch = "none" /\ db.batch = Nil
  BY <1>5 DEF UpdatePart, UpdateInv, Answering
<1>7. ui.started /\ (ui.dimmed => ui.nudged) /\ ui' = ui
  BY <1>1, <1>3, <1>5, <1>6, UiFacts DEF UpdatePart, ShownInv
<1>8. UpdateInv'
  BY <1>4, <1>6 DEF UpdatePart, UpdateInv, Answering
<1>9. ShownInv'
  BY <1>3, <1>4, <1>6, <1>7 DEF ShownInv
<1> QED
  BY <1>1, <1>3, <1>4, <1>7, <1>8, <1>9 DEF UpdatePart

(* The update is over and a list was loaded. *)
LEMMA LoadedShown ==
  ASSUME UpdatePart, db.answer # Nil, NEW list, NEW how, NEW b \in Databases, db' = b,
         ~b.inflight, b.fetch = db.fetch, b.answer = Nil, b.applied, b.batch = db.batch,
         ui' \in {LoadedUi(list, how), Undimmed(LoadedUi(list, how))},
         db.applied => ui' = Undimmed(LoadedUi(list, how)), on' = on,
         ~db.applied => how = "ok" \/ ~ui.started,
         list = {} => sweep' = sweep,
         list # {} /\ how = "ok" => sweep'.current /\ (sweep'.revealed <=> WarmUp(list) = {}),
         list # {} /\ how # "ok" => ~sweep'.current,
         db.applied => how = "ok"
  PROVE  UpdatePart'
<1> DEFINE u == LoadedUi(list, how)
<1>1. db \in Databases /\ ui \in Uis
  BY DEF UpdatePart
<1>2. db.fetch = "none" /\ db.batch = Nil
  BY DEF UpdatePart, UpdateInv
<1>3. UpdateInv'
  <2>1. Nil # {}
    BY BrowserAssumption
  <2> QED
    BY <1>2, <2>1 DEF UpdateInv, Answering
<1>4. /\ u \in Uis
      /\ ui.started => u.started
      /\ list = {} \/ how # "ok" => u.started
      /\ (list = {} \/ how # "ok") /\ ~ui.started => ~u.dimmed
      /\ list = {} /\ ui.started => u = ui
      /\ list # {} /\ how = "ok" /\ WarmUp(list) = {} => u.started /\ ~u.dimmed
  BY <1>1, LoadedUiFacts
<1> HIDE DEF u
<1>5. ui' \in {u, Undimmed(u)} /\ (db.applied => ui' = Undimmed(u))
  BY DEF u
<1>6. ui' \in Uis /\ ui'.started = u.started /\ (ui'.dimmed => ui' = u /\ ~db.applied)
  BY <1>4, <1>5, UiFacts
<1>7. ~ui'.started => sweep'.current /\ ~sweep'.revealed
  BY <1>4, <1>6
<1>8. ~db.applied /\ ui.started /\ ui.dimmed => ui.nudged
  BY DEF UpdatePart, ShownInv
<1>9. ui'.dimmed => ui'.nudged \/ (sweep'.current /\ ~sweep'.revealed)
  <2>1. SUFFICES ASSUME ui'.dimmed PROVE ui'.nudged \/ (sweep'.current /\ ~sweep'.revealed)
    OBVIOUS
  <2>2. ui' = u /\ ~db.applied /\ u.dimmed
    BY <2>1, <1>6
  <2>3. CASE list = {}
    <3>1. ui.started
      BY <2>2, <2>3, <1>4
    <3>2. u = ui
      BY <3>1, <2>3, <1>4
    <3>3. ui.nudged
      BY <3>1, <3>2, <2>2, <1>8
    <3>4. ui' = ui
      BY <3>2, <2>2
    <3>5. ui'.nudged
      BY <3>3, <3>4
    <3> QED
      BY <3>5
  <2>4. CASE list # {} /\ how = "ok"
    <3>1. WarmUp(list) # {}
      BY <2>2, <2>4, <1>4
    <3> QED
      BY <3>1, <2>4
  <2>5. CASE list # {} /\ how # "ok"
    <3>1. ~ui.started
      BY <2>2, <2>5
    <3> QED
      BY <3>1, <2>2, <2>5, <1>4
  <2> QED
    BY <2>3, <2>4, <2>5
<1>10. ShownInv'
  BY <1>2, <1>7, <1>9 DEF ShownInv
<1> QED
  BY <1>3, <1>6, <1>10 DEF UpdatePart

(* What Load leaves of the sweep. *)
SweepLoaded(list, how) ==
  /\ list = {} => sweep' = sweep
  /\ list # {} /\ how = "ok" => sweep'.current /\ (sweep'.revealed <=> WarmUp(list) = {})
  /\ list # {} /\ how # "ok" => ~sweep'.current

LEMMA StartFallsBackShown ==
  ASSUME UpdatePart, StartFallsBack, SweepLoaded(db.answer.list, "cached")
  PROVE  UpdatePart' /\ db'.batch = Nil /\ db'.loads # db.loads
<1> DEFINE a == Settled
           b == [a EXCEPT !.applied = TRUE, !.loads = @ + 1]
           list == db.answer.list
           how == "cached"
<1>1. db \in Databases /\ ui \in Uis
  BY DEF UpdatePart
<1>2. /\ a \in Databases /\ ~a.inflight /\ a.fetch = db.fetch /\ a.answer = Nil
      /\ a.batch = db.batch /\ a.loads = db.loads
  BY <1>1, SettledDb DEF Settled
<1> HIDE DEF a
<1>3. /\ b \in Databases /\ ~b.inflight /\ b.fetch = db.fetch /\ b.answer = Nil
      /\ b.applied /\ b.batch = db.batch /\ b.loads = db.loads + 1
  BY <1>2, FirstLoadDb
<1>4. db' = b /\ ui' = LoadedUi(list, how) /\ on' = on
  BY DEF StartFallsBack, a
<1> HIDE DEF b, list
<1>5. Answering("start") /\ ~db.provisional /\ db.answer # Nil
  BY DEF StartFallsBack, Answering
<1>6. ~db.applied /\ db.batch = Nil /\ ~ui.started
  BY <1>5 DEF UpdatePart, UpdateInv, ShownInv
<1>7. /\ list = {} => sweep' = sweep
      /\ list # {} => ~sweep'.current
  BY DEF SweepLoaded, list
<1>8. how # "ok"
  OBVIOUS
<1> HIDE DEF how
<1>9. ui' \in {LoadedUi(list, how), Undimmed(LoadedUi(list, how))}
  BY <1>4
<1>10. UpdatePart'
  BY <1>3, <1>4, <1>5, <1>6, <1>7, <1>8, <1>9, LoadedShown
<1>11. db.loads \in Nat
  BY <1>1, DbFields
<1> QED
  BY <1>3, <1>4, <1>6, <1>10, <1>11

LEMMA StartLoadsShown ==
  ASSUME UpdatePart, StartLoads, SweepLoaded(db.answer.list, "ok")
  PROVE  UpdatePart' /\ db'.batch = Nil /\ db'.loads # db.loads
<1> DEFINE a == Settled
           more == IF db.answer.list = {} THEN 0 ELSE 1
           b == [a EXCEPT !.applied = TRUE, !.loads = @ + 1, !.rechecks = @ + more]
           list == db.answer.list
           how == "ok"
<1>1. db \in Databases /\ ui \in Uis
  BY DEF UpdatePart
<1>2. /\ a \in Databases /\ ~a.inflight /\ a.fetch = db.fetch /\ a.answer = Nil
      /\ a.batch = db.batch /\ a.loads = db.loads
  BY <1>1, SettledDb DEF Settled
<1>3. more \in Nat /\ db' = b /\ ui' = LoadedUi(list, how) /\ on' = on
  BY DEF StartLoads
<1> HIDE DEF a, more
<1>4. /\ b \in Databases /\ ~b.inflight /\ b.fetch = db.fetch /\ b.answer = Nil
      /\ b.applied /\ b.batch = db.batch /\ b.loads = db.loads + 1
  BY ZenonT(60), <1>2, <1>3, StartLoadDb
<1> HIDE DEF b, list
<1>5. Answering("start") /\ db.answer # Nil
  BY DEF StartLoads, Answering
<1>6. ~db.applied /\ db.batch = Nil
  BY <1>5 DEF UpdatePart, UpdateInv
<1>7. /\ list = {} => sweep' = sweep
      /\ list # {} => sweep'.current /\ (sweep'.revealed <=> WarmUp(list) = {})
  BY DEF SweepLoaded, list
<1>8. how = "ok"
  OBVIOUS
<1> HIDE DEF how
<1>9. ui' \in {LoadedUi(list, how), Undimmed(LoadedUi(list, how))}
  BY <1>3
<1>10. UpdatePart'
  BY <1>3, <1>4, <1>5, <1>6, <1>7, <1>8, <1>9, LoadedShown
<1>11. db.loads \in Nat
  BY <1>1, DbFields
<1> QED
  BY <1>3, <1>4, <1>6, <1>10, <1>11

LEMMA UpdateLoadsShown ==
  ASSUME UpdatePart, UpdateLoads, SweepLoaded(db.answer.list, "ok")
  PROVE  UpdatePart' /\ db'.batch = Nil /\ db'.loads # db.loads
<1> DEFINE a == Settled
           more == IF db.answer.list = {} THEN 0 ELSE 1
           b == [a EXCEPT !.loads = @ + 1, !.rechecks = @ + more]
           list == db.answer.list
           how == "ok"
<1>1. db \in Databases /\ ui \in Uis
  BY DEF UpdatePart
<1>2. /\ a \in Databases /\ ~a.inflight /\ a.fetch = db.fetch /\ a.answer = Nil
      /\ a.applied = db.applied /\ a.batch = db.batch /\ a.loads = db.loads
  BY <1>1, SettledDb DEF Settled
<1>3. more \in Nat /\ db' = b /\ ui' = Undimmed(LoadedUi(list, how)) /\ on' = on
  BY DEF UpdateLoads
<1> HIDE DEF a, more
<1>4. /\ b \in Databases /\ ~b.inflight /\ b.fetch = db.fetch /\ b.answer = Nil
      /\ b.applied = db.applied /\ b.batch = db.batch /\ b.loads = db.loads + 1
  BY <1>2, <1>3, LaterLoadDb
<1> HIDE DEF b, list
<1>5. Answering("user") /\ db.answer # Nil /\ ~Answering("start")
  BY DEF UpdateLoads, Answering
<1>6. db.applied /\ db.batch = Nil
  BY <1>5 DEF UpdatePart, UpdateInv
<1>7. /\ list = {} => sweep' = sweep
      /\ list # {} => sweep'.current /\ (sweep'.revealed <=> WarmUp(list) = {})
  BY DEF SweepLoaded, list
<1>8. how = "ok"
  OBVIOUS
<1> HIDE DEF how
<1>9. ui' \in {LoadedUi(list, how), Undimmed(LoadedUi(list, how))}
  BY <1>3
<1>10. UpdatePart'
  BY <1>3, <1>4, <1>5, <1>6, <1>7, <1>8, <1>9, LoadedShown
<1>11. db.loads \in Nat
  BY <1>1, DbFields
<1> QED
  BY <1>3, <1>4, <1>6, <1>10, <1>11

LEMMA WatchdogShown ==
  ASSUME UpdatePart, db' = [db EXCEPT !.watchdog = FALSE, !.provisional = TRUE, !.loads = @ + 1],
         NEW list, ui' = LoadedUi(list, "provisional"), on' = on,
         SweepLoaded(list, "provisional"), db.watchdog, ~db.applied
  PROVE  UpdatePart' /\ db'.batch = Nil /\ db'.loads # db.loads
<1>1. db \in Databases /\ ui \in Uis
  BY DEF UpdatePart
<1>2. /\ db' \in Databases /\ db'.inflight = db.inflight /\ db'.fetch = db.fetch
      /\ db'.answer = db.answer /\ ~db'.watchdog /\ db'.applied = db.applied /\ db'.provisional
      /\ db'.batch = db.batch /\ db'.loads = db.loads + 1
  BY <1>1, WatchdogDb
<1>3. ~ui.started /\ ~sweep.current /\ db.batch = Nil
  BY DEF UpdatePart, UpdateInv, ShownInv
<1> DEFINE how == "provisional"
<1>4. how # "ok" /\ ui' = LoadedUi(list, how)
  OBVIOUS
<1>5. ~sweep'.current
  BY <1>3 DEF SweepLoaded
<1> HIDE DEF how
<1>6. ui' \in Uis /\ ui'.started /\ ~ui'.dimmed
  BY <1>1, <1>3, <1>4, LoadedUiFacts
<1>7. UpdateInv'
  BY <1>2 DEF UpdatePart, UpdateInv, Answering
<1>8. ShownInv'
  BY <1>2, <1>3, <1>5, <1>6 DEF ShownInv
<1>9. db.loads \in Nat
  BY <1>1, DbFields
<1> QED
  BY <1>2, <1>3, <1>6, <1>7, <1>8, <1>9 DEF UpdatePart

LEMMA WatchdogOverShown ==
  ASSUME UpdatePart, db' = [db EXCEPT !.watchdog = FALSE], UNCHANGED <<on, ui, sweep>>, db.applied
  PROVE  UpdatePart' /\ db'.batch = db.batch /\ db'.loads = db.loads
<1>1. db \in Databases
  BY DEF UpdatePart
<1>2. /\ db' \in Databases /\ db'.inflight = db.inflight /\ db'.fetch = db.fetch
      /\ db'.answer = db.answer /\ db'.applied = db.applied
      /\ db'.batch = db.batch /\ db'.loads = db.loads
  BY <1>1, WatchedDb
<1>3. UpdateInv'
  BY <1>2 DEF UpdatePart, UpdateInv, Answering
<1>4. ShownInv'
  BY <1>2 DEF UpdatePart, ShownInv
<1> QED
  BY <1>2, <1>3, <1>4 DEF UpdatePart

LEMMA StartBatchesShown ==
  ASSUME UpdatePart, StartBatches
  PROVE  UpdatePart' /\ rows.list = {} /\ db'.loads = db.loads
<1> DEFINE list == db.answer.list
<1>1. db \in Databases /\ Answering("start") /\ db.answer # Nil /\ Batched(list)
  BY DEF UpdatePart, StartBatches, Answering
<1>2. list \in SUBSET Keys /\ list # {} /\ rows.list = {} /\ ~db.provisional /\ list # Nil
  BY <1>1, AnswerFields, BrowserAssumption DEF Batched
<1>3. db' = [db EXCEPT !.answer = Nil, !.applied = TRUE, !.batch = list]
      /\ UNCHANGED <<on, ui, sweep>>
  BY DEF StartBatches
<1> HIDE DEF list
<1>4. /\ db' \in Databases /\ db'.inflight = db.inflight /\ db'.fetch = db.fetch
      /\ db'.answer = Nil /\ db'.applied /\ db'.batch = list /\ db'.loads = db.loads
  BY <1>1, <1>2, <1>3, BatchingDb
<1>5. ~db.applied /\ db.fetch = "none" /\ db.inflight
  BY <1>1 DEF UpdatePart, UpdateInv
<1>6. ~ui.started /\ ~sweep.current
  BY <1>2, <1>5 DEF UpdatePart, ShownInv
<1>7. UpdateInv'
  BY <1>2, <1>4, <1>5 DEF UpdateInv, Answering
<1>8. ShownInv'
  BY <1>2, <1>3, <1>4, <1>6 DEF ShownInv
<1> QED
  BY <1>2, <1>3, <1>4, <1>7, <1>8 DEF UpdatePart

(* The batches are over. *)
LEMMA BatchShown ==
  ASSUME UpdatePart, db.batch # Nil, NEW b \in Databases, db' = b, ~b.inflight,
         b.fetch = db.fetch, b.answer = db.answer, b.applied = db.applied, b.batch = Nil,
         on' = on, ui' \in Uis,
         ~ui'.started => sweep'.current /\ ~sweep'.revealed,
         ui'.dimmed => sweep'.current /\ ~sweep'.revealed
  PROVE  UpdatePart'
<1>1. db.fetch = "none" /\ db.answer = Nil /\ db.applied
  BY DEF UpdatePart, UpdateInv
<1>2. UpdateInv'
  <2>1. Nil # {}
    BY BrowserAssumption
  <2> QED
    BY <1>1, <2>1 DEF UpdateInv, Answering
<1>3. ShownInv'
  BY <1>1 DEF ShownInv
<1> QED
  BY <1>2, <1>3 DEF UpdatePart

LEMMA BatchIsThere ==
  ASSUME UpdatePart, db.batch # Nil
  PROVE  /\ db.batch \in SUBSET Keys /\ db.batch # {} /\ db.inflight /\ ~ui.started
         /\ ~sweep.current /\ db.answer = Nil /\ db.fetch = "none" /\ db.applied
<1>1. db.batch \in SUBSET Keys
  BY DbFields DEF UpdatePart
<1> QED
  BY <1>1 DEF UpdatePart, UpdateInv, ShownInv

LEMMA BatchPublishesShown ==
  ASSUME UpdatePart, BatchPublishes,
         sweep'.current /\ (sweep'.revealed <=> WarmUp(db.batch) = {})
  PROVE  UpdatePart' /\ db'.batch = Nil /\ db'.loads # db.loads
<1> DEFINE a == BatchOver
           more == 1
           b == [a EXCEPT !.loads = @ + 1, !.rechecks = @ + more]
           list == db.batch
           how == "ok"
<1>1. db \in Databases /\ ui \in Uis /\ db.batch # Nil
  BY DEF UpdatePart, BatchPublishes
<1>2. /\ a \in Databases /\ ~a.inflight /\ a.fetch = db.fetch /\ a.answer = db.answer
      /\ a.applied = db.applied /\ a.batch = Nil /\ a.loads = db.loads
  BY <1>1, BatchOverDb DEF BatchOver
<1>3. more \in Nat /\ db' = b /\ ui' = LoadedUi(list, how) /\ on' = on
  BY DEF BatchPublishes
<1> HIDE DEF a, more
<1>4. /\ b \in Databases /\ ~b.inflight /\ b.fetch = db.fetch /\ b.answer = db.answer
      /\ b.applied = db.applied /\ b.batch = Nil /\ b.loads = db.loads + 1
  BY ZenonT(60), <1>2, <1>3, LaterLoadDb
<1>5. list # {} /\ how = "ok"
  BY <1>1, BatchIsThere
<1> HIDE DEF b, list, how
<1>6. ui' \in Uis /\ (WarmUp(list) = {} => ui'.started /\ ~ui'.dimmed)
  BY <1>1, <1>3, <1>5, LoadedUiFacts
<1>7. WarmUp(list) # {} => sweep'.current /\ ~sweep'.revealed
  BY DEF list
<1>8. UpdatePart'
  BY <1>1, <1>3, <1>4, <1>6, <1>7, BatchShown
<1>9. db.loads \in Nat
  BY <1>1, DbFields
<1> QED
  BY <1>3, <1>4, <1>8, <1>9

LEMMA BatchFailsShown ==
  ASSUME UpdatePart, BatchFails
  PROVE  UpdatePart' /\ db'.batch = Nil
<1> DEFINE a == BatchOver
<1>1. db \in Databases /\ ui \in Uis /\ db.batch # Nil /\ ~ui.started
  BY BatchIsThere DEF UpdatePart, BatchFails
<1>2. /\ a \in Databases /\ ~a.inflight /\ a.fetch = db.fetch /\ a.answer = db.answer
      /\ a.applied = db.applied /\ a.batch = Nil /\ a.loads = db.loads
  BY <1>1, BatchOverDb DEF BatchOver
<1>3. db' = a /\ ui' = PresentedUi(ui) /\ on' = on
  BY DEF BatchFails
<1> HIDE DEF a
<1>4. ui' \in Uis /\ ui'.started /\ ~ui'.dimmed
  BY <1>1, <1>3, UiFacts
<1>5. UpdatePart'
  BY <1>1, <1>2, <1>3, <1>4, BatchShown
<1> QED
  BY <1>2, <1>3, <1>5

LEMMA BatchWithoutSweepShown ==
  ASSUME UpdatePart, BatchPublishesWithoutSweep
  PROVE  UpdatePart' /\ db'.batch = Nil /\ db'.loads # db.loads
<1>1. PICK more \in Nat : db' = [BatchOver EXCEPT !.loads = @ + 1, !.rechecks = @ + more]
  <2>1. PICK swept \in BOOLEAN, clock \in BOOLEAN :
          db' = [BatchOver EXCEPT !.loads = @ + 1, !.rechecks = @ + IF clock /\ swept THEN 1 ELSE 0]
    BY DEF BatchPublishesWithoutSweep
  <2> DEFINE more == IF clock /\ swept THEN 1 ELSE 0
  <2>2. more \in Nat
    OBVIOUS
  <2> QED
    BY <2>1, <2>2
<1> DEFINE a == BatchOver
           b == [a EXCEPT !.loads = @ + 1, !.rechecks = @ + more]
<1>2. db \in Databases /\ ui \in Uis /\ db.batch # Nil /\ ~ui.started
  BY BatchIsThere DEF UpdatePart, BatchPublishesWithoutSweep
<1>3. /\ a \in Databases /\ ~a.inflight /\ a.fetch = db.fetch /\ a.answer = db.answer
      /\ a.applied = db.applied /\ a.batch = Nil /\ a.loads = db.loads
  BY <1>2, BatchOverDb DEF BatchOver
<1>4. db' = b /\ ui' = PresentedUi(ui) /\ on' = on
  BY <1>1 DEF BatchPublishesWithoutSweep
<1> HIDE DEF a
<1>5. /\ b \in Databases /\ ~b.inflight /\ b.fetch = db.fetch /\ b.answer = db.answer
      /\ b.applied = db.applied /\ b.batch = Nil /\ b.loads = db.loads + 1
  BY <1>3, LaterLoadDb
<1> HIDE DEF b
<1>6. ui' \in Uis /\ ui'.started /\ ~ui'.dimmed
  BY <1>2, <1>4, UiFacts
<1>7. UpdatePart'
  BY <1>2, <1>4, <1>5, <1>6, BatchShown
<1>8. db.loads \in Nat
  BY <1>2, DbFields
<1> QED
  BY <1>4, <1>5, <1>7, <1>8

LEMMA UserUpdateShown ==
  ASSUME UpdatePart, UpdateRefused \/ UpdateBegins \/ UpdateFails
  PROVE  UpdatePart' /\ db'.batch = db.batch /\ db'.loads = db.loads
<1>1. db \in Databases /\ ui \in Uis
  BY DEF UpdatePart
<1>2. CASE UpdateRefused
  <2> DEFINE u == Dimmed(ui)
  <2>1. u \in Uis /\ u.started = ui.started
    BY <1>1, UiFacts
  <2>2. ui' = [u EXCEPT !.nudged = TRUE] /\ UNCHANGED <<on, db, sweep>>
    BY <1>2 DEF UpdateRefused
  <2> HIDE DEF u
  <2>3. ui' \in Uis /\ ui'.nudged /\ ui'.started = ui.started
    BY <2>1, <2>2 DEF Uis
  <2> QED
    BY <2>2, <2>3 DEF UpdatePart, UpdateInv, ShownInv, Answering
<1>3. CASE UpdateBegins
  <2>1. /\ ~db.inflight /\ db.updates < MaxUpdates /\ UNCHANGED <<on, sweep>>
        /\ db' = [db EXCEPT !.inflight = TRUE, !.fetch = "user", !.updates = @ + 1]
        /\ ui' = Dimmed(ui)
    BY <1>3 DEF UpdateBegins
  <2>2. /\ db' \in Databases /\ db'.inflight /\ db'.fetch = "user" /\ db'.answer = db.answer
        /\ db'.applied = db.applied /\ db'.batch = db.batch /\ db'.loads = db.loads
    BY <1>1, <2>1, AskedDb
  <2>3. ui' \in Uis /\ ui'.started = ui.started
    BY <1>1, <2>1, UiFacts
  <2>4. db.fetch = "none" /\ db.answer = Nil /\ db.batch = Nil /\ db.applied
    BY <2>1 DEF UpdatePart, UpdateInv, Answering
  <2>5. UpdateInv'
    BY <2>2, <2>4 DEF UpdatePart, UpdateInv, Answering
  <2>6. ShownInv'
    BY <2>1, <2>2, <2>3, <2>4 DEF UpdatePart, ShownInv
  <2> QED
    BY <2>1, <2>2, <2>3, <2>5, <2>6 DEF UpdatePart
<1>4. CASE UpdateFails
  <2> DEFINE a == Settled
  <2>1. /\ a \in Databases /\ ~a.inflight /\ a.fetch = db.fetch /\ a.answer = Nil
        /\ a.applied = db.applied /\ a.batch = db.batch /\ a.loads = db.loads
    BY <1>1, SettledDb DEF Settled
  <2>2. db' = a /\ ui' = Undimmed(ui) /\ UNCHANGED <<on, sweep>>
    BY <1>4 DEF UpdateFails
  <2> HIDE DEF a
  <2>3. ui' \in Uis /\ ~ui'.dimmed /\ ui'.started = ui.started
    BY <1>1, <2>2, UiFacts
  <2>4. Answering("user") /\ db.answer # Nil /\ ~Answering("start")
    BY <1>4 DEF UpdateFails, Answering
  <2>5. db.applied /\ db.batch = Nil /\ db.fetch = "none"
    BY <2>4 DEF UpdatePart, UpdateInv
  <2>6. UpdateInv'
    <3>1. Nil # {}
      BY BrowserAssumption
    <3> QED
      BY <2>1, <2>2, <2>5, <3>1 DEF UpdateInv, Answering
  <2>7. ShownInv'
    BY <2>1, <2>2, <2>3, <2>5 DEF UpdatePart, ShownInv
  <2> QED
    BY <2>1, <2>2, <2>3, <2>6, <2>7 DEF UpdatePart
<1> QED
  BY <1>2, <1>3, <1>4

(* The list is shown at the end of the warm-up. *)
LEMMA RevealedShown ==
  ASSUME UpdatePart, sweep.current, sweep'.current, ui' = RevealedUi(ui), UNCHANGED <<on, db>>
  PROVE  UpdatePart'
<1>1. ui' \in Uis /\ ~ui'.dimmed /\ ui'.started
  BY UiFacts DEF UpdatePart
<1>2. db.applied /\ db.batch = Nil
  BY DEF UpdatePart, ShownInv
<1> QED
  BY <1>1, <1>2 DEF UpdatePart, UpdateInv, ShownInv, Answering

(***************************************************************************)
(* The steps and the catalogue.                                            *)
(***************************************************************************)
(* What a step does to the history of the rows and to the files. *)
History ==
  /\ db'.loads = db.loads => NoneLostAtOnce \/ rows'.list = {}
  /\ Published(cat, cat', rows'.list)

LEMMA CatUntouched ==
  ASSUME CatPart, cat' = cat, rows'.list = rows.list, db'.batch = db.batch
  PROVE  CatPart' /\ Published(cat, cat', rows'.list)
BY DEF CatPart, Published

LEMMA CatFollows ==
  ASSUME CatPart, cat' \in Catalogues, CatInv(cat', rows'.list), rows'.list = rows.list,
         Published(cat, cat', rows'.list), db'.batch # Nil => db'.batch = db.batch,
         db.batch # Nil /\ Quiet(cat) => Quiet(cat')
  PROVE  CatPart' /\ Published(cat, cat', rows'.list)
BY DEF CatPart

LEMMA SameFilesPublished ==
  ASSUME NEW c, NEW d, NEW list, SameFiles(c, d)
  PROVE  Published(c, d, list)
BY DEF SameFiles, Published

LEMMA CatOfInv ==
  ASSUME RowsPart, UpdatePart, CatPart
  PROVE  /\ cat \in Catalogues /\ CatInv(cat, rows.list) /\ rows.list \in SUBSET Keys
         /\ db.inflight \in BOOLEAN /\ (db.batch # Nil => db.inflight /\ Quiet(cat))
<1>1. rows.list \in SUBSET Keys /\ db.inflight \in BOOLEAN
  BY RowFields, DbFields DEF RowsPart, UpdatePart
<1> QED
  BY <1>1 DEF CatPart, UpdatePart, UpdateInv

LEMMA TickCat ==
  ASSUME RowsPart, UpdatePart, CatPart, NEW resting \in BOOLEAN, Tick(resting)
  PROVE  CatPart' /\ Published(cat, cat', rows'.list)
<1>1. /\ cat \in Catalogues /\ CatInv(cat, rows.list) /\ rows.list \in SUBSET Keys
      /\ db.inflight \in BOOLEAN /\ (db.batch # Nil => db.inflight /\ Quiet(cat))
  BY CatOfInv
<1>2. UNCHANGED <<rows, db>>
  BY DEF Tick
<1>3. PICK aged \in BOOLEAN : cat' = Ticked(cat, rows.list, db.inflight, resting, aged)
  BY DEF Tick
<1> DEFINE updating == db.inflight
           list == rows.list
           d == Ticked(cat, list, updating, resting, aged)
<1>4. cat' = d /\ rows'.list = list /\ updating \in BOOLEAN /\ list \in SUBSET Keys
      /\ CatInv(cat, list)
  BY <1>1, <1>2, <1>3
<1> HIDE DEF list, updating
<1>5. /\ d \in Catalogues /\ CatInv(d, list) /\ SameFiles(cat, d)
      /\ updating /\ Quiet(cat) => Quiet(d)
  BY <1>1, <1>4, TickedFacts
<1> HIDE DEF d
<1>6. Published(cat, cat', rows'.list)
  BY <1>4, <1>5, SameFilesPublished
<1> QED
  BY <1>1, <1>2, <1>4, <1>5, <1>6, CatFollows DEF list, updating

LEMMA WorkerRunsCat ==
  ASSUME RowsPart, UpdatePart, CatPart, WorkerRuns
  PROVE  CatPart' /\ Published(cat, cat', rows'.list)
<1>1. /\ cat \in Catalogues /\ CatInv(cat, rows.list)
  BY CatOfInv
<1>2. UNCHANGED <<rows, db>> /\ Waiting(cat) # {}
  BY DEF WorkerRuns
<1>3. PICK made \in BOOLEAN : cat' = WorkerRan(cat, made)
  BY DEF WorkerRuns
<1> DEFINE d == WorkerRan(cat, made)
           list == rows.list
<1>4. cat' = d /\ rows'.list = list /\ CatInv(cat, list)
  BY <1>1, <1>2, <1>3
<1> HIDE DEF list
<1>5. d \in Catalogues /\ CatInv(d, list) /\ SameFiles(cat, d) /\ (Quiet(cat) => Quiet(d))
  BY <1>1, <1>2, <1>4, WorkerRanFacts
<1> HIDE DEF d
<1>6. Published(cat, cat', rows'.list)
  BY <1>4, <1>5, SameFilesPublished
<1> QED
  BY <1>2, <1>4, <1>5, <1>6, CatFollows DEF list

LEMMA JobEndsCat ==
  ASSUME RowsPart, UpdatePart, CatPart, JobEnds
  PROVE  CatPart' /\ Published(cat, cat', rows'.list)
<1>1. /\ cat \in Catalogues /\ CatInv(cat, rows.list)
  BY CatOfInv
<1>2. UNCHANGED <<rows, db>> /\ cat.jobs # <<>> /\ Head(cat.jobs).out # "queued"
  BY DEF JobEnds
<1>3. PICK published \in BOOLEAN : cat' = JobDone(cat, published)
  BY DEF JobEnds
<1> DEFINE d == JobDone(cat, published)
           list == rows.list
<1>4. cat' = d /\ rows'.list = list /\ CatInv(cat, list)
  BY <1>1, <1>2, <1>3
<1> HIDE DEF list
<1>5. d \in Catalogues /\ CatInv(d, list) /\ Published(cat, d, list) /\ (Quiet(cat) => Quiet(d))
  BY <1>1, <1>2, <1>4, JobDoneFacts
<1> HIDE DEF d
<1> QED
  BY <1>2, <1>4, <1>5, CatFollows DEF list

LEMMA CacheTimerCat ==
  ASSUME RowsPart, UpdatePart, CatPart, CacheTimer
  PROVE  CatPart' /\ Published(cat, cat', rows'.list)
<1>1. /\ cat \in Catalogues /\ CatInv(cat, rows.list)
  BY CatOfInv
<1>2. UNCHANGED <<rows, db>>
  BY DEF CacheTimer
<1>3. PICK gen \in cat.timers : cat' = CacheTimerFired(cat, gen)
  BY DEF CacheTimer
<1> DEFINE d == CacheTimerFired(cat, gen)
           list == rows.list
<1>4. cat' = d /\ rows'.list = list /\ CatInv(cat, list)
  BY <1>1, <1>2, <1>3
<1> HIDE DEF list
<1>5. d \in Catalogues /\ CatInv(d, list) /\ SameFiles(cat, d) /\ (Quiet(cat) => Quiet(d))
  BY <1>1, <1>4, CacheTimerFiredFacts
<1> HIDE DEF d
<1>6. Published(cat, cat', rows'.list)
  BY <1>4, <1>5, SameFilesPublished
<1> QED
  BY <1>2, <1>4, <1>5, <1>6, CatFollows DEF list

LEMMA StartKeepsProvisionalCat ==
  ASSUME RowsPart, UpdatePart, CatPart, StartKeepsProvisional
  PROVE  CatPart' /\ Published(cat, cat', rows'.list)
<1>1. /\ cat \in Catalogues /\ CatInv(cat, rows.list) /\ rows.list \in SUBSET Keys
  BY CatOfInv
<1>2. rows' = rows /\ db'.batch = db.batch
  BY StartKeepsProvisionalShown DEF StartKeepsProvisional
<1> DEFINE list == rows.list
           yes == TRUE
           d == Shown(cat, list, yes)
<1>3. cat' = d /\ rows'.list = list /\ yes \in BOOLEAN /\ yes /\ list \in SUBSET Keys
      /\ CatInv(cat, list)
  BY <1>1, <1>2 DEF StartKeepsProvisional
<1> HIDE DEF list, yes
<1>4. /\ d \in Catalogues /\ CatInv(d, list) /\ SameFiles(cat, d)
      /\ yes /\ Quiet(cat) => Quiet(d)
  BY <1>1, <1>3, ShownFacts
<1> HIDE DEF d
<1>5. Published(cat, cat', rows'.list)
  BY <1>3, <1>4, SameFilesPublished
<1> QED
  BY <1>2, <1>3, <1>4, <1>5, CatFollows DEF list

LEMMA ShowsCat ==
  ASSUME RowsPart, UpdatePart, CatPart, NEW now, Shows(now), rows'.list = rows.list, db' = db,
         sweep' \in Sweeps
  PROVE  CatPart' /\ Published(cat, cat', rows'.list)
<1>1. /\ cat \in Catalogues /\ CatInv(cat, rows.list) /\ rows.list \in SUBSET Keys
      /\ db.inflight \in BOOLEAN /\ (db.batch # Nil => db.inflight /\ Quiet(cat))
  BY CatOfInv
<1> DEFINE done == sweep'.done
           list == rows.list
           updating == db.inflight
           showing == Shown(cat, list, updating)
           c == IF now /\ ~sweep.revealed THEN showing ELSE cat
           d == [c EXCEPT !.sweepDone = done]
<1>2. done \in BOOLEAN
  BY DEF Sweeps
<1>3. cat' = d
  BY DEF Shows
<1>4. updating \in BOOLEAN /\ list \in SUBSET Keys /\ CatInv(cat, list)
  BY <1>1
<1> HIDE DEF done, updating, list
<1>5. /\ showing \in Catalogues /\ CatInv(showing, list) /\ SameFiles(cat, showing)
      /\ updating /\ Quiet(cat) => Quiet(showing)
  BY <1>1, <1>4, ShownFacts
<1> HIDE DEF showing
<1>6. /\ c \in Catalogues /\ CatInv(c, list) /\ SameFiles(cat, c)
      /\ updating /\ Quiet(cat) => Quiet(c)
  BY <1>1, <1>4, <1>5 DEF SameFiles
<1> HIDE DEF c
<1>7. /\ d \in Catalogues /\ CatInv(d, list) /\ SameFiles(c, d) /\ (Quiet(c) => Quiet(d))
  BY <1>2, <1>6, SweepDoneFacts
<1> HIDE DEF d
<1>8. SameFiles(cat, d)
  BY <1>6, <1>7, SameFilesTransitive
<1>9. Published(cat, cat', rows'.list)
  BY <1>3, <1>8, SameFilesPublished
<1>10. rows'.list = list
  BY DEF list
<1>11. db.batch # Nil /\ Quiet(cat) => Quiet(cat')
  BY <1>1, <1>3, <1>6, <1>7 DEF updating
<1> QED
  BY <1>3, <1>7, <1>9, <1>10, <1>11, CatFollows DEF list

LEMMA StartBatchesCat ==
  ASSUME RowsPart, UpdatePart, CatPart, StartBatches
  PROVE  CatPart' /\ Published(cat, cat', rows'.list)
<1>1. /\ cat \in Catalogues /\ CatInv(cat, rows.list)
  BY CatOfInv
<1>2. rows.list = {} /\ rows' = rows
  BY StartBatchesShown DEF StartBatches
<1> DEFINE list == rows.list
           no == FALSE
           c == [cat EXCEPT !.sweepDone = no, !.fallback = no]
           d == Outdated(c)
<1>3. cat' = d
  BY DEF StartBatches, NewDatabase
<1>4. no \in BOOLEAN /\ CatInv(cat, list) /\ rows'.list = list
  BY <1>1, <1>2
<1> HIDE DEF no, list
<1>5. c \in Catalogues /\ CatInv(c, list) /\ SameFiles(cat, c)
  BY <1>1, <1>4, FlaggedFacts
<1> HIDE DEF c
<1>6. d \in Catalogues /\ CatInv(d, list) /\ Quiet(d) /\ SameFiles(c, d)
  BY <1>5, OutdatedFacts
<1> HIDE DEF d
<1>7. SameFiles(cat, cat')
  BY <1>3, <1>5, <1>6, SameFilesTransitive
<1>8. Published(cat, cat', rows'.list)
  BY <1>7, SameFilesPublished
<1> QED
  BY <1>2, <1>3, <1>4, <1>6, <1>8 DEF CatPart, list

LEMMA BatchPublishesCat ==
  ASSUME RowsPart, UpdatePart, CatPart, BatchPublishes, rows'.list = db.batch, db'.batch = Nil
  PROVE  CatPart' /\ Published(cat, cat', rows'.list)
<1>1. /\ cat \in Catalogues /\ CatInv(cat, rows.list) /\ (db.batch # Nil => Quiet(cat))
  BY CatOfInv
<1>2. db.batch # Nil /\ db.batch \in SUBSET Keys
  BY BatchIsThere DEF BatchPublishes
<1> DEFINE list == db.batch
           how == "ok"
           c == LoadedInBatches(cat, list)
           d == AfterPublication(c, list, how)
<1>3. cat' = d /\ rows'.list = list /\ list \in SUBSET Keys /\ Quiet(cat)
  BY <1>1, <1>2 DEF BatchPublishes
<1> HIDE DEF list, how
<1>4. c \in Catalogues /\ CatInv(c, list) /\ c.candidate = list /\ SameFiles(cat, c)
  BY <1>1, <1>3, LoadedInBatchesFacts
<1> HIDE DEF c
<1>5. d \in Catalogues /\ CatInv(d, list) /\ SameFiles(c, d)
  BY <1>3, <1>4, AfterPublicationFacts
<1> HIDE DEF d
<1>6. SameFiles(cat, cat')
  BY <1>3, <1>4, <1>5, SameFilesTransitive
<1>7. Published(cat, cat', rows'.list)
  BY <1>6, SameFilesPublished
<1> QED
  BY <1>3, <1>5, <1>7 DEF CatPart

LEMMA BatchFailsCat ==
  ASSUME RowsPart, UpdatePart, CatPart, BatchFails, rows'.list = {}, db'.batch = Nil
  PROVE  CatPart' /\ Published(cat, cat', rows'.list)
<1>1. /\ cat \in Catalogues /\ CatInv(cat, rows.list) /\ (db.batch # Nil => Quiet(cat))
  BY CatOfInv
<1>2. db.batch # Nil /\ Quiet(cat)
  BY <1>1 DEF BatchFails
<1> DEFINE c == [cat EXCEPT !.fallback = TRUE]
           list == {}
           yes == TRUE
           d == Shown(c, list, yes)
<1>3. cat' = d /\ rows'.list = list /\ list \in SUBSET Keys /\ yes \in BOOLEAN
  BY DEF BatchFails
<1>4. CatInv(cat, list)
  BY <1>1, <1>2, QuietForAnyList
<1> HIDE DEF list, yes
<1>5. c \in Catalogues /\ CatInv(c, list) /\ SameFiles(cat, c)
  BY <1>1, <1>4, FallbackFacts
<1> HIDE DEF c
<1>6. d \in Catalogues /\ CatInv(d, list) /\ SameFiles(c, d)
  BY <1>3, <1>5, ShownFacts
<1> HIDE DEF d
<1>7. SameFiles(cat, cat')
  BY <1>3, <1>5, <1>6, SameFilesTransitive
<1>8. Published(cat, cat', rows'.list)
  BY <1>7, SameFilesPublished
<1> QED
  BY <1>3, <1>6, <1>8 DEF CatPart

LEMMA BatchWithoutSweepCat ==
  ASSUME RowsPart, UpdatePart, CatPart, BatchPublishesWithoutSweep, rows'.list = db.batch,
         db'.batch = Nil
  PROVE  CatPart' /\ Published(cat, cat', rows'.list)
<1>1. /\ cat \in Catalogues /\ CatInv(cat, rows.list) /\ (db.batch # Nil => Quiet(cat))
  BY CatOfInv
<1>2. db.batch # Nil /\ db.batch \in SUBSET Keys
  BY BatchIsThere DEF BatchPublishesWithoutSweep
<1> DEFINE list == db.batch
           c == LoadedInBatches(cat, list)
           timed == CacheTimerSet(c)
<1>3. PICK set \in BOOLEAN :
        cat' = Shown([(IF set THEN timed ELSE c) EXCEPT !.fallback = TRUE], list, FALSE)
  <2>1. PICK swept \in BOOLEAN, waits \in BOOLEAN :
          cat' = Shown([(IF waits \/ swept THEN timed ELSE c) EXCEPT !.fallback = TRUE], list, FALSE)
    BY DEF BatchPublishesWithoutSweep
  <2> QED
    BY <2>1
<1> DEFINE e == IF set THEN timed ELSE c
           f == [e EXCEPT !.fallback = TRUE]
           no == FALSE
           d == Shown(f, list, no)
<1>4. cat' = d /\ rows'.list = list /\ list \in SUBSET Keys /\ Quiet(cat) /\ no \in BOOLEAN
  BY <1>1, <1>2, <1>3
<1> HIDE DEF list, no
<1>5. c \in Catalogues /\ CatInv(c, list) /\ c.candidate = list /\ SameFiles(cat, c)
  BY <1>1, <1>4, LoadedInBatchesFacts
<1> HIDE DEF c
<1>6. timed \in Catalogues /\ CatInv(timed, list) /\ SameFiles(c, timed)
  BY <1>5, CacheTimerSetFacts
<1> HIDE DEF timed
<1>7. SameFiles(cat, timed)
  BY <1>5, <1>6, SameFilesTransitive
<1>8. e \in Catalogues /\ CatInv(e, list) /\ SameFiles(cat, e)
  BY <1>5, <1>6, <1>7
<1> HIDE DEF e
<1>9. f \in Catalogues /\ CatInv(f, list) /\ SameFiles(e, f)
  BY <1>8, FallbackFacts
<1> HIDE DEF f
<1>10. d \in Catalogues /\ CatInv(d, list) /\ SameFiles(f, d)
  BY <1>4, <1>9, ShownFacts
<1> HIDE DEF d
<1>11. SameFiles(cat, f)
  BY <1>8, <1>9, SameFilesTransitive
<1>12. SameFiles(cat, cat')
  BY <1>4, <1>10, <1>11, SameFilesTransitive
<1>13. Published(cat, cat', rows'.list)
  BY <1>12, SameFilesPublished
<1> QED
  BY <1>4, <1>10, <1>13 DEF CatPart

(***************************************************************************)
(* Every step keeps the invariant.                                         *)
(***************************************************************************)
LEMMA LoadStep ==
  ASSUME BrowserInv, NEW list \in SUBSET Keys, NEW how, Load(list, how), UNCHANGED <<refresh, loose>>,
         SweepLoaded(list, how) => UpdatePart' /\ db'.batch = Nil /\ db'.loads # db.loads
  PROVE  BrowserInv' /\ History
<1>1. RowsPart /\ CatPart /\ LivePart
  BY DEF BrowserInv
<1>2. /\ rows' \in Rows /\ RowsInv(rows') /\ rows'.list = list
      /\ sweep' \in Sweeps /\ SweepInv(sweep') /\ stale' \in SUBSET Keys
      /\ live' \in {live, LetGo(live)}
      /\ cat' \in Catalogues /\ CatInv(cat', list) /\ Published(cat, cat', list)
      /\ list = {} => sweep' = sweep
      /\ list # {} /\ how = "ok" => sweep'.current /\ (sweep'.revealed <=> WarmUp(list) = {})
      /\ list # {} /\ how # "ok" => ~sweep'.current
  BY <1>1, LoadFacts
<1>3. UpdatePart' /\ db'.batch = Nil /\ db'.loads # db.loads
  BY <1>2 DEF SweepLoaded
<1>4. RowsPart'
  BY <1>1, <1>2 DEF RowsPart
<1>5. LivePart'
  <2>1. loose' \in SUBSET LooseJobs
    BY <1>1 DEF LivePart
  <2> QED
    BY <2>1, <1>1, <1>2, LiveKept
<1>6. CatPart'
  BY <1>2, <1>3 DEF CatPart
<1>7. History
  BY <1>2, <1>3 DEF History
<1> QED
  BY <1>3, <1>4, <1>5, <1>6, <1>7 DEF BrowserInv

LEMMA StartFallsBackStep ==
  ASSUME BrowserInv, StartFallsBack
  PROVE  BrowserInv' /\ History
<1>1. UpdatePart
  BY DEF BrowserInv
<1> DEFINE list == db.answer.list
           how == "cached"
<1>2. list \in SUBSET Keys
  <2>1. db \in Databases /\ db.answer # Nil
    BY <1>1 DEF UpdatePart, StartFallsBack, Answering
  <2> QED
    BY <2>1, AnswerFields
<1>3. Load(list, how) /\ UNCHANGED <<refresh, loose>>
  BY DEF StartFallsBack
<1>4. SweepLoaded(list, how) => UpdatePart' /\ db'.batch = Nil /\ db'.loads # db.loads
  BY <1>1, StartFallsBackShown
<1> HIDE DEF list, how
<1> QED
  BY <1>2, <1>3, <1>4, LoadStep

LEMMA StartLoadsStep ==
  ASSUME BrowserInv, StartLoads
  PROVE  BrowserInv' /\ History
<1>1. UpdatePart
  BY DEF BrowserInv
<1> DEFINE list == db.answer.list
           how == "ok"
<1>2. list \in SUBSET Keys
  <2>1. db \in Databases /\ db.answer # Nil
    BY <1>1 DEF UpdatePart, StartLoads, Answering
  <2> QED
    BY <2>1, AnswerFields
<1>3. Load(list, how) /\ UNCHANGED <<refresh, loose>>
  BY DEF StartLoads
<1>4. SweepLoaded(list, how) => UpdatePart' /\ db'.batch = Nil /\ db'.loads # db.loads
  BY <1>1, StartLoadsShown
<1> HIDE DEF list, how
<1> QED
  BY <1>2, <1>3, <1>4, LoadStep

LEMMA UpdateLoadsStep ==
  ASSUME BrowserInv, UpdateLoads
  PROVE  BrowserInv' /\ History
<1>1. UpdatePart
  BY DEF BrowserInv
<1> DEFINE list == db.answer.list
           how == "ok"
<1>2. list \in SUBSET Keys
  <2>1. db \in Databases /\ db.answer # Nil
    BY <1>1 DEF UpdatePart, UpdateLoads, Answering
  <2> QED
    BY <2>1, AnswerFields
<1>3. Load(list, how) /\ UNCHANGED <<refresh, loose>>
  BY DEF UpdateLoads
<1>4. SweepLoaded(list, how) => UpdatePart' /\ db'.batch = Nil /\ db'.loads # db.loads
  BY <1>1, UpdateLoadsShown
<1> HIDE DEF list, how
<1> QED
  BY <1>2, <1>3, <1>4, LoadStep

(* A step that goes on with the same rows, or with answers about them. *)
LEMMA SameListStep ==
  ASSUME RowsKept, SameList, UpdatePart', LivePart', CatPart', Published(cat, cat', rows'.list)
  PROVE  BrowserInv' /\ History
BY DEF RowsKept, SameList, BrowserInv, RowsPart, History

LEMMA WatchdogStep ==
  ASSUME BrowserInv, Watchdog
  PROVE  BrowserInv' /\ History
<1>1. RowsPart /\ UpdatePart /\ LivePart /\ CatPart
  BY DEF BrowserInv
<1>2. CASE db.applied
  <2>1. db' = [db EXCEPT !.watchdog = FALSE]
        /\ UNCHANGED <<on, ui, rows, sweep, stale, live, cat, refresh, loose>>
    BY <1>2 DEF Watchdog
  <2>2. UpdatePart' /\ db'.batch = db.batch
    BY <1>1, <1>2, <2>1, WatchdogOverShown
  <2>3. RowsKept /\ SameList
    BY <1>1, <2>1, RowsUntouched
  <2>4. LivePart'
    BY <1>1, <2>1 DEF LivePart
  <2>5. rows'.list = rows.list
    BY <2>1
  <2>6. CatPart' /\ Published(cat, cat', rows'.list)
    BY <1>1, <2>1, <2>2, <2>5, CatUntouched
  <2> QED
    BY <2>2, <2>3, <2>4, <2>6, SameListStep
<1>3. CASE ~db.applied
  <2>1. PICK list \in {db.file, {}} :
          /\ db' = [db EXCEPT !.watchdog = FALSE, !.provisional = TRUE, !.loads = @ + 1]
          /\ Load(list, "provisional")
          /\ ui' = LoadedUi(list, "provisional")
    BY <1>3 DEF Watchdog
  <2>2. list \in SUBSET Keys
    BY <1>1, DbFields DEF UpdatePart
  <2>3. db.watchdog /\ UNCHANGED <<on, refresh, loose>>
    BY DEF Watchdog
  <2> DEFINE how == "provisional"
  <2>4. SweepLoaded(list, how) => UpdatePart' /\ db'.batch = Nil /\ db'.loads # db.loads
    BY <1>1, <1>3, <2>1, <2>3, WatchdogShown
  <2>5. Load(list, how)
    BY <2>1
  <2> HIDE DEF how
  <2> QED
    BY <2>2, <2>3, <2>4, <2>5, LoadStep
<1> QED
  BY <1>2, <1>3

LEMMA BatchPublishesStep ==
  ASSUME BrowserInv, BatchPublishes
  PROVE  BrowserInv' /\ History
<1>1. RowsPart /\ UpdatePart /\ LivePart /\ CatPart
  BY DEF BrowserInv
<1> DEFINE list == db.batch
           how == "ok"
<1>2. list \in SUBSET Keys /\ list # {}
  BY <1>1, BatchIsThere DEF BatchPublishes
<1>3. /\ rows' = LoadedRows(list, list \ Unreachable) /\ Swept(list, how)
      /\ live' \in {live, LetGo(live)} /\ UNCHANGED <<refresh, loose>> /\ how = "ok"
  BY DEF BatchPublishes
<1> HIDE DEF how
<1>4. rows' \in Rows /\ RowsInv(rows') /\ rows'.list = list
  <2>1. list \ Unreachable \in SUBSET Keys
    BY <1>2
  <2> QED
    BY <2>1, <1>2, <1>3, LoadedRowsTyped
<1>5. /\ sweep' \in Sweeps /\ SweepInv(sweep') /\ stale' \in SUBSET Keys
      /\ sweep'.current /\ (sweep'.revealed <=> WarmUp(list) = {})
  BY <1>1, <1>2, <1>3, SweptFacts
<1>6. UpdatePart' /\ db'.batch = Nil /\ db'.loads # db.loads
  BY <1>1, <1>5, BatchPublishesShown
<1>7. RowsPart'
  BY <1>1, <1>3, <1>4, <1>5 DEF RowsPart
<1>8. LivePart'
  <2>1. loose' \in SUBSET LooseJobs
    BY <1>1, <1>3 DEF LivePart
  <2> QED
    BY <2>1, <1>1, <1>3, LiveKept
<1>9. CatPart' /\ Published(cat, cat', rows'.list)
  BY <1>1, <1>4, <1>6, BatchPublishesCat
<1> QED
  BY <1>6, <1>7, <1>8, <1>9 DEF BrowserInv, History

LEMMA BatchFailsStep ==
  ASSUME BrowserInv, BatchFails
  PROVE  BrowserInv' /\ History
<1>1. RowsPart /\ UpdatePart /\ LivePart /\ CatPart
  BY DEF BrowserInv
<1> DEFINE list == {}
<1>2. /\ rows' = LoadedRows(list, list) /\ list \in SUBSET Keys
      /\ live' \in {live, LetGo(live)} /\ UNCHANGED <<sweep, stale, refresh, loose>>
  BY DEF BatchFails
<1> HIDE DEF list
<1>3. rows' \in Rows /\ RowsInv(rows') /\ rows'.list = list
  BY <1>2, LoadedRowsTyped
<1>4. UpdatePart' /\ db'.batch = Nil
  BY <1>1, BatchFailsShown
<1>5. RowsPart'
  BY <1>1, <1>2, <1>3 DEF RowsPart
<1>6. LivePart'
  <2>1. loose' \in SUBSET LooseJobs
    BY <1>1, <1>2 DEF LivePart
  <2> QED
    BY <2>1, <1>1, <1>2, LiveKept
<1>7. rows'.list = {}
  BY <1>3 DEF list
<1>8. CatPart' /\ Published(cat, cat', rows'.list)
  BY <1>1, <1>4, <1>7, BatchFailsCat
<1> QED
  BY <1>4, <1>5, <1>6, <1>7, <1>8 DEF BrowserInv, History

LEMMA BatchWithoutSweepStep ==
  ASSUME BrowserInv, BatchPublishesWithoutSweep
  PROVE  BrowserInv' /\ History
<1>1. RowsPart /\ UpdatePart /\ LivePart /\ CatPart
  BY DEF BrowserInv
<1> DEFINE list == db.batch
           none == {}
           started == Started(list, none)
<1>2. list \in SUBSET Keys /\ list # {} /\ none \in SUBSET Keys
  BY <1>1, BatchIsThere DEF BatchPublishesWithoutSweep
<1>3. started.asked \in SUBSET Keys
  <2>1. started \in Sweeps
    BY <1>2, StartedFacts
  <2> HIDE DEF started
  <2> QED
    BY <2>1, SweepFields
<1>4. /\ rows' = LoadedRows(list, list \ Unreachable) /\ sweep' = NoSweep
      /\ live' \in {live, LetGo(live)} /\ UNCHANGED <<refresh, loose>>
  BY DEF BatchPublishesWithoutSweep
<1>5. stale' \in SUBSET Keys
  <2>1. PICK swept \in BOOLEAN : stale' = stale \union IF swept THEN started.asked ELSE {}
    BY DEF BatchPublishesWithoutSweep
  <2> HIDE DEF started
  <2>2. stale \in SUBSET Keys
    BY <1>1 DEF RowsPart
  <2> QED
    BY <2>1, <2>2, <1>3
<1>6. rows' \in Rows /\ RowsInv(rows') /\ rows'.list = list
  <2>1. list \ Unreachable \in SUBSET Keys
    BY <1>2
  <2> QED
    BY <2>1, <1>2, <1>4, LoadedRowsTyped
<1>7. UpdatePart' /\ db'.batch = Nil /\ db'.loads # db.loads
  BY <1>1, BatchWithoutSweepShown
<1>8. RowsPart'
  BY <1>1, <1>4, <1>5, <1>6, NoSweepFacts DEF RowsPart
<1>9. LivePart'
  <2>1. loose' \in SUBSET LooseJobs
    BY <1>1, <1>4 DEF LivePart
  <2> QED
    BY <2>1, <1>1, <1>4, LiveKept
<1>10. CatPart' /\ Published(cat, cat', rows'.list)
  BY <1>1, <1>6, <1>7, BatchWithoutSweepCat
<1> QED
  BY <1>7, <1>8, <1>9, <1>10 DEF BrowserInv, History

LEMMA UpdateStep ==
  ASSUME BrowserInv, Update
  PROVE  BrowserInv' /\ History
<1>1. RowsPart /\ UpdatePart /\ LivePart /\ CatPart
  BY DEF BrowserInv
<1>2. CASE FetchEnds
  <2>1. UpdatePart' /\ UNCHANGED <<rows, sweep, stale, refresh, live, loose, cat>>
    BY <1>1, <1>2, FetchEndsShown DEF FetchEnds
  <2>2. db'.batch = db.batch
    BY <1>1, <1>2 DEF FetchEnds, UpdatePart, Databases
  <2>3. RowsKept /\ SameList /\ LivePart' /\ rows'.list = rows.list
    BY <1>1, <2>1, RowsUntouched DEF LivePart
  <2>4. CatPart' /\ Published(cat, cat', rows'.list)
    BY <1>1, <2>1, <2>2, <2>3, CatUntouched
  <2> QED
    BY <2>1, <2>3, <2>4, SameListStep
<1>3. CASE StartKeepsProvisional
  <2>1. UpdatePart' /\ UNCHANGED <<rows, sweep, stale, refresh, live, loose>>
    BY <1>1, <1>3, StartKeepsProvisionalShown DEF StartKeepsProvisional
  <2>2. RowsKept /\ SameList /\ LivePart'
    BY <1>1, <2>1, RowsUntouched DEF LivePart
  <2>3. CatPart' /\ Published(cat, cat', rows'.list)
    BY <1>1, <1>3, StartKeepsProvisionalCat
  <2> QED
    BY <2>1, <2>2, <2>3, SameListStep
<1>4. CASE StartBatches
  <2>1. UpdatePart' /\ UNCHANGED <<rows, sweep, stale, refresh, live, loose>>
    BY <1>1, <1>4, StartBatchesShown DEF StartBatches
  <2>2. RowsKept /\ SameList /\ LivePart'
    BY <1>1, <2>1, RowsUntouched DEF LivePart
  <2>3. CatPart' /\ Published(cat, cat', rows'.list)
    BY <1>1, <1>4, StartBatchesCat
  <2> QED
    BY <2>1, <2>2, <2>3, SameListStep
<1>5. CASE UpdateRefused \/ UpdateBegins \/ UpdateFails
  <2>1. UpdatePart' /\ db'.batch = db.batch
    BY <1>1, <1>5, UserUpdateShown
  <2>2. UNCHANGED <<rows, sweep, stale, refresh, loose, cat>> /\ live' \in {live, LetGo(live)}
    BY <1>5 DEF UpdateRefused, UpdateBegins, UpdateFails
  <2>2a. loose' \in SUBSET LooseJobs
    BY <1>1, <2>2 DEF LivePart
  <2>2b. LivePart'
    BY <1>1, <2>2, <2>2a, LiveKept
  <2>3. RowsKept /\ SameList /\ LivePart' /\ rows'.list = rows.list
    BY <1>1, <2>2, <2>2b, RowsUntouched
  <2>4. CatPart' /\ Published(cat, cat', rows'.list)
    BY <1>1, <2>1, <2>2, <2>3, CatUntouched
  <2> QED
    BY <2>1, <2>3, <2>4, SameListStep
<1>6. CASE StartFallsBack
  BY <1>6, StartFallsBackStep
<1>7. CASE StartLoads
  BY <1>7, StartLoadsStep
<1>8. CASE BatchPublishes
  BY <1>8, BatchPublishesStep
<1>9. CASE BatchFails
  BY <1>9, BatchFailsStep
<1>10. CASE BatchPublishesWithoutSweep
  BY <1>10, BatchWithoutSweepStep
<1>11. CASE Watchdog
  BY <1>11, WatchdogStep
<1>12. CASE UpdateLoads
  BY <1>12, UpdateLoadsStep
<1> QED
  BY <1>2, <1>3, <1>4, <1>5, <1>6, <1>7, <1>8, <1>9, <1>10, <1>11, <1>12 DEF Update

(* A step of which only the rows and the refresh of the visible rows know. *)
LEMMA QuietStep ==
  ASSUME BrowserInv, RowsKept, SameList, LivePart', UNCHANGED <<on, db, ui, cat>>,
         sweep'.current = sweep.current, sweep'.revealed = sweep.revealed
  PROVE  BrowserInv' /\ History
<1>1. UpdatePart'
  BY UpdateKept DEF BrowserInv
<1>2. rows'.list = rows.list /\ db'.batch = db.batch
  BY DEF SameList
<1>3. CatPart' /\ Published(cat, cat', rows'.list)
  BY <1>2, CatUntouched DEF BrowserInv
<1> QED
  BY <1>1, <1>3, SameListStep

LEMMA ShowsStep ==
  ASSUME BrowserInv, RowsKept, SameList, NEW now, Shows(now), UNCHANGED <<on, db, loose>>,
         sweep.current, sweep'.current, now <=> sweep'.revealed,
         ~sweep'.revealed => ~sweep.revealed
  PROVE  BrowserInv' /\ History
<1>1. RowsPart /\ UpdatePart /\ LivePart /\ CatPart
  BY DEF BrowserInv
<1>2. rows'.list = rows.list /\ db' = db /\ sweep' \in Sweeps
  BY DEF SameList, RowsKept
<1>3. CatPart' /\ Published(cat, cat', rows'.list)
  BY <1>1, <1>2, ShowsCat
<1>4. sweep.revealed \in BOOLEAN /\ sweep'.revealed \in BOOLEAN
      /\ sweep.current \in BOOLEAN /\ sweep'.current \in BOOLEAN
  BY <1>1, <1>2, SweepFields DEF RowsPart
<1>5. loose' \in SUBSET LooseJobs
  BY <1>1 DEF LivePart
<1>6. CASE now /\ ~sweep.revealed
  <2>1. ui' = RevealedUi(ui) /\ live' \in {live, LetGo(live)}
    BY <1>6 DEF Shows
  <2>2. UpdatePart'
    BY <1>1, <2>1, RevealedShown
  <2>3. LivePart'
    BY <1>1, <1>5, <2>1, LiveKept
  <2> QED
    BY <1>3, <2>2, <2>3, SameListStep
<1>7. CASE ~(now /\ ~sweep.revealed)
  <2>1. UNCHANGED <<ui, live>>
    BY <1>7 DEF Shows
  <2>2. sweep'.current = sweep.current /\ sweep'.revealed = sweep.revealed
    BY <1>4, <1>7
  <2>3. UpdatePart'
    BY <1>1, <2>1, <2>2, UpdateKept
  <2>4. LivePart'
    BY <1>1, <1>5, <2>1, LiveKept
  <2> QED
    BY <1>3, <2>3, <2>4, SameListStep
<1> QED
  BY <1>6, <1>7

LEMMA SweepingStep ==
  ASSUME BrowserInv, Sweeping
  PROVE  BrowserInv' /\ History
<1>1. RowsPart /\ UpdatePart /\ LivePart /\ CatPart
  BY DEF BrowserInv
<1>2. CASE SweepAnswers
  <2>1. /\ RowsKept /\ SameList
        /\ sweep.current /\ sweep'.current /\ (~sweep'.revealed => ~sweep.revealed)
    BY <1>1, <1>2, SweepAnswersRows
  <2> DEFINE now == sweep'.revealed
  <2>2. Shows(now) /\ UNCHANGED <<on, db, loose>> /\ (now <=> sweep'.revealed)
    BY <1>2 DEF SweepAnswers
  <2> HIDE DEF now
  <2> QED
    BY <2>1, <2>2, ShowsStep
<1>3. CASE WarmUpTimeout
  <2>1. RowsKept /\ SameList /\ sweep'.current /\ sweep'.revealed
    BY <1>1, <1>3, WarmUpTimeoutRows
  <2> DEFINE now == TRUE
  <2>2. Shows(now) /\ UNCHANGED <<on, db, loose>> /\ now /\ sweep.current
    BY <1>3 DEF WarmUpTimeout
  <2> HIDE DEF now
  <2> QED
    BY <2>1, <2>2, ShowsStep
<1>4. CASE SweepFlushes
  <2>1. RowsKept /\ SameList /\ sweep'.current = sweep.current /\ sweep'.revealed = sweep.revealed
    BY <1>1, <1>4, SweepFlushesRows
  <2>2. UNCHANGED <<on, db, ui, cat, live, loose>>
    BY <1>4 DEF SweepFlushes
  <2> QED
    BY <1>1, <2>1, <2>2, QuietStep DEF LivePart
<1>5. CASE StaleSweepAnswer \/ RefreshBegins \/ RefreshAnswers \/ RefreshFlushes
  <2>1. RowsKept /\ SameList
    BY <1>1, <1>5, StaleSweepAnswerRows, RefreshBeginsRows, RefreshAnswersRows, RefreshFlushesRows
  <2>2. UNCHANGED <<on, db, ui, cat, live, loose, sweep>>
    BY <1>5 DEF StaleSweepAnswer, RefreshBegins, RefreshAnswers, RefreshFlushes
  <2> QED
    BY <1>1, <2>1, <2>2, QuietStep DEF LivePart
<1> QED
  BY <1>2, <1>3, <1>4, <1>5 DEF Sweeping

LEMMA WatchingStep ==
  ASSUME BrowserInv, Watching
  PROVE  BrowserInv' /\ History
<1>1. RowsPart /\ UpdatePart /\ LivePart /\ CatPart
  BY DEF BrowserInv
<1>2. CASE BrowserTick
  <2>1. PICK resting \in BOOLEAN : Tick(resting)
    BY <1>2 DEF BrowserTick
  <2>2. UNCHANGED <<on, db, ui, rows, sweep, stale, refresh>>
    BY <2>1 DEF Tick
  <2>3. RowsKept /\ SameList
    BY <1>1, <2>2, RowsUntouched
  <2>4. UpdatePart'
    BY <1>1, <2>2, UpdateKept
  <2>5. LivePart'
    BY <1>1, <2>1, TickLive
  <2>6. CatPart' /\ Published(cat, cat', rows'.list)
    BY <1>1, <2>1, TickCat
  <2> QED
    BY <2>3, <2>4, <2>5, <2>6, SameListStep
<1>3. CASE TickAnswers
  <2>1. RowsKept /\ SameList /\ LivePart'
    BY <1>1, <1>3, TickAnswersRows, TickAnswersLive
  <2>2. UNCHANGED <<on, db, ui, cat, sweep>>
    BY <1>3 DEF TickAnswers
  <2> QED
    BY <2>1, <2>2, QuietStep
<1>4. CASE DragBegins
  <2>1. UNCHANGED <<on, db, ui, cat, rows, sweep, stale, refresh>>
    BY <1>4 DEF DragBegins
  <2>2. RowsKept /\ SameList /\ LivePart'
    BY <1>1, <1>4, <2>1, RowsUntouched, DragLive
  <2> QED
    BY <2>1, <2>2, QuietStep
<1>5. CASE DragEnds
  <2>1. RowsKept /\ SameList /\ LivePart'
    BY <1>1, <1>5, DragEndsRows, DragLive
  <2>2. UNCHANGED <<on, db, ui, cat, sweep>>
    BY <1>5 DEF DragEnds
  <2> QED
    BY <2>1, <2>2, QuietStep
<1>6. CASE Scrolls
  <2>1. UNCHANGED <<on, db, ui, cat, rows, sweep, stale, refresh>>
        /\ live' = LetGo(live) /\ loose' \in SUBSET LooseJobs
    BY <1>1, <1>6 DEF Scrolls, LivePart
  <2>2. RowsKept /\ SameList /\ LivePart'
    BY <1>1, <2>1, RowsUntouched, LiveKept
  <2> QED
    BY <2>1, <2>2, QuietStep
<1>7. CASE OfflineRecheck \/ RefreshRow
  <2>1. PICK why \in {"recheck", "row"}, keys \in SUBSET rows.list : Asks(why, keys)
    <3>1. CASE OfflineRecheck
      BY <3>1 DEF OfflineRecheck
    <3>2. CASE RefreshRow
      <4>1. PICK k \in rows.list : Asks("row", {k})
        BY <3>2 DEF RefreshRow
      <4> QED
        BY <4>1
    <3> QED
      BY <1>7, <3>1, <3>2
  <2>2. keys \in SUBSET Keys
    BY <1>1, RowFields DEF RowsPart
  <2>3. UNCHANGED <<on, db, ui, cat, rows, sweep, stale, refresh>>
    BY <2>1 DEF Asks
  <2>4. RowsKept /\ SameList /\ LivePart'
    BY <1>1, <2>1, <2>2, <2>3, RowsUntouched, AsksLive
  <2> QED
    BY <2>3, <2>4, QuietStep
<1>8. CASE LooseAnswers
  <2>1. RowsKept /\ SameList
    BY <1>1, <1>8, LooseAnswersRows
  <2>2. UNCHANGED <<on, db, ui, cat, sweep>>
    BY <1>8 DEF LooseAnswers
  <2>3. live' \in {live, LetGo(live)} /\ loose' \in SUBSET LooseJobs
    BY <1>1, <1>8 DEF LooseAnswers, LivePart
  <2>4. LivePart'
    BY <1>1, <2>3, LiveKept
  <2> QED
    BY <2>1, <2>2, <2>4, QuietStep
<1> QED
  BY <1>2, <1>3, <1>4, <1>5, <1>6, <1>7, <1>8 DEF Watching

LEMMA CataloguingStep ==
  ASSUME BrowserInv, Cataloguing
  PROVE  BrowserInv' /\ History
<1>1. RowsPart /\ UpdatePart /\ LivePart /\ CatPart
  BY DEF BrowserInv
<1>2. UNCHANGED <<on, db, ui, rows, sweep, stale, refresh, live, loose>>
  BY DEF Cataloguing, WorkerRuns, JobEnds, CacheTimer
<1>3. RowsKept /\ SameList
  BY <1>1, <1>2, RowsUntouched
<1>4. UpdatePart'
  BY <1>1, <1>2, UpdateKept
<1>5. LivePart'
  BY <1>1, <1>2 DEF LivePart
<1>6. CatPart' /\ Published(cat, cat', rows'.list)
  BY <1>1, WorkerRunsCat, JobEndsCat, CacheTimerCat DEF Cataloguing
<1> QED
  BY <1>3, <1>4, <1>5, <1>6, SameListStep

LEMMA NoFileIsAFile == NoFile \in Files
<1> DEFINE no == FALSE
<1>1. no \in BOOLEAN /\ NoFile = [format |-> 0, list |-> {}, old |-> no]
  BY DEF NoFile
<1> HIDE DEF no
<1> QED
  BY <1>1 DEF Files

LEMMA ListInitEstablishes == ListInit => BrowserInv
<1> SUFFICES ASSUME ListInit PROVE BrowserInv
  OBVIOUS
<1> DEFINE yes == TRUE
           no == FALSE
           zero == 0
           none == {}
<1>1. yes \in BOOLEAN /\ no \in BOOLEAN /\ yes /\ ~no /\ zero \in Nat /\ zero \in 0..MaxUpdates
      /\ none \in SUBSET Keys
  BY BrowserAssumption
<1>2. Nil # {} /\ Nil \in {Nil} \union Fetched /\ Nil \in {Nil} \union SUBSET Keys
      /\ Nil \in {Nil} \union LiveJobs /\ Nil \in {Nil} \union Deferrals
  BY BrowserAssumption
<1>3. PICK file \in SUBSET Keys :
        db = [inflight |-> yes, fetch |-> "start", answer |-> Nil, file |-> file,
              watchdog |-> yes, applied |-> no, provisional |-> no, batch |-> Nil,
              loads |-> zero, updates |-> zero, rechecks |-> zero]
  <2>1. Lists \union {{}} \subseteq SUBSET Keys
    BY BrowserAssumption
  <2> QED
    BY <2>1 DEF ListInit
<1>4. /\ ui = [dimmed |-> yes, nudged |-> no, started |-> no]
      /\ rows = NoRows /\ sweep = NoSweep /\ refresh = NoSweep /\ stale = {} /\ loose = {}
      /\ live = [inflight |-> no, job |-> Nil, deferred |-> Nil, drag |-> no]
      /\ on \in Scenarios
  BY DEF ListInit, NoLive
<1>5. PICK f \in Files, persisted \in SUBSET Keys : cat = Unread(f, persisted)
  <2>1. CASE "catalogue" \in on
    <3>1. PICK format \in 0..2, old \in BOOLEAN :
            cat = Unread(IF format = 0 THEN NoFile
                         ELSE [format |-> format, list |-> {}, old |-> old], {})
      BY <2>1 DEF ListInit
    <3>2. NoFile \in Files
      BY NoFileIsAFile
    <3>3. [format |-> format, list |-> {}, old |-> old] \in Files
      BY DEF Files
    <3> QED
      BY <3>1, <3>2, <3>3
  <2>2. CASE "catalogue" \notin on
    <3>1. PICK cached \in {{}, db.file} : cat = Unread([format |-> 2, list |-> {}, old |-> FALSE], cached)
      BY <2>2 DEF ListInit
    <3>2. [format |-> 2, list |-> {}, old |-> no] \in Files
      BY <1>1 DEF Files
    <3>3. db.file = file
      BY <1>3
    <3> QED
      BY <3>1, <3>2, <3>3
  <2> QED
    BY <2>1, <2>2
<1> DEFINE c == [gen |-> zero, ready |-> no, expired |-> no, migrate |-> no, index |-> none,
                 disk |-> f, sweepDone |-> no, fallback |-> no, pending |-> no, allowed |-> no,
                 restoring |-> no, restoreGen |-> zero, refreshing |-> no, migrating |-> no,
                 cacheGen |-> zero, candidate |-> none, persisted |-> persisted,
                 timers |-> none, jobs |-> <<>>]
<1>6. cat = c
  BY <1>5 DEF Unread
<1>7. none \in SUBSET Nat /\ <<>> \in Seq(Jobs)
  OBVIOUS
<1> HIDE DEF yes, no, zero, none
<1>8. c \in Catalogues
  BY <1>1, <1>7 DEF Catalogues
<1>9. c.jobs = <<>> /\ c.timers = none /\ c.gen = zero /\ c.cacheGen = zero /\ ~c.refreshing
      /\ ~c.migrating /\ ~c.restoring /\ ~c.migrate /\ ~c.ready
  BY <1>1
<1> HIDE DEF c
<1>10. CatInv(c, rows.list)
  <2>1. \A i \in 1..Len(c.jobs) : FALSE
    BY <1>9
  <2>2. JobsOK(c, rows.list) /\ NoRivals(c)
    BY <2>1 DEF JobsOK, NoRivals
  <2>3. FlagsBacked(c) /\ OnDisk(c)
    BY <1>9 DEF FlagsBacked, OnDisk
  <2>4. TimersOK(c, rows.list)
    BY <1>9 DEF TimersOK, none
  <2> QED
    BY <1>9, <2>2, <2>3, <2>4 DEF CatInv
<1>11. db.batch = Nil
  BY <1>3
<1>12. CatPart
  BY <1>6, <1>8, <1>10, <1>11 DEF CatPart
<1>13. LivePart
  <2>1. live \in Lives /\ ~live.inflight /\ live.job = Nil /\ live.deferred = Nil
    BY <1>1, <1>2, <1>4 DEF Lives
  <2> QED
    BY <1>4, <2>1 DEF LivePart
<1>14. RowsPart
  <2>1. rows \in Rows /\ RowsInv(rows)
    <3>1. NoRows = LoadedRows({}, {})
      BY DEF NoRows, LoadedRows
    <3>2. {} \in SUBSET Keys
      OBVIOUS
    <3> QED
      BY <1>4, <3>1, <3>2, LoadedRowsTyped
  <2>2. stale \in SUBSET Keys
    BY <1>4
  <2> QED
    BY <1>4, <2>1, <2>2, NoSweepFacts DEF RowsPart
<1>15. UpdatePart
  <2>1. db \in Databases
    BY <1>1, <1>2, <1>3 DEF Databases
  <2>2. db.inflight /\ db.fetch = "start" /\ db.answer = Nil /\ db.watchdog /\ ~db.applied
        /\ ~db.provisional
    BY <1>1, <1>3
  <2>3. ui \in Uis /\ ui.dimmed /\ ~ui.started
    BY <1>1, <1>4 DEF Uis
  <2>4. UpdateInv
    BY <1>2, <1>11, <2>2 DEF UpdateInv
  <2>5. ShownInv
    BY <1>4, <1>11, <2>2, <2>3, NoSweepFacts DEF ShownInv
  <2> QED
    BY <1>4, <2>1, <2>3, <2>4, <2>5 DEF UpdatePart
<1> QED
  BY <1>12, <1>13, <1>14, <1>15 DEF BrowserInv

LEMMA BrowserStep ==
  ASSUME BrowserInv, [ListNext]_listVars
  PROVE  BrowserInv' /\ History
<1>1. CASE ListNext
  BY <1>1, UpdateStep, SweepingStep, WatchingStep, CataloguingStep DEF ListNext
<1>2. CASE UNCHANGED listVars
  <2>1. UNCHANGED <<on, db, ui, rows, sweep, stale, refresh, live, loose, cat>>
    BY <1>2 DEF listVars
  <2>2. RowsKept /\ SameList
    BY <2>1, RowsUntouched DEF BrowserInv
  <2>3. LivePart'
    BY <2>1 DEF BrowserInv, LivePart
  <2>4. sweep'.current = sweep.current /\ sweep'.revealed = sweep.revealed
    BY <2>1
  <2> QED
    BY <2>1, <2>2, <2>3, <2>4, QuietStep
<1> QED
  BY <1>1, <1>2

LEMMA BrowserAlways == ListSpec => []BrowserInv
<1>1. BrowserInv /\ [ListNext]_listVars => BrowserInv'
  BY BrowserStep
<1> QED
  BY ListInitEstablishes, <1>1, PTL DEF ListSpec

(* The variables of the server list keep their types. *)
THEOREM ListTypeCorrect == ListSpec => []ListTypeOK
BY BrowserAlways, InvIsTyped, PTL

(* The list is dimmed only for a reason that comes to an end, and until it is
   showing for the first time something is armed that will show it. *)
THEOREM ListIsShown == ListSpec => []ListWillBeShown
<1>1. BrowserInv => ListWillBeShown
  <2> SUFFICES ASSUME BrowserInv PROVE ListWillBeShown
    OBVIOUS
  <2>1. UpdateInv /\ ShownInv /\ SweepInv(sweep)
    BY DEF BrowserInv, UpdatePart, RowsPart
  <2>2. ~ui.started => \/ db.watchdog
                       \/ db.batch # Nil
                       \/ sweep.current /\ ~sweep.revealed /\ sweep.timer
    BY <2>1 DEF ShownInv, SweepInv
  <2> QED
    BY <2>1, <2>2 DEF ListWillBeShown, ShownInv
<1> QED
  BY <1>1, BrowserAlways, PTL

(* A sweep neither loses a server nor counts one twice, and goes on until it is
   done. *)
THEOREM SweepsAreComplete == ListSpec => []SweepsAccount
<1>1. ASSUME NEW s, SweepInv(s) PROVE Accounted(s)
  BY <1>1 DEF SweepInv, Balanced, Ended, Accounted
<1>2. BrowserInv => SweepsAccount
  BY <1>1 DEF BrowserInv, RowsPart, SweepsAccount
<1> QED
  BY <1>2, BrowserAlways, PTL

(* A row goes offline only by an answer that follows an unanswered query about
   that row of that list. *)
THEOREM RowsSurviveOneFailure == ListSpec => OfflineNeedsTwoFailures
<1>1. BrowserInv /\ [ListNext]_listVars =>
        (db'.loads = db.loads =>
           \A k \in rows.list : k \in rows.online /\ k \notin rows'.online
                                => k \in rows.missed \/ rows'.list = {})
  BY BrowserStep DEF History, NoneLostAtOnce
<1> QED
  BY <1>1, BrowserAlways, PTL DEF ListSpec, OfflineNeedsTwoFailures

(* Every flag that keeps a second job from being started has a job that will
   lower it. *)
THEOREM FlagsAreLowered == ListSpec => []FlagsHaveTheirJobs
<1>1. BrowserInv => FlagsHaveTheirJobs
  <2> SUFFICES ASSUME BrowserInv PROVE FlagsHaveTheirJobs
    OBVIOUS
  <2>1. cat \in Catalogues /\ JobsOK(cat, rows.list) /\ FlagsBacked(cat)
    BY DEF BrowserInv, CatPart, CatInv
  <2>2. DOMAIN cat.jobs = 1..Len(cat.jobs)
    BY <2>1, CatFields
  <2>3. cat.refreshing <=> Outstanding("refresh") # {}
    BY <2>1, <2>2, KindsDiffer DEF JobsOK, JobOK, FlagsBacked, Outstanding
  <2>4. cat.migrating <=> Outstanding("migrate") # {}
    BY <2>1, <2>2, KindsDiffer DEF JobsOK, JobOK, FlagsBacked, Outstanding
  <2>5. cat.restoring <=> \E i \in Outstanding("restore") : cat.jobs[i].gen = cat.gen
    BY <2>1, <2>2, KindsDiffer DEF JobsOK, JobOK, FlagsBacked, Outstanding
  <2>6. db.inflight <=> (db.fetch # "none" \/ db.answer # Nil \/ db.batch # Nil)
    BY DEF BrowserInv, UpdatePart, UpdateInv
  <2>7. live.inflight <=> live.job # Nil
    BY DEF BrowserInv, LivePart
  <2> QED
    BY <2>3, <2>4, <2>5, <2>6, <2>7 DEF FlagsHaveTheirJobs
<1> QED
  BY <1>1, BrowserAlways, PTL

(* The catalogue in use is the one on disk or will be written, and a file is
   only replaced by what was made of the list in the window. *)
THEOREM FilesFollowTheList == ListSpec => CatalogueFollowsList
<1>1. BrowserInv => (cat.ready => \/ cat.migrate \/ cat.expired
                                  \/ cat.disk.format = 2 /\ cat.disk.list = cat.index)
  BY DEF BrowserInv, CatPart, CatInv, OnDisk
<1>2. BrowserInv /\ [ListNext]_listVars =>
        /\ cat'.disk # cat.disk => /\ cat'.disk.list = cat'.index
                                   /\ cat'.disk.list = rows'.list \/ cat'.index = cat.index
        /\ cat'.persisted # cat.persisted => cat'.persisted = rows'.list
  BY BrowserStep DEF History, Published
<1> QED
  BY <1>1, <1>2, BrowserAlways, PTL DEF ListSpec, CatalogueFollowsList

=============================================================================
