----------------------------- MODULE LiveStatus -----------------------------
(***************************************************************************)
(* The rows of the server list and the two sweeps that ask every server of *)
(* the list for its status (window.py: the sweep after an update of the    *)
(* server database, with its warm-up and reveal, and the status refresh    *)
(* the user starts).  Everything here is an operator on values; the module *)
(* ServerBrowser holds the state and the actions.                          *)
(*                                                                         *)
(* A row is online or offline and has a streak of unanswered queries.  An  *)
(* answer is "ok", "fail" or "neutral" (the server lives but does not say  *)
(* how it is).  Players, ping and times are left out.                      *)
(***************************************************************************)
EXTENDS Naturals, FiniteSets, Sequences

CONSTANTS
  NumServers,   \* endpoints, numbered from the most popular on
  Workers,      \* STARTUP_LIVE_REST_WORKERS: queries of one sweep at a time
  FlushMax,     \* STARTUP_LIVE_FLUSH_MAX: answers applied together
  NumPopular,   \* those of rank 1000 or better
  WarmPercent   \* share of the warm-up cohort that reveals the list

ASSUME SweepAssumption ==
  /\ NumServers \in Nat /\ NumPopular \in 0..NumServers
  /\ Workers \in Nat \ {0} /\ FlushMax \in Nat \ {0} /\ WarmPercent \in 1..100

Keys == 1..NumServers
Popular == 1..NumPopular

Answers == {"ok", "fail", "neutral"}
Reply == Keys \X Answers

(***************************************************************************)
(* Rows.  "missed" is history: the last answer about this row of this list *)
(* was a failure.                                                          *)
(***************************************************************************)
Rows == [list: SUBSET Keys, online: SUBSET Keys, streak: [Keys -> 0..2], missed: SUBSET Keys]

NoRows == [list |-> {}, online |-> {}, streak |-> [k \in Keys |-> 0], missed |-> {}]

\* A new list: what the database says of each server, no streaks.
LoadedRows(list, online) ==
  [list |-> list, online |-> online, streak |-> [k \in Keys |-> 0], missed |-> {}]

\* One more answer about k is missing.
Failed(rows, k) ==
  LET streak == IF rows.streak[k] = 2 THEN 2 ELSE rows.streak[k] + 1
      keeps == k \in rows.online /\ streak < 2
  IN [rows EXCEPT !.online = IF keeps THEN @ ELSE @ \ {k},
                  !.streak[k] = streak, !.missed = @ \union {k}]

\* Mutation: an answer does not end the streak.
HeardKeepingStreak(rows, answer) ==
  LET k == answer[1]
  IN CASE k \notin rows.list \/ answer[2] = "neutral" -> rows
       [] k \in rows.list /\ answer[2] = "ok" ->
            [rows EXCEPT !.online = @ \union {k}, !.missed = @ \ {k}]
       [] k \in rows.list /\ answer[2] = "fail" -> Failed(rows, k)

\* One answer is applied; rows that have left the list are skipped.
Heard(rows, answer) ==
  LET k == answer[1]
  IN CASE k \notin rows.list \/ answer[2] = "neutral" -> rows
       [] k \in rows.list /\ answer[2] = "ok" ->
            [rows EXCEPT !.online = @ \union {k}, !.streak[k] = 0, !.missed = @ \ {k}]
       [] k \in rows.list /\ answer[2] = "fail" -> Failed(rows, k)

\* A list is gone through in the order of popularity.
Ordered(list) ==
  CHOOSE queue \in [1..Cardinality(list) -> list] :
    \A i, j \in 1..Cardinality(list) : i < j => queue[i] < queue[j]

HeardAll(rows, answers) ==
  LET after[n \in 0..Len(answers)] ==
        IF n = 0 THEN rows ELSE Heard(after[n - 1], answers[n])
  IN after[Len(answers)]

(***************************************************************************)
(* A sweep: the queue of servers to ask, the queries under way (the        *)
(* code's counter and, beside it, whose they are), the answers not yet     *)
(* applied and, for the sweep after an update, the warm-up: the servers    *)
(* whose answers are waited for before the list is shown.  The timer that  *)
(* applies the buffered answers runs whenever there are any.  A sweep that *)
(* a newer list supersedes is not "current" any more: that is the          *)
(* comparison of generations in every callback.                            *)
(***************************************************************************)
Sweeps == [current: BOOLEAN, queue: Seq(Keys), inflight: Nat, asked: SUBSET Keys,
           buffer: Seq(Reply), total: Nat, completed: Nat, warm: SUBSET Keys, warmed: Nat,
           target: Nat, timer: BOOLEAN, revealed: BOOLEAN, done: BOOLEAN]

NoSweep == [current |-> FALSE, queue |-> <<>>, inflight |-> 0, asked |-> {}, buffer |-> <<>>,
            total |-> 0, completed |-> 0, warm |-> {}, warmed |-> 0, target |-> 0,
            timer |-> FALSE, revealed |-> TRUE, done |-> TRUE]

\* The free workers take servers from the queue; one that has left the list is
\* only counted.
Present(queue, n, list) == {queue[i] : i \in 1..n} \intersect list

Taken(s, list) ==
  LET enough(n) == \/ n = Len(s.queue)
                   \/ Cardinality(Present(s.queue, n, list)) = Workers - s.inflight
  IN CHOOSE n \in 0..Len(s.queue) : enough(n) /\ \A m \in 0..n - 1 : ~enough(m)

\* Mutation: servers that have left the list are not counted.
PumpedUncounted(s, list) ==
  LET n == Taken(s, list)
      asks == Present(s.queue, n, list)
  IN [s EXCEPT !.queue = SubSeq(@, n + 1, Len(@)), !.inflight = @ + Cardinality(asks),
               !.asked = @ \union asks]

Pumped(s, list) ==
  LET n == Taken(s, list)
      asks == Present(s.queue, n, list)
  IN [s EXCEPT !.queue = SubSeq(@, n + 1, Len(@)), !.inflight = @ + Cardinality(asks),
               !.asked = @ \union asks, !.completed = @ + (n - Cardinality(asks))]

\* The list is shown, with the answers so far.
Revealed(s) == [s EXCEPT !.buffer = <<>>, !.revealed = TRUE, !.timer = FALSE]

\* Nothing is left to ask: what is left is applied and the list is shown.
Finished(s) ==
  IF s.inflight = 0 /\ s.queue = <<>> THEN [Revealed(s) EXCEPT !.done = TRUE] ELSE s

Started(list, warm) ==
  Pumped([NoSweep EXCEPT !.current = TRUE, !.queue = Ordered(list), !.total = Cardinality(list),
                         !.warm = warm, !.target = (Cardinality(warm) * WarmPercent + 99) \div 100,
                         !.timer = warm # {}, !.revealed = warm = {}, !.done = FALSE],
         list)

\* An answer has come: it waits in the buffer until the buffer is full, the
\* warm-up or the sweep is over or the timer fires.
Counted(s, answer) ==
  [s EXCEPT !.inflight = @ - 1, !.asked = @ \ {answer[1]}, !.completed = @ + 1,
            !.buffer = Append(@, answer),
            !.warmed = IF answer[1] \in s.warm THEN @ + 1 ELSE @]

Answered(s, answer, list) ==
  LET c == Counted(s, answer)
      f == IF Len(c.buffer) >= FlushMax THEN [c EXCEPT !.buffer = <<>>] ELSE c
      w == IF ~f.revealed /\ f.warmed >= f.target THEN Revealed(f) ELSE f
  IN Finished(Pumped(w, list))

\* The answers that the step from s to t applied: all that waited, or none.
AppliedBy(s, t, answer) == IF t.buffer = <<>> THEN Append(s.buffer, answer) ELSE <<>>
=============================================================================
