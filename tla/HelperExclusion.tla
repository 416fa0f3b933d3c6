--------------------------- MODULE HelperExclusion ---------------------------
(***************************************************************************)
(* What the preparation gate promises the rest of the launcher: DZLL's own *)
(* Steam UGC helper process exists at most once, whoever asked for it, and *)
(* an operation that lost track of its helper blocks every later operation *)
(* until that very process is known to be dead.                            *)
(***************************************************************************)
EXTENDS Naturals

VARIABLES state,   \* PreparationOperationState
          ticket,  \* how many operations were ever admitted
          alive    \* a helper process of an admitted operation exists

exclusionVars == <<state, ticket, alive>>

Init == state = "idle" /\ ticket = 0 /\ alive = FALSE

Admit ==
  /\ state = "idle" /\ state' = "active"
  /\ ticket' = ticket + 1 /\ UNCHANGED alive

Spawn ==
  /\ state = "active" /\ ~alive /\ alive' = TRUE
  /\ UNCHANGED <<state, ticket>>

(* A helper is reaped by its operation, or dies after it was given up. *)
Die == alive /\ alive' = FALSE /\ UNCHANGED <<state, ticket>>

Finish ==
  /\ state = "active" /\ ~alive /\ state' = "idle"
  /\ UNCHANGED <<ticket, alive>>

Abandon ==
  /\ state = "active" /\ alive /\ state' = "blocked_reap_failure"
  /\ UNCHANGED <<ticket, alive>>

(* A helper without an operation is found unreapable. *)
Poison ==
  /\ state = "idle" /\ state' = "blocked_reap_failure"
  /\ ticket' = ticket + 1 /\ alive' = TRUE

Recover ==
  /\ state = "blocked_reap_failure" /\ ~alive /\ state' = "idle"
  /\ UNCHANGED <<ticket, alive>>

Next == Admit \/ Spawn \/ Die \/ Finish \/ Abandon \/ Poison \/ Recover

Spec == Init /\ [][Next]_exclusionVars

=============================================================================
