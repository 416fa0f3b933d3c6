--------------------------- MODULE PreparationGate ---------------------------
(***************************************************************************)
(* PreparationOperationGate (background_prepare.py): the process-local     *)
(* lease that serialises everything that drives a Steam UGC helper         *)
(* process - background preparation, a foreground Join, a mod repair.      *)
(*                                                                         *)
(* The gate is poisoned when an operation ends without being able to       *)
(* confirm that its helper exited; it is un-poisoned by a poll that reads  *)
(* the failure under the lock, asks the retained Process OUTSIDE the lock, *)
(* and takes the lock again to clear it.  Any number of such polls may be  *)
(* in flight here.                                                         *)
(***************************************************************************)
EXTENDS Integers

CONSTANTS Owners,         \* operations that take the lease, by owner string
          Pollers,        \* threads that may run try_recover_reap_failure
          MaxGeneration,  \* bound: leases the gate hands out
          None            \* Python's None

Lease == [generation: 1..MaxGeneration, owner: Owners]

ASSUME GateAssumption == /\ MaxGeneration \in Nat
                         /\ None \notin Lease

VARIABLES generation,   \* _generation
          active,       \* _active: the lease, or None
          reapFailure,  \* _reap_failure.lease, or None
          held,         \* held[o]: the lease o's code keeps, or None
          running,      \* owners whose UGC helper process runs under them
          orphans,      \* leases whose helper could not be reaped and lives
          poll          \* poll[p]: p's progress inside try_recover

gateVars == <<generation, active, reapFailure>>
vars == <<generation, active, reapFailure, held, running, orphans, poll>>

(* A poll keeps the failure it read. *)
PollSteps == {"idle", "read", "confirmed"}

TypeOK ==
  /\ generation \in 0..MaxGeneration
  /\ active \in Lease \cup {None}
  /\ reapFailure \in Lease \cup {None}
  /\ held \in [Owners -> Lease \cup {None}]
  /\ running \subseteq Owners
  /\ orphans \subseteq Lease
  /\ poll \in [Pollers -> [step: PollSteps, failure: Lease \cup {None}]]

Idle == [step |-> "idle", failure |-> None]

Init ==
  /\ generation = 0
  /\ active = None
  /\ reapFailure = None
  /\ held = [o \in Owners |-> None]
  /\ running = {}
  /\ orphans = {}
  /\ poll = [p \in Pollers |-> Idle]

-----------------------------------------------------------------------------
NewLease(o) == [generation |-> generation + 1, owner |-> o]

(* An operation that already keeps a lease never asks for a second one.
   A poisoned gate still has its lease active, so it refuses as well.     *)
TryAcquire(o) ==
  /\ active = None
  /\ held[o] = None
  /\ generation < MaxGeneration
  /\ generation' = generation + 1
  /\ active' = NewLease(o)
  /\ held' = [held EXCEPT ![o] = NewLease(o)]
  /\ UNCHANGED <<reapFailure, running, orphans, poll>>

StartHelper(o) ==
  /\ held[o] # None
  /\ o \notin running
  /\ running' = running \cup {o}
  /\ UNCHANGED <<generation, active, reapFailure, held, orphans, poll>>

(* The operation reaped its helper and goes on (or ends) without one. *)
ReapHelper(o) ==
  /\ o \in running
  /\ running' = running \ {o}
  /\ UNCHANGED <<generation, active, reapFailure, held, orphans, poll>>

ReleaseAccepted(lease) == active = lease /\ reapFailure = None

Release(o) ==
  /\ held[o] # None
  /\ o \notin running
  /\ active' = IF ReleaseAccepted(held[o]) THEN None ELSE active
  /\ held' = [held EXCEPT ![o] = None]
  /\ UNCHANGED <<generation, reapFailure, running, orphans, poll>>

(* The operation ends with UGCHelperReapError and the helper may be alive. *)
MarkReapFailure(o) ==
  /\ held[o] # None
  /\ active = held[o]
  /\ o \in running
  /\ reapFailure' = held[o]
  /\ held' = [held EXCEPT ![o] = None]
  /\ running' = running \ {o}
  /\ orphans' = orphans \cup {held[o]}
  /\ UNCHANGED <<generation, active, poll>>

(* A helper started without a lease could not be reaped: an idle gate is
   poisoned with a lease of its own; a poisoned one stays as it is.       *)
BlockReapFailure(o) ==
  /\ held[o] = None
  /\ active = None
  /\ o \notin running
  /\ generation < MaxGeneration
  /\ generation' = generation + 1
  /\ active' = NewLease(o)
  /\ reapFailure' = NewLease(o)
  /\ orphans' = orphans \cup {NewLease(o)}
  /\ UNCHANGED <<held, running, poll>>

(* The orphan finally exits, at a moment nobody controls. *)
OrphanExits ==
  /\ orphans # {}
  /\ \E lease \in orphans : orphans' = orphans \ {lease}
  /\ UNCHANGED <<generation, active, reapFailure, held, running, poll>>

-----------------------------------------------------------------------------
(* try_recover_reap_failure: the first critical section. *)
RecoverRead(p) ==
  /\ poll[p].step = "idle"
  /\ reapFailure # None
  /\ poll' = [poll EXCEPT ![p] = [step |-> "read", failure |-> reapFailure]]
  /\ UNCHANGED <<generation, active, reapFailure, held, running, orphans>>

(* Mutation: the retained process is not asked. *)
TakenForDead(lease) == TRUE

ConfirmedDead(lease) == lease \notin orphans

(* finalize_confirmed_recovery, outside the lock: give up, or go on. *)
RecoverConfirm(p) ==
  /\ poll[p].step = "read"
  /\ poll' = [poll EXCEPT ![p] =
                IF ConfirmedDead(poll[p].failure)
                THEN [step |-> "confirmed", failure |-> poll[p].failure]
                ELSE Idle]
  /\ UNCHANGED <<generation, active, reapFailure, held, running, orphans>>

(* Mutation: whatever the gate is poisoned with now is cleared. *)
AnyFailure(lease) == TRUE

(* Mutation: only a gate without a lease is cleared. *)
FailureWithoutLease(lease) == reapFailure = lease /\ active = None

SameFailure(lease) == reapFailure = lease /\ active = lease

(* The second critical section: clear only the failure that was read. *)
RecoverClear(p) ==
  /\ poll[p].step = "confirmed"
  /\ IF SameFailure(poll[p].failure)
     THEN reapFailure' = None /\ active' = None
     ELSE UNCHANGED <<reapFailure, active>>
  /\ poll' = [poll EXCEPT ![p] = Idle]
  /\ UNCHANGED <<generation, held, running, orphans>>

Next ==
  \/ \E o \in Owners : \/ TryAcquire(o) \/ StartHelper(o) \/ ReapHelper(o)
                       \/ Release(o) \/ MarkReapFailure(o)
                       \/ BlockReapFailure(o)
  \/ OrphanExits
  \/ \E p \in Pollers : RecoverRead(p) \/ RecoverConfirm(p) \/ RecoverClear(p)

Spec == Init /\ [][Next]_vars

(* GLib re-runs the recovery callback every second while it returns True,
   and each call runs to its end; that an abandoned helper exits sooner or
   later is an assumption about Steam, not something the code enforces.   *)
Fairness ==
  /\ WF_vars(OrphanExits)
  /\ \A p \in Pollers : WF_vars(RecoverRead(p) \/ RecoverConfirm(p) \/ RecoverClear(p))

FairSpec == Spec /\ Fairness

-----------------------------------------------------------------------------
Live == orphans \cup {held[o] : o \in running}

(* Every helper process that is alive belongs to the lease the gate holds:
   no second operation reaches Steam beside it, not even one admitted
   after the first gave up on its helper.                                 *)
NoOverlap == \A lease \in Live : lease = active

(* The failure a gate is poisoned with is that of the lease it holds, so
   nobody can acquire a poisoned gate.                                    *)
PoisonHoldsTheGate == reapFailure # None => reapFailure = active

(* A caller that keeps a lease really owns the gate, and it is not the
   poisoned one: a release it makes cannot be refused.                    *)
HeldLeaseOwns ==
  \A o \in Owners : held[o] # None => held[o] = active /\ reapFailure = None

(* Poison is only ever lifted once the process it stands for is dead. *)
PoisonLiftedOnlyWhenDead ==
  [][reapFailure # None /\ reapFailure' # reapFailure
       => reapFailure \notin orphans]_vars

(* A gate poisoned by a helper that later exits becomes usable again. *)
GateRecovers == reapFailure # None ~> reapFailure = None

(* The inductive invariant behind the safety properties (proved inductive
   in PreparationGateProofs): leases are never reused, so the failure a
   poll read is either the one the gate still holds or one that can never
   be the active lease again.                                             *)

(* A helper runs under the lease its operation keeps, and that lease is the
   operation's own.                                                       *)
HelpersAreLeased ==
  /\ \A o \in running : held[o] # None
  /\ \A o \in Owners : held[o] # None => held[o].owner = o

(* A lost helper is the one the gate is poisoned with. *)
OrphanIsTheFailure == \A lease \in orphans : lease = reapFailure

GenerationsAreSpent == active # None => active.generation <= generation

(* A poll in flight read a lease that was handed out; if that lease is the
   active one, the gate is still poisoned with it.                        *)
PollsAreOfPast ==
  \A p \in Pollers : poll[p].step # "idle" =>
    /\ poll[p].failure \in Lease
    /\ poll[p].failure.generation <= generation
    /\ poll[p].failure = active => reapFailure = active
    /\ poll[p].step = "confirmed" => poll[p].failure \notin orphans

GateInv ==
  /\ TypeOK
  /\ PoisonHoldsTheGate
  /\ HeldLeaseOwns
  /\ HelpersAreLeased
  /\ OrphanIsTheFailure
  /\ GenerationsAreSpent
  /\ PollsAreOfPast

(* PreparationOperationGate.state: a poisoned gate is not "active". *)
GateState ==
  IF reapFailure # None THEN "blocked_reap_failure"
  ELSE IF active # None THEN "active" ELSE "idle"

(* The gate implements the promise of HelperExclusion. *)
Exclusion == INSTANCE HelperExclusion
               WITH state <- GateState, ticket <- generation, alive <- Live # {}
ImplementsExclusion == Exclusion!Spec

=============================================================================
