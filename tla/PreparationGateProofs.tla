------------------------ MODULE PreparationGateProofs ------------------------
(***************************************************************************)
(* The gate's safety for any operations, any number of recovery polls and  *)
(* any number of leases, and that it implements HelperExclusion.           *)
(*                                                                         *)
(* NoOverlap is not inductive: a poll that confirmed a death clears what   *)
(* it read long ago.  GateInv (PreparationGate) is.                        *)
(***************************************************************************)
EXTENDS PreparationGate, TLAPS

LEMMA NoneIsNoLease == \A lease \in Lease : lease # None
BY GateAssumption

LEMMA NewLeaseIsALease ==
  ASSUME generation \in 0..MaxGeneration, generation < MaxGeneration,
         NEW o \in Owners
  PROVE  /\ NewLease(o) \in Lease
         /\ NewLease(o) # None
         /\ NewLease(o).generation = generation + 1
         /\ NewLease(o).owner = o
         /\ generation + 1 \in 0..MaxGeneration
BY GateAssumption DEF NewLease, Lease

LEMMA GateInvInit == Init => GateInv
BY GateAssumption DEF Init, GateInv, TypeOK, Idle, PollSteps, PoisonHoldsTheGate,
   HeldLeaseOwns, HelpersAreLeased, OrphanIsTheFailure, GenerationsAreSpent, PollsAreOfPast

(* Every step of the gate, of its users and of its polls preserves GateInv. *)
LEMMA GateInvStep == GateInv /\ [Next]_vars => GateInv'
<1> SUFFICES ASSUME GateInv, [Next]_vars PROVE GateInv'
  OBVIOUS
<1> USE DEF GateInv, TypeOK, PollSteps
<1>1. ASSUME NEW o \in Owners, TryAcquire(o) PROVE GateInv'
  <2> USE <1>1 DEF TryAcquire
  <2>1. /\ NewLease(o) \in Lease /\ NewLease(o) # None
        /\ NewLease(o).generation = generation + 1 /\ NewLease(o).owner = o
        /\ generation + 1 \in 0..MaxGeneration
    BY NewLeaseIsALease
  <2>2. reapFailure = None /\ \A q \in Owners : held[q] = None
    BY DEF PoisonHoldsTheGate, HeldLeaseOwns
  <2>3. TypeOK'
    BY <2>1
  <2>4. PoisonHoldsTheGate' /\ HeldLeaseOwns'
    BY <2>1, <2>2 DEF PoisonHoldsTheGate, HeldLeaseOwns
  <2>5. HelpersAreLeased' /\ OrphanIsTheFailure' /\ GenerationsAreSpent'
    BY <2>1, <2>2 DEF HelpersAreLeased, OrphanIsTheFailure, GenerationsAreSpent
  <2>6. PollsAreOfPast'
    BY <2>1 DEF PollsAreOfPast, Lease
  <2>7. QED BY <2>3, <2>4, <2>5, <2>6
<1>2. ASSUME NEW o \in Owners, StartHelper(o) PROVE GateInv'
  BY <1>2 DEF StartHelper, PoisonHoldsTheGate, HeldLeaseOwns, HelpersAreLeased,
     OrphanIsTheFailure, GenerationsAreSpent, PollsAreOfPast
<1>3. ASSUME NEW o \in Owners, ReapHelper(o) PROVE GateInv'
  BY <1>3 DEF ReapHelper, PoisonHoldsTheGate, HeldLeaseOwns, HelpersAreLeased,
     OrphanIsTheFailure, GenerationsAreSpent, PollsAreOfPast
<1>4. ASSUME NEW o \in Owners, Release(o) PROVE GateInv'
  <2> USE <1>4 DEF Release
  <2>1. held[o] = active /\ reapFailure = None /\ active' = None
    BY DEF HeldLeaseOwns, ReleaseAccepted
  <2>2. \A q \in Owners : held'[q] = None
    BY <2>1 DEF HeldLeaseOwns, HelpersAreLeased
  <2>3. TypeOK' /\ PoisonHoldsTheGate' /\ HeldLeaseOwns' /\ GenerationsAreSpent'
    BY <2>1, <2>2 DEF PoisonHoldsTheGate, HeldLeaseOwns, GenerationsAreSpent
  <2>4. HelpersAreLeased' /\ OrphanIsTheFailure'
    BY <2>1, <2>2 DEF HelpersAreLeased, HeldLeaseOwns, OrphanIsTheFailure
  <2>5. PollsAreOfPast'
    BY <2>1, NoneIsNoLease DEF PollsAreOfPast
  <2>6. QED BY <2>3, <2>4, <2>5
<1>5. ASSUME NEW o \in Owners, MarkReapFailure(o) PROVE GateInv'
  <2> USE <1>5 DEF MarkReapFailure
  <2>1. active \in Lease /\ active = held[o] /\ reapFailure = None /\ orphans = {}
    BY NoneIsNoLease DEF HeldLeaseOwns, OrphanIsTheFailure
  <2>2. \A q \in Owners : held'[q] = None
    BY <2>1 DEF HeldLeaseOwns, HelpersAreLeased
  <2>3. \A q \in running : q = o
    BY <2>1 DEF HeldLeaseOwns, HelpersAreLeased
  <2>4. TypeOK' /\ PoisonHoldsTheGate' /\ HeldLeaseOwns' /\ GenerationsAreSpent'
    BY <2>1, <2>2 DEF PoisonHoldsTheGate, HeldLeaseOwns, GenerationsAreSpent
  <2>5. HelpersAreLeased' /\ OrphanIsTheFailure'
    BY <2>1, <2>2, <2>3 DEF HelpersAreLeased, OrphanIsTheFailure
  <2>6. PollsAreOfPast'
    BY <2>1, NoneIsNoLease DEF PollsAreOfPast
  <2>7. QED BY <2>4, <2>5, <2>6
<1>6. ASSUME NEW o \in Owners, BlockReapFailure(o) PROVE GateInv'
  <2> USE <1>6 DEF BlockReapFailure
  <2>1. /\ NewLease(o) \in Lease /\ NewLease(o) # None
        /\ NewLease(o).generation = generation + 1
        /\ generation + 1 \in 0..MaxGeneration
    BY NewLeaseIsALease
  <2>2. reapFailure = None /\ orphans = {} /\ \A q \in Owners : held[q] = None
    BY NoneIsNoLease DEF PoisonHoldsTheGate, HeldLeaseOwns, OrphanIsTheFailure
  <2>3. TypeOK' /\ PoisonHoldsTheGate' /\ HeldLeaseOwns' /\ GenerationsAreSpent'
    BY <2>1, <2>2 DEF PoisonHoldsTheGate, HeldLeaseOwns, GenerationsAreSpent
  <2>4. HelpersAreLeased' /\ OrphanIsTheFailure'
    BY <2>1, <2>2 DEF HelpersAreLeased, OrphanIsTheFailure
  <2>5. PollsAreOfPast'
    BY <2>1, <2>2 DEF PollsAreOfPast, Lease
  <2>6. QED BY <2>3, <2>4, <2>5
<1>7. CASE OrphanExits
  BY <1>7 DEF OrphanExits, PoisonHoldsTheGate, HeldLeaseOwns, HelpersAreLeased,
     OrphanIsTheFailure, GenerationsAreSpent, PollsAreOfPast
<1>8. ASSUME NEW p \in Pollers, RecoverRead(p) PROVE GateInv'
  <2> USE <1>8 DEF RecoverRead
  <2>1. active \in Lease /\ active = reapFailure /\ active.generation <= generation
    BY NoneIsNoLease DEF PoisonHoldsTheGate, GenerationsAreSpent
  <2>2. TypeOK'
    OBVIOUS
  <2>3. PollsAreOfPast'
    BY <2>1 DEF PollsAreOfPast
  <2>4. QED
    BY <2>2, <2>3 DEF PoisonHoldsTheGate, HeldLeaseOwns, HelpersAreLeased,
       OrphanIsTheFailure, GenerationsAreSpent
<1>9. ASSUME NEW p \in Pollers, RecoverConfirm(p) PROVE GateInv'
  <2> USE <1>9 DEF RecoverConfirm
  <2>1. TypeOK'
    BY DEF Idle
  <2>2. PollsAreOfPast'
    BY DEF PollsAreOfPast, ConfirmedDead, Idle
  <2>3. QED
    BY <2>1, <2>2 DEF PoisonHoldsTheGate, HeldLeaseOwns, HelpersAreLeased,
       OrphanIsTheFailure, GenerationsAreSpent
<1>10. ASSUME NEW p \in Pollers, RecoverClear(p) PROVE GateInv'
  <2> USE <1>10 DEF RecoverClear
  <2>1. TypeOK'
    BY DEF Idle
  <2>2. CASE SameFailure(poll[p].failure)
    <3>1. reapFailure = active /\ reapFailure \in Lease /\ orphans = {}
      BY <2>2, NoneIsNoLease DEF SameFailure, PollsAreOfPast, OrphanIsTheFailure
    <3>2. \A o \in Owners : held[o] = None
      BY <3>1, NoneIsNoLease DEF HeldLeaseOwns
    <3>3. PollsAreOfPast'
      BY <2>2, <3>1, NoneIsNoLease DEF PollsAreOfPast, Idle
    <3>4. QED
      BY <2>1, <2>2, <3>1, <3>2, <3>3 DEF PoisonHoldsTheGate, HeldLeaseOwns,
         HelpersAreLeased, OrphanIsTheFailure, GenerationsAreSpent
  <2>3. CASE ~SameFailure(poll[p].failure)
    <3>1. PollsAreOfPast'
      BY <2>3 DEF PollsAreOfPast, Idle
    <3>2. QED
      BY <2>1, <2>3, <3>1 DEF PoisonHoldsTheGate, HeldLeaseOwns, HelpersAreLeased,
         OrphanIsTheFailure, GenerationsAreSpent
  <2>4. QED BY <2>2, <2>3
<1>11. CASE UNCHANGED vars
  BY <1>11 DEF vars, PoisonHoldsTheGate, HeldLeaseOwns, HelpersAreLeased,
     OrphanIsTheFailure, GenerationsAreSpent, PollsAreOfPast
<1>12. QED
  BY <1>1, <1>2, <1>3, <1>4, <1>5, <1>6, <1>7, <1>8, <1>9, <1>10, <1>11 DEF Next

(* The whole inductive invariant, the type invariant among its parts, holds
   of the gate for any owners, polls and number of leases.                *)
THEOREM GateInvariant == Spec => []GateInv
<1>1. QED BY GateInvInit, GateInvStep, PTL DEF Spec

(* No step ever lets two Steam helpers of DZLL live at once, or one beside
   the operation the gate admitted.                                       *)
THEOREM HelpersNeverOverlap == Spec => []NoOverlap
<1>1. GateInv => NoOverlap
  BY NoneIsNoLease DEF GateInv, TypeOK, NoOverlap, Live, PoisonHoldsTheGate,
     HeldLeaseOwns, HelpersAreLeased, OrphanIsTheFailure
<1>2. QED BY <1>1, GateInvariant, PTL

(* A poisoned gate can be acquired by nobody, and an operation that keeps a
   lease owns a gate that is not poisoned.                                *)
THEOREM LeasesOwnTheGate == Spec => [](PoisonHoldsTheGate /\ HeldLeaseOwns)
<1>1. GateInv => PoisonHoldsTheGate /\ HeldLeaseOwns
  BY DEF GateInv
<1>2. QED BY <1>1, GateInvariant, PTL

(* Poison is lifted only by a poll that saw the process it stands for dead. *)
THEOREM PoisonNeedsDeath == Spec => PoisonLiftedOnlyWhenDead
<1>1. GateInv /\ [Next]_vars
        => [reapFailure # None /\ reapFailure' # reapFailure
              => reapFailure \notin orphans]_vars
  <2> SUFFICES ASSUME GateInv, Next, reapFailure # None, reapFailure' # reapFailure
               PROVE  reapFailure \notin orphans
    OBVIOUS
  <2>1. reapFailure = active
    BY DEF GateInv, PoisonHoldsTheGate
  <2>2. PICK p \in Pollers : RecoverClear(p)
    BY <2>1 DEF Next, GateInv, HeldLeaseOwns, TryAcquire, StartHelper, ReapHelper, Release,
       MarkReapFailure, BlockReapFailure, OrphanExits, RecoverRead, RecoverConfirm
  <2>3. SameFailure(poll[p].failure)
    BY <2>2 DEF RecoverClear
  <2>4. QED
    BY <2>2, <2>3 DEF RecoverClear, SameFailure, GateInv, PollsAreOfPast
<1>2. QED BY <1>1, GateInvariant, PTL DEF Spec, PoisonLiftedOnlyWhenDead

-----------------------------------------------------------------------------
LEMMA ExclusionInit == Init => Exclusion!Init
BY DEF Init, Exclusion!Init, GateState, Live

(* What GateInv says of the abstract state. *)
LEMMA AbstractState ==
  ASSUME GateInv
  PROVE  /\ GateState = "idle" => active = None /\ reapFailure = None
         /\ active = None => GateState = "idle" /\ reapFailure = None /\ Live = {}
         /\ \A o \in Owners : held[o] # None =>
               /\ GateState = "active" /\ reapFailure = None
               /\ orphans = {} /\ running \subseteq {o}
         /\ reapFailure # None =>
               GateState = "blocked_reap_failure" /\ running = {} /\ Live = orphans
<1> USE NoneIsNoLease DEF GateInv, TypeOK
<1>1. active = None => reapFailure = None /\ orphans = {} /\ running = {}
  BY DEF PoisonHoldsTheGate, HeldLeaseOwns, HelpersAreLeased, OrphanIsTheFailure
<1>2. reapFailure # None => running = {}
  BY DEF HeldLeaseOwns, HelpersAreLeased
<1>3. \A o \in Owners : held[o] # None =>
        active # None /\ reapFailure = None /\ orphans = {} /\ running \subseteq {o}
  BY DEF HeldLeaseOwns, HelpersAreLeased, OrphanIsTheFailure
<1>4. QED BY <1>1, <1>2, <1>3 DEF GateState, Live

LEMMA ExclusionStep ==
  GateInv /\ [Next]_vars => [Exclusion!Next]_(Exclusion!exclusionVars)
<1> SUFFICES ASSUME GateInv, [Next]_vars
             PROVE  Exclusion!Next \/ UNCHANGED Exclusion!exclusionVars
  OBVIOUS
<1> USE DEF Exclusion!Next, Exclusion!exclusionVars
<1>i. GateInv'
  BY GateInvStep
<1>s. /\ GateState = "idle" => active = None /\ reapFailure = None
      /\ active = None => GateState = "idle" /\ reapFailure = None /\ Live = {}
      /\ \A o \in Owners : held[o] # None =>
            /\ GateState = "active" /\ reapFailure = None
            /\ orphans = {} /\ running \subseteq {o}
      /\ reapFailure # None =>
            GateState = "blocked_reap_failure" /\ running = {} /\ Live = orphans
  BY AbstractState
<1>1. ASSUME NEW o \in Owners, TryAcquire(o) PROVE Exclusion!Admit
  <2> USE <1>1 DEF TryAcquire
  <2>1. NewLease(o) # None
    BY NewLeaseIsALease DEF GateInv, TypeOK
  <2>2. GateState = "idle" /\ GateState' = "active"
    BY <1>s, <2>1 DEF GateState
  <2>3. Live = {} /\ orphans = {} /\ running = {}
    BY <1>s DEF Live
  <2>4. UNCHANGED Live
    BY <2>3 DEF Live
  <2>5. QED BY <2>2, <2>4 DEF Exclusion!Admit
<1>2. ASSUME NEW o \in Owners, StartHelper(o) PROVE Exclusion!Spawn
  <2> USE <1>2 DEF StartHelper
  <2>1. GateState = "active" /\ orphans = {} /\ running = {}
    BY <1>s
  <2>2. Live = {} /\ Live' # {}
    BY <2>1 DEF Live
  <2>3. UNCHANGED GateState
    BY DEF GateState
  <2>4. QED BY <2>1, <2>2, <2>3 DEF Exclusion!Spawn
<1>3. ASSUME NEW o \in Owners, ReapHelper(o) PROVE Exclusion!Die
  <2> USE <1>3 DEF ReapHelper
  <2>1. held[o] # None
    BY DEF GateInv, HelpersAreLeased
  <2>2. Live # {} /\ Live' = {}
    BY <1>s, <2>1 DEF Live
  <2>3. UNCHANGED GateState
    BY DEF GateState
  <2>4. QED BY <2>2, <2>3 DEF Exclusion!Die
<1>4. ASSUME NEW o \in Owners, Release(o) PROVE Exclusion!Finish
  <2> USE <1>4 DEF Release
  <2>1. /\ GateState = "active" /\ reapFailure = None /\ orphans = {}
        /\ running = {} /\ active' = None
    BY <1>s DEF GateInv, HeldLeaseOwns, ReleaseAccepted
  <2>2. Live = {} /\ Live' = {}
    BY <2>1 DEF Live
  <2>3. GateState' = "idle"
    BY <2>1 DEF GateState
  <2>4. QED BY <2>1, <2>2, <2>3 DEF Exclusion!Finish
<1>5. ASSUME NEW o \in Owners, MarkReapFailure(o) PROVE Exclusion!Abandon
  <2> USE <1>5 DEF MarkReapFailure
  <2>1. GateState = "active" /\ GateState' = "blocked_reap_failure"
    BY <1>s DEF GateState
  <2>2. Live # {} /\ Live' # {}
    BY DEF Live
  <2>3. QED BY <2>1, <2>2 DEF Exclusion!Abandon
<1>6. ASSUME NEW o \in Owners, BlockReapFailure(o) PROVE Exclusion!Poison
  <2> USE <1>6 DEF BlockReapFailure
  <2>1. NewLease(o) # None
    BY NewLeaseIsALease DEF GateInv, TypeOK
  <2>2. GateState = "idle" /\ GateState' = "blocked_reap_failure"
    BY <1>s, <2>1 DEF GateState
  <2>3. Live' # {}
    BY DEF Live
  <2>4. QED BY <2>2, <2>3 DEF Exclusion!Poison
<1>7. CASE OrphanExits
  <2> USE <1>7 DEF OrphanExits
  <2>1. reapFailure # None /\ orphans' = {}
    BY NoneIsNoLease DEF GateInv, TypeOK, OrphanIsTheFailure
  <2>2. Live # {} /\ Live' = {}
    BY <1>s, <2>1 DEF Live
  <2>3. UNCHANGED GateState
    BY DEF GateState
  <2>4. QED BY <2>2, <2>3 DEF Exclusion!Die
<1>8. ASSUME NEW p \in Pollers, RecoverRead(p) \/ RecoverConfirm(p)
      PROVE  UNCHANGED Exclusion!exclusionVars
  BY <1>8 DEF RecoverRead, RecoverConfirm, GateState, Live
<1>9. ASSUME NEW p \in Pollers, RecoverClear(p), SameFailure(poll[p].failure)
      PROVE  Exclusion!Recover
  <2> USE <1>9 DEF RecoverClear
  <2>1. reapFailure # None /\ orphans = {}
    BY NoneIsNoLease DEF SameFailure, GateInv, PollsAreOfPast, OrphanIsTheFailure
  <2>2. GateState = "blocked_reap_failure" /\ running = {} /\ GateState' = "idle"
    BY <1>s, <2>1 DEF GateState
  <2>3. Live = {} /\ Live' = {}
    BY <2>1, <2>2 DEF Live
  <2>4. QED BY <2>2, <2>3 DEF Exclusion!Recover
<1>10. ASSUME NEW p \in Pollers, RecoverClear(p), ~SameFailure(poll[p].failure)
       PROVE  UNCHANGED Exclusion!exclusionVars
  BY <1>10 DEF RecoverClear, GateState, Live
<1>11. CASE UNCHANGED vars
  BY <1>11 DEF vars, GateState, Live
<1>12. QED
  BY <1>1, <1>2, <1>3, <1>4, <1>5, <1>6, <1>7, <1>8, <1>9, <1>10, <1>11 DEF Next

(* Seen through state, generation and whether a helper lives, the gate does
   nothing but what HelperExclusion allows: the promise on which Joins,
   repairs and background preparation rely.                               *)
THEOREM GateImplementsExclusion == Spec => ImplementsExclusion
<1>1. QED
  BY ExclusionInit, ExclusionStep, GateInvariant, PTL DEF Spec, ImplementsExclusion, Exclusion!Spec

=============================================================================
