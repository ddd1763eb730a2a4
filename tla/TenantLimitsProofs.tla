------------------------- MODULE TenantLimitsProofs --------------------------
(***************************************************************************)
(* What limits a tenant: its quota and its share of the executors.  Quota  *)
(* and TenantScheduling have no state in common; their proofs stand in one *)
(* module, each about its own specification.                               *)
(*                                                                         *)
(* Claims across tenants, for any number of jobs, tenants, processes and   *)
(* crashes: no job is worked on twice at a time, and stale snapshots let a *)
(* tenant exceed its cap by at most one job per other process.  A process  *)
(* with a snapshot that fits a narration job of the tenant may still claim *)
(* one: it counts as if it had, and claimMu allows a process one such      *)
(* snapshot.                                                               *)
(*                                                                         *)
(* The quota, for every set of operations, kinds, units and limits.  A sum *)
(* is the number of units in as many piles as there are operations, each   *)
(* as high as the operation's amount: what one operation changes is one    *)
(* pile, disjoint from the others.                                         *)
(***************************************************************************)
EXTENDS TenantScheduling, Quota, FiniteSetTheorems, TLAPS

\* claimMu keeps the executors of a process apart.
Serialized ==
  \A e, f \in Executors :
    exe[e].pc = "claiming" /\ exe[f].pc = "claiming" /\ Proc[e] = Proc[f] => e = f

\* A snapshot of executor e lets it claim a narration job of tenant t.
MayClaim(e, t) ==
  exe[e].pc = "claiming" /\ \E j \in exe[e].fits : j \in Narrations /\ TenantOf[j] = t

Pending(t) == {p \in Processes : \E e \in Executors : Proc[e] = p /\ MayClaim(e, t)}

PendingCounted ==
  \A t \in Tenants : Cap[t] > 0 =>
    Cardinality(RunningNarrations(t)) + Cardinality(Pending(t))
      <= Cap[t] + Cardinality(Processes) - 1

IInv == TypeOK /\ RunningAccounted /\ Serialized /\ PendingCounted

LEMMA Finite ==
  ASSUME NEW t \in Tenants
  PROVE  /\ IsFiniteSet(RunningOf(t)) /\ Cardinality(RunningOf(t)) \in Nat
         /\ IsFiniteSet(RunningNarrations(t)) /\ Cardinality(RunningNarrations(t)) \in Nat
         /\ IsFiniteSet(Pending(t)) /\ Cardinality(Pending(t)) \in Nat
         /\ Cardinality(Processes) \in Nat /\ Cap[t] \in Nat
  <1>1. RunningOf(t) \subseteq Jobs /\ RunningNarrations(t) \subseteq Jobs
    BY DEF RunningOf, RunningNarrations
  <1>2. Pending(t) \subseteq Processes
    BY DEF Pending
  <1>3. IsFiniteSet(Jobs) /\ IsFiniteSet(Processes) /\ Cap[t] \in Nat
    BY SchedulingAssumption DEF SchedulingAssumption
  <1>4. IsFiniteSet(RunningOf(t)) /\ IsFiniteSet(RunningNarrations(t))
    BY <1>1, <1>3, FS_Subset
  <1>5. IsFiniteSet(Pending(t))
    BY <1>2, <1>3, FS_Subset
  <1> QED BY <1>3, <1>4, <1>5, FS_CardinalityType

LEMMA FiniteNext ==
  ASSUME NEW t \in Tenants
  PROVE  /\ IsFiniteSet(RunningNarrations(t)') /\ Cardinality(RunningNarrations(t)') \in Nat
         /\ IsFiniteSet(Pending(t)') /\ Cardinality(Pending(t)') \in Nat
  <1>1. RunningNarrations(t)' \subseteq Jobs /\ Pending(t)' \subseteq Processes
    BY DEF RunningOf, RunningNarrations, Pending
  <1>2. IsFiniteSet(Jobs) /\ IsFiniteSet(Processes)
    BY SchedulingAssumption DEF SchedulingAssumption
  <1>3. IsFiniteSet(RunningNarrations(t)') /\ IsFiniteSet(Pending(t)')
    BY <1>1, <1>2, FS_Subset
  <1> QED BY <1>3, FS_CardinalityType

LEMMA IdleType ==
  /\ Idle \in [pc: {"idle", "claiming", "working"}, job: Jobs \cup {NoJob},
               fits: SUBSET Jobs, load: [Tenants -> Nat]]
  /\ Idle.pc = "idle" /\ Idle.job = NoJob /\ Idle.fits = {}
  BY DEF Idle

LEMMA InitInv == Init => IInv
  <1> SUFFICES ASSUME Init PROVE IInv
    OBVIOUS
  <1>1. TypeOK
    BY IdleType, SchedulingAssumption DEF Init, TypeOK, SchedulingAssumption
  <1>2. RunningAccounted /\ Serialized
    BY IdleType DEF Init, RunningAccounted, Serialized
  <1>3. PendingCounted
    <2> SUFFICES ASSUME NEW t \in Tenants, Cap[t] > 0
                 PROVE  Cardinality(RunningNarrations(t)) + Cardinality(Pending(t))
                          <= Cap[t] + Cardinality(Processes) - 1
      BY DEF PendingCounted
    <2>1. RunningNarrations(t) = {} /\ Pending(t) = {}
      BY IdleType DEF Init, RunningNarrations, RunningOf, Pending, MayClaim
    <2> QED BY <2>1, Finite, FS_EmptySet
  <1> QED BY <1>1, <1>2, <1>3 DEF IInv
-----------------------------------------------------------------------------
(* Type correctness and the executors *)

LEMMA LoadType == Load \in [Tenants -> Nat]
  BY Finite DEF Load

LEMMA TypeInv ==
  ASSUME TypeOK, RunningAccounted, [Next]_vars
  PROVE  TypeOK'
  <1> USE DEF TypeOK
  <1>1. ASSUME NEW j \in Jobs, Submit(j) PROVE TypeOK'
    BY <1>1 DEF Submit
  <1>2. ASSUME NEW j \in Jobs, Recycle(j) PROVE TypeOK'
    BY <1>2 DEF Recycle
  <1>3. ASSUME NEW j \in Jobs, Lapse(j) PROVE TypeOK'
    BY <1>3 DEF Lapse
  <1>4. ASSUME NEW e \in Executors, Read(e) PROVE TypeOK'
    <2>1. Fitting \subseteq Jobs
      BY DEF Fitting
    <2> QED BY <1>4, <2>1, LoadType, SchedulingAssumption DEF Read, SchedulingAssumption
  <1>5. ASSUME NEW e \in Executors, Take(e) PROVE TypeOK'
    <2>1. PICK j \in Candidates(e) :
            /\ state' = [state EXCEPT ![j] = "running"]
            /\ lapsed' = lapsed \ {j}
            /\ exe' = [exe EXCEPT ![e] = [Idle EXCEPT !.pc = "working", !.job = j]]
      BY <1>5 DEF Take
    <2>2. j \in Jobs /\ j # NoJob
      BY SchedulingAssumption DEF Candidates, SchedulingAssumption
    <2> QED BY <1>5, <2>1, <2>2 DEF Take, Idle
  <1>6. ASSUME NEW e \in Executors, TakeNone(e) PROVE TypeOK'
    BY <1>6, IdleType DEF TakeNone
  <1>7. ASSUME NEW e \in Executors, Finish(e) PROVE TypeOK'
    BY <1>7, IdleType DEF Finish
  <1>8. ASSUME NEW p \in Processes, Crash(p) PROVE TypeOK'
    BY <1>8, IdleType DEF Crash
  <1>9. ASSUME UNCHANGED vars PROVE TypeOK'
    BY <1>9 DEF vars
  <1> QED BY <1>1, <1>2, <1>3, <1>4, <1>5, <1>6, <1>7, <1>8, <1>9 DEF Next, Worker

LEMMA ExecutorsInv ==
  ASSUME TypeOK, RunningAccounted, Serialized, [Next]_vars
  PROVE  RunningAccounted' /\ Serialized'
  <1> USE DEF TypeOK, RunningAccounted, Serialized
  <1> DEFINE Goal == RunningAccounted' /\ Serialized'
  <1>1. ASSUME NEW j \in Jobs, Submit(j) PROVE Goal
    BY <1>1 DEF Submit
  <1>2. ASSUME NEW j \in Jobs, Recycle(j) PROVE Goal
    BY <1>2 DEF Recycle
  <1>3. ASSUME NEW j \in Jobs, Lapse(j) PROVE Goal
    BY <1>3 DEF Lapse
  <1>4. ASSUME NEW e \in Executors, Read(e) PROVE Goal
    BY <1>4, SchedulingAssumption DEF Read, HasClaimMu, SchedulingAssumption
  <1>5. ASSUME NEW e \in Executors, Take(e) PROVE Goal
    <2>1. PICK j \in Candidates(e) :
            /\ state' = [state EXCEPT ![j] = "running"]
            /\ lapsed' = lapsed \ {j}
            /\ exe' = [exe EXCEPT ![e] = [Idle EXCEPT !.pc = "working", !.job = j]]
      BY <1>5 DEF Take
    <2>2. j \in Jobs /\ j # NoJob /\ Eligible(j)
      BY SchedulingAssumption DEF Candidates, SchedulingAssumption
    <2>3. \A f \in Executors : exe[f].job # j
      BY <2>2 DEF Eligible
    <2> QED BY <2>1, <2>2, <2>3 DEF Idle
  <1>6. ASSUME NEW e \in Executors, TakeNone(e) PROVE Goal
    BY <1>6, IdleType DEF TakeNone
  <1>7. ASSUME NEW e \in Executors, Finish(e) PROVE Goal
    BY <1>7, IdleType, SchedulingAssumption DEF Finish, SchedulingAssumption
  <1>8. ASSUME NEW p \in Processes, Crash(p) PROVE Goal
    BY <1>8, IdleType, SchedulingAssumption DEF Crash, SchedulingAssumption
  <1>9. ASSUME UNCHANGED vars PROVE Goal
    BY <1>9 DEF vars
  <1> QED BY <1>1, <1>2, <1>3, <1>4, <1>5, <1>6, <1>7, <1>8, <1>9 DEF Next, Worker
-----------------------------------------------------------------------------
(* The cap *)

\* Neither more running jobs nor more snapshots that fit.
LEMMA NoMore ==
  ASSUME PendingCounted, NEW t \in Tenants, Cap[t] > 0,
         RunningNarrations(t)' \subseteq RunningNarrations(t), Pending(t)' \subseteq Pending(t)
  PROVE  Cardinality(RunningNarrations(t)') + Cardinality(Pending(t)')
           <= Cap[t] + Cardinality(Processes) - 1
  <1>1. /\ Cardinality(RunningNarrations(t)') <= Cardinality(RunningNarrations(t))
        /\ Cardinality(Pending(t)') <= Cardinality(Pending(t))
    BY Finite, FS_Subset
  <1>2. Cardinality(RunningNarrations(t)) + Cardinality(Pending(t))
          <= Cap[t] + Cardinality(Processes) - 1
    BY DEF PendingCounted
  <1> QED BY <1>1, <1>2, Finite, FiniteNext

\* A new snapshot fits narration jobs of t only while t is below its cap.
LEMMA ReadCounted ==
  ASSUME IInv, NEW t \in Tenants, Cap[t] > 0, NEW e \in Executors, Read(e)
  PROVE  Cardinality(RunningNarrations(t)') + Cardinality(Pending(t)')
           <= Cap[t] + Cardinality(Processes) - 1
  <1>0. RunningNarrations(t)' = RunningNarrations(t)
    BY DEF Read, RunningNarrations, RunningOf
  <1>1. CASE \E j \in Fitting : j \in Narrations /\ TenantOf[j] = t
    <2>1. Cardinality(RunningNarrations(t)) < Cap[t]
      BY <1>1, Finite DEF Fitting, BelowCap
    <2>2. Cardinality(Pending(t)') <= Cardinality(Processes)
      <3>1. Pending(t)' \subseteq Processes
        BY DEF Pending
      <3> QED BY <3>1, FS_Subset, SchedulingAssumption DEF SchedulingAssumption
    <2> QED BY <1>0, <2>1, <2>2, Finite, FiniteNext
  <1>2. CASE ~ \E j \in Fitting : j \in Narrations /\ TenantOf[j] = t
    <2>1. \A f \in Executors : MayClaim(f, t)' => MayClaim(f, t)
      BY <1>2 DEF MayClaim, Read, IInv, TypeOK
    <2>2. Pending(t)' \subseteq Pending(t)
      BY <2>1 DEF Pending
    <2> QED BY <1>0, <2>2, NoMore DEF IInv
  <1> QED BY <1>1, <1>2

\* A claim takes the place of the snapshot that allowed it.
LEMMA TakeCounted ==
  ASSUME IInv, NEW t \in Tenants, Cap[t] > 0, NEW e \in Executors, Take(e)
  PROVE  Cardinality(RunningNarrations(t)') + Cardinality(Pending(t)')
           <= Cap[t] + Cardinality(Processes) - 1
  <1>1. PICK j \in Candidates(e) :
          /\ state' = [state EXCEPT ![j] = "running"]
          /\ exe' = [exe EXCEPT ![e] = [Idle EXCEPT !.pc = "working", !.job = j]]
    BY DEF Take
  <1>2. j \in Jobs /\ j \in exe[e].fits /\ exe[e].pc = "claiming"
    BY DEF Candidates, Take, IInv, TypeOK
  <1>3. \A f \in Executors : MayClaim(f, t)' => f # e /\ MayClaim(f, t)
    BY <1>1 DEF MayClaim, Idle, IInv, TypeOK
  <1>4. CASE j \in RunningNarrations(t) \/ j \notin Narrations \/ TenantOf[j] # t
    <2>1. RunningNarrations(t)' \subseteq RunningNarrations(t)
      BY <1>1, <1>4 DEF RunningNarrations, RunningOf, IInv, TypeOK
    <2>2. Pending(t)' \subseteq Pending(t)
      BY <1>3 DEF Pending
    <2> QED BY <2>1, <2>2, NoMore DEF IInv
  <1>5. CASE j \notin RunningNarrations(t) /\ j \in Narrations /\ TenantOf[j] = t
    <2>1. RunningNarrations(t)' = RunningNarrations(t) \cup {j}
      BY <1>1, <1>2, <1>5 DEF RunningNarrations, RunningOf, IInv, TypeOK
    <2>2. Cardinality(RunningNarrations(t)') = Cardinality(RunningNarrations(t)) + 1
      BY <1>5, <2>1, Finite, FS_AddElement
    <2>3. MayClaim(e, t) /\ Proc[e] \in Processes
      BY <1>2, <1>5, SchedulingAssumption DEF MayClaim, SchedulingAssumption
    <2>4. Proc[e] \in Pending(t)
      BY <2>3 DEF Pending
    <2>5. Pending(t)' \subseteq Pending(t) \ {Proc[e]}
      <3>1. \A f \in Executors : MayClaim(f, t)' => MayClaim(f, t) /\ Proc[f] # Proc[e]
        BY <1>2, <1>3 DEF IInv, Serialized, MayClaim
      <3> QED BY <3>1 DEF Pending
    <2>6. Cardinality(Pending(t)') <= Cardinality(Pending(t)) - 1
      <3>1. /\ IsFiniteSet(Pending(t) \ {Proc[e]})
            /\ Cardinality(Pending(t) \ {Proc[e]}) = Cardinality(Pending(t)) - 1
        BY <2>4, Finite, FS_RemoveElement
      <3> QED BY <3>1, <2>5, FS_Subset
    <2>7. Cardinality(RunningNarrations(t)) + Cardinality(Pending(t))
            <= Cap[t] + Cardinality(Processes) - 1
      BY DEF IInv, PendingCounted
    <2> QED BY <2>2, <2>6, <2>7, Finite, FiniteNext
  <1> QED BY <1>4, <1>5

LEMMA CapInv ==
  ASSUME IInv, [Next]_vars
  PROVE  PendingCounted'
  <1> SUFFICES ASSUME NEW t \in Tenants, Cap[t] > 0
               PROVE  Cardinality(RunningNarrations(t)') + Cardinality(Pending(t)')
                        <= Cap[t] + Cardinality(Processes) - 1
    BY DEF PendingCounted
  <1> DEFINE Less == /\ RunningNarrations(t)' \subseteq RunningNarrations(t)
                     /\ \A f \in Executors : MayClaim(f, t)' => MayClaim(f, t)
  <1>0. ASSUME Less
        PROVE  Cardinality(RunningNarrations(t)') + Cardinality(Pending(t)')
                 <= Cap[t] + Cardinality(Processes) - 1
    <2>1. Pending(t)' \subseteq Pending(t)
      BY <1>0 DEF Pending
    <2> QED BY <1>0, <2>1, NoMore DEF IInv
  <1>a. TypeOK
    BY DEF IInv
  <1>1. ASSUME NEW j \in Jobs, Submit(j) PROVE Less
    BY <1>a, <1>1 DEF Submit, MayClaim, RunningNarrations, RunningOf, TypeOK
  <1>2. ASSUME NEW j \in Jobs, Recycle(j) PROVE Less
    BY <1>a, <1>2 DEF Recycle, MayClaim, RunningNarrations, RunningOf, TypeOK
  <1>3. ASSUME NEW j \in Jobs, Lapse(j) PROVE Less
    BY <1>a, <1>3 DEF Lapse, MayClaim, RunningNarrations, RunningOf
  <1>4. ASSUME NEW e \in Executors, TakeNone(e) PROVE Less
    BY <1>a, <1>4, IdleType DEF TakeNone, MayClaim, RunningNarrations, RunningOf, TypeOK
  <1>5. ASSUME NEW e \in Executors, Finish(e) PROVE Less
    BY <1>a, <1>5, IdleType DEF Finish, MayClaim, RunningNarrations, RunningOf, TypeOK
  <1>6. ASSUME NEW p \in Processes, Crash(p) PROVE Less
    BY <1>a, <1>6, IdleType DEF Crash, MayClaim, RunningNarrations, RunningOf, TypeOK
  <1>7. ASSUME UNCHANGED vars PROVE Less
    BY <1>7 DEF vars, MayClaim, RunningNarrations, RunningOf
  <1> HIDE DEF Less
  <1> QED BY <1>0, <1>1, <1>2, <1>3, <1>4, <1>5, <1>6, <1>7, ReadCounted, TakeCounted
          DEF Next, Worker
-----------------------------------------------------------------------------
LEMMA InvHolds == Spec => []IInv
  <1>1. IInv /\ [Next]_vars => IInv'
    BY TypeInv, ExecutorsInv, CapInv DEF IInv
  <1> QED BY <1>1, InitInv, PTL DEF Spec

\* The variables keep their types (ppts_claim_next_job, Worker.Run).
THEOREM SchedulingTyped == Spec => []TypeOK
  <1>1. IInv => TypeOK
    BY DEF IInv
  <1> QED BY <1>1, InvHolds, PTL

\* A job that runs is worked on by one executor, has just lost its process, or
\* may be taken over: claims on snapshots never hand a job out twice.
THEOREM RunningAccountedCorrect == Spec => []RunningAccounted
  <1>1. IInv => RunningAccounted
    BY DEF IInv
  <1> QED BY <1>1, InvHolds, PTL

\* max_concurrent_jobs is exceeded by at most one job for each process beyond the
\* first, whatever is submitted, crashes or is claimed at once.
THEOREM CapNearlyKeptCorrect == Spec => []CapNearlyKept
  <1>1. IInv => CapNearlyKept
    <2> SUFFICES ASSUME IInv, NEW t \in Tenants, Cap[t] > 0
                 PROVE  Cardinality(RunningNarrations(t)) <= Cap[t] + Cardinality(Processes) - 1
      BY DEF CapNearlyKept
    <2>1. Cardinality(RunningNarrations(t)) + Cardinality(Pending(t))
            <= Cap[t] + Cardinality(Processes) - 1
      BY DEF IInv, PendingCounted
    <2> QED BY <2>1, Finite
  <1> QED BY <1>1, InvHolds, PTL
-----------------------------------------------------------------------------
(* The quota (Quota). *)

\* What Settle and Release leave reserved is a natural number.
LEMMA UnreservedType ==
  ASSUME NEW o \in Ops, NEW k \in Kinds, QuotaTypeOK
  PROVE  Unreserved(o, k) \in Nat
<1>1. quota[k].reserved \in Nat
  BY DEF QuotaTypeOK
<1>2. res[o][k] \in [state: ReservationStates, units: Units \cup {0}]
  BY DEF QuotaTypeOK
<1>3. res[o][k].units \in Nat
  BY <1>2, QuotaAssumption DEF QuotaAssumption
<1> QED
  BY <1>1, <1>3 DEF Unreserved

\* The accounts keep their types.
LEMMA TypeStep ==
  ASSUME QuotaTypeOK, [QuotaNext]_quotaVars
  PROVE  QuotaTypeOK'
<1> USE QuotaAssumption DEF QuotaAssumption
<1>1. ASSUME NEW o \in Ops, NEW k \in Kinds, NEW u \in Units, Reserve(o, k, u)
      PROVE  QuotaTypeOK'
  BY <1>1 DEF Reserve, Account, QuotaTypeOK, ReservationStates
<1>2. ASSUME NEW o \in Ops, NEW k \in Kinds, NEW u \in Units, Settle(o, k, u)
      PROVE  QuotaTypeOK'
  <2>1. Unreserved(o, k) \in Nat
    BY UnreservedType
  <2>2. res' \in [Ops -> [Kinds -> [state: ReservationStates, units: Units \cup {0}]]]
    BY <1>2 DEF Settle, Account, ClosedAs, QuotaTypeOK, ReservationStates
  <2>3. ledger' \in [Ops -> [Kinds -> Units \cup {NoEntry}]]
    BY <1>2 DEF Settle, Account, ClosedAs, QuotaTypeOK
  <2>4. quota' \in [Kinds -> [limit: Limits \cup {-1}, reserved: Nat, consumed: Nat]]
    <3>1. quota[k].consumed + u \in Nat
      BY DEF QuotaTypeOK
    <3> QED
      BY <1>2, <2>1, <3>1 DEF Settle, Account, ClosedAs, QuotaTypeOK
  <2> QED
    BY <2>2, <2>3, <2>4 DEF QuotaTypeOK
<1>3. ASSUME NEW o \in Ops, NEW k \in Kinds, Release(o, k)
      PROVE  QuotaTypeOK'
  <2>1. Unreserved(o, k) \in Nat
    BY UnreservedType
  <2> QED
    BY <1>3, <2>1 DEF Release, Account, ClosedAs, QuotaTypeOK, ReservationStates
<1>4. ASSUME NEW k \in Kinds, NEW l \in Limits, SetLimit(k, l)
      PROVE  QuotaTypeOK'
  BY <1>4 DEF SetLimit, QuotaTypeOK
<1>5. CASE UNCHANGED quotaVars
  BY <1>5 DEF quotaVars, QuotaTypeOK
<1> QED
  BY <1>1, <1>2, <1>3, <1>4, <1>5 DEF QuotaNext

\* The variables keep their types.
THEOREM QuotaTypeCorrect == QuotaSpec => []QuotaTypeOK
<1>1. QuotaInit => QuotaTypeOK
  BY QuotaAssumption DEF QuotaAssumption, QuotaInit, QuotaTypeOK, ReservationStates
<1> QED
  BY <1>1, TypeStep, PTL DEF QuotaSpec
-----------------------------------------------------------------------------
LEMMA ChargedStep ==
  ASSUME QuotaTypeOK, ChargedIfSettled, [QuotaNext]_quotaVars
  PROVE  ChargedIfSettled'
<1>1. ASSUME NEW o \in Ops, NEW k \in Kinds, NEW u \in Units, Reserve(o, k, u)
      PROVE  ChargedIfSettled'
  BY <1>1 DEF Reserve, Account, Known, QuotaTypeOK, ChargedIfSettled
<1>2. ASSUME NEW o \in Ops, NEW k \in Kinds, NEW u \in Units, Settle(o, k, u)
      PROVE  ChargedIfSettled'
  <2>1. u # NoEntry
    BY QuotaAssumption DEF QuotaAssumption, NoEntry
  <2> QED
    BY <1>2, <2>1 DEF Settle, Account, ClosedAs, Outstanding, QuotaTypeOK, ChargedIfSettled
<1>3. ASSUME NEW o \in Ops, NEW k \in Kinds, Release(o, k)
      PROVE  ChargedIfSettled'
  BY <1>3 DEF Release, Account, ClosedAs, Outstanding, QuotaTypeOK, ChargedIfSettled
<1>4. ASSUME NEW k \in Kinds, NEW l \in Limits, SetLimit(k, l)
      PROVE  ChargedIfSettled'
  BY <1>4 DEF SetLimit, ChargedIfSettled
<1>5. CASE UNCHANGED quotaVars
  BY <1>5 DEF quotaVars, ChargedIfSettled
<1> QED
  BY <1>1, <1>2, <1>3, <1>4, <1>5 DEF QuotaNext

\* An operation is charged exactly if it was settled, whatever is repeated.
THEOREM ChargedCorrect == QuotaSpec => []ChargedIfSettled
<1>1. QuotaInit => ChargedIfSettled
  BY DEF QuotaInit, ChargedIfSettled
<1> QED
  BY <1>1, QuotaTypeCorrect, ChargedStep, PTL DEF QuotaSpec
-----------------------------------------------------------------------------
\* Nothing that is settled or released changes.
LEMMA ClosedStep ==
  ASSUME QuotaTypeOK, QuotaNext, NEW o \in Ops, NEW k \in Kinds,
         res[o][k].state \in {"settled", "released"}
  PROVE  res'[o][k] = res[o][k]
<1>1. ASSUME NEW p \in Ops, NEW l \in Kinds, NEW u \in Units, Reserve(p, l, u)
      PROVE  res'[o][k] = res[o][k]
  BY <1>1 DEF Reserve, Account, Known, QuotaTypeOK
<1>2. ASSUME NEW p \in Ops, NEW l \in Kinds, NEW u \in Units, Settle(p, l, u)
      PROVE  res'[o][k] = res[o][k]
  BY <1>2 DEF Settle, Account, ClosedAs, Outstanding, QuotaTypeOK
<1>3. ASSUME NEW p \in Ops, NEW l \in Kinds, Release(p, l)
      PROVE  res'[o][k] = res[o][k]
  BY <1>3 DEF Release, Account, ClosedAs, Outstanding, QuotaTypeOK
<1>4. ASSUME NEW l \in Kinds, NEW n \in Limits, SetLimit(l, n)
      PROVE  res'[o][k] = res[o][k]
  BY <1>4 DEF SetLimit
<1> QED
  BY <1>1, <1>2, <1>3, <1>4 DEF QuotaNext

\* What has been settled or released stays so.
THEOREM ClosedCorrect == QuotaSpec => Closed
<1> DEFINE Stays == \A o \in Ops, k \in Kinds :
             res[o][k].state \in {"settled", "released"} => res'[o][k] = res[o][k]
<1>1. QuotaTypeOK /\ [QuotaNext]_quotaVars => [Stays]_quotaVars
  BY ClosedStep
<1> QED
  BY <1>1, QuotaTypeCorrect, PTL DEF QuotaSpec, Closed
-----------------------------------------------------------------------------
(* The sums *)

Pile(o, n) == {o} \X (1 .. n)

Piles(amount) == UNION {Pile(o, amount[o]) : o \in Ops}

\* A pile has as many units as it is high.
LEMMA PileSize ==
  ASSUME NEW o, NEW n \in Nat
  PROVE  IsFiniteSet(Pile(o, n)) /\ Cardinality(Pile(o, n)) = n
<1>1. IsFiniteSet({o}) /\ Cardinality({o}) = 1
  BY FS_Singleton
<1>2. IsFiniteSet(1 .. n) /\ Cardinality(1 .. n) = n
  BY FS_Interval
<1>3. /\ IsFiniteSet({o} \X (1 .. n))
      /\ Cardinality({o} \X (1 .. n)) = Cardinality({o}) * Cardinality(1 .. n)
  BY <1>1, <1>2, FS_Product
<1>4. Cardinality({o}) * Cardinality(1 .. n) = n
  BY <1>1, <1>2
<1> QED
  BY <1>3, <1>4 DEF Pile

\* If an operation's amount grows from nothing to n, so does the sum; and back.
LEMMA TotalGrows ==
  ASSUME NEW f, NEW g, NEW o \in Ops, NEW n \in Nat,
         \A p \in Ops \ {o} : g[p] = f[p],
         f[o] = 0, g[o] = n,
         IsFiniteSet(Piles(f)) \/ IsFiniteSet(Piles(g))
  PROVE  /\ IsFiniteSet(Piles(f)) /\ IsFiniteSet(Piles(g))
         /\ Total(f) \in Nat /\ Total(g) = Total(f) + n
<1>1. Piles(g) = Piles(f) \cup Pile(o, n)
  <2>1. Pile(o, f[o]) = {}
    BY DEF Pile
  <2>2. \A p \in Ops \ {o} : Pile(p, g[p]) = Pile(p, f[p])
    BY DEF Pile
  <2> QED
    BY <2>1, <2>2 DEF Piles
<1>2. Piles(f) \cap Pile(o, n) = {}
  <2>1. ASSUME NEW x \in Piles(f), x \in Pile(o, n)
        PROVE  FALSE
    <3>1. PICK p \in Ops : x \in Pile(p, f[p])
      BY <2>1 DEF Piles
    <3>2. x[1] = p /\ x[1] = o /\ 1 .. f[p] # {}
      BY <2>1, <3>1 DEF Pile
    <3> QED
      BY <3>2
  <2> QED
    BY <2>1
<1>3. IsFiniteSet(Pile(o, n)) /\ Cardinality(Pile(o, n)) = n
  BY PileSize
<1>4. IsFiniteSet(Piles(f)) /\ IsFiniteSet(Piles(g))
  BY <1>1, <1>3, FS_Union, FS_Subset
<1>5. Cardinality(Piles(g)) = Cardinality(Piles(f)) + n - Cardinality({})
  BY <1>1, <1>2, <1>3, <1>4, FS_Union
<1>6. Cardinality({}) = 0 /\ Cardinality(Piles(f)) \in Nat
  BY <1>4, FS_EmptySet, FS_CardinalityType
<1>7. Total(f) = Cardinality(Piles(f)) /\ Total(g) = Cardinality(Piles(g))
  BY DEF Total, Piles, Pile
<1> QED
  BY <1>4, <1>5, <1>6, <1>7

\* The amounts are finitely many units.
FiniteSums ==
  \A k \in Kinds : IsFiniteSet(Piles(Held(k))) /\ IsFiniteSet(Piles(Charged(k)))

Sums == Balanced /\ FiniteSums

\* What an operation holds or is charged under kind k, row by row.
LEMMA Amounts ==
  ASSUME QuotaTypeOK, NEW o \in Ops, NEW k \in Kinds
  PROVE  /\ quota[k].reserved \in Nat /\ quota[k].consumed \in Nat
         /\ quota[k] = [limit |-> quota[k].limit, reserved |-> quota[k].reserved,
                        consumed |-> quota[k].consumed]
         /\ res[o][k].units \in Nat
<1>1. quota[k] \in [limit: Limits \cup {-1}, reserved: Nat, consumed: Nat]
  BY DEF QuotaTypeOK
<1>2. res[o][k] \in [state: ReservationStates, units: Units \cup {0}]
  BY DEF QuotaTypeOK
<1>3. res[o][k].units \in Nat
  BY <1>2, QuotaAssumption DEF QuotaAssumption
<1> QED
  BY <1>1, <1>3

\* Closing an outstanding reservation takes its units off, and all of them.
LEMMA CloseSums ==
  ASSUME QuotaTypeOK, Sums, NEW o \in Ops, NEW k \in Kinds, NEW s,
         s # "reserved", Outstanding(o, k), res' = ClosedAs(o, k, s)
  PROVE  /\ IsFiniteSet(Piles(Held(k)'))
         /\ Total(Held(k)') = quota[k].reserved - res[o][k].units
         /\ Unreserved(o, k) = quota[k].reserved - res[o][k].units
         /\ Unreserved(o, k) \in Nat
<1> DEFINE n == res[o][k].units
<1>1. n \in Nat /\ quota[k].reserved \in Nat
  BY Amounts
<1>2. Held(k)[o] = n /\ Held(k)'[o] = 0
  <2>1. res'[o][k].state = s
    BY DEF ClosedAs, QuotaTypeOK
  <2> QED
    BY <2>1 DEF Held, Outstanding
<1>3. \A p \in Ops \ {o} : Held(k)[p] = Held(k)'[p]
  <2>1. \A p \in Ops \ {o} : res'[p] = res[p]
    BY DEF ClosedAs, QuotaTypeOK
  <2> QED
    BY <2>1 DEF Held, Outstanding
<1>4. quota[k].reserved = Total(Held(k)) /\ IsFiniteSet(Piles(Held(k)))
  BY DEF Sums, Balanced, FiniteSums
<1>5. /\ IsFiniteSet(Piles(Held(k)'))
      /\ Total(Held(k)') \in Nat /\ Total(Held(k)) = Total(Held(k)') + n
  <2> DEFINE f == Held(k)'
             g == Held(k)
  <2>1. /\ \A p \in Ops \ {o} : g[p] = f[p]
        /\ f[o] = 0 /\ g[o] = n /\ IsFiniteSet(Piles(g))
    BY <1>2, <1>3, <1>4
  <2> HIDE DEF f, g, n
  <2>2. IsFiniteSet(Piles(f)) /\ Total(f) \in Nat /\ Total(g) = Total(f) + n
    BY <1>1, <2>1, TotalGrows
  <2> QED
    BY <2>2 DEF f, g
<1> HIDE DEF n
<1>6. n <= quota[k].reserved /\ Total(Held(k)') = quota[k].reserved - n
  BY <1>1, <1>4, <1>5
<1>7. Unreserved(o, k) = quota[k].reserved - n
  BY <1>1, <1>6 DEF Unreserved, n
<1> QED
  BY <1>1, <1>5, <1>6, <1>7 DEF n

\* The sums of a kind whose rows a step leaves alone.
LEMMA SameSums ==
  ASSUME QuotaTypeOK, Sums, NEW k \in Kinds, NEW l \in Kinds, l # k,
         quota'[l] = quota[l],
         \A p \in Ops : res'[p][l] = res[p][l] /\ ledger'[p][l] = ledger[p][l]
  PROVE  /\ quota'[l].reserved = Total(Held(l)') /\ IsFiniteSet(Piles(Held(l)'))
         /\ quota'[l].consumed = Total(Charged(l)') /\ IsFiniteSet(Piles(Charged(l)'))
<1>1. Held(l)' = Held(l) /\ Charged(l)' = Charged(l)
  BY DEF Held, Charged, Outstanding
<1> QED
  BY <1>1 DEF Sums, Balanced, FiniteSums

\* The sums of a kind that a step books on: reserved units by f, consumed by g.
RowSums(l) ==
  /\ quota[l].reserved = Total(Held(l)) /\ IsFiniteSet(Piles(Held(l)))
  /\ quota[l].consumed = Total(Charged(l)) /\ IsFiniteSet(Piles(Charged(l)))

\* A new reservation adds its units to those reserved.
LEMMA ReserveSums ==
  ASSUME QuotaTypeOK, Sums, NEW o \in Ops, NEW k \in Kinds, NEW u \in Units,
         Reserve(o, k, u)
  PROVE  RowSums(k)'
<1> USE QuotaAssumption DEF QuotaAssumption
<1>1. /\ quota'[k].reserved = quota[k].reserved + u
      /\ quota'[k].consumed = quota[k].consumed /\ ledger' = ledger
      /\ res'[o][k] = [state |-> "reserved", units |-> u]
      /\ \A p \in Ops \ {o} : res'[p] = res[p]
  BY DEF Reserve, Account, QuotaTypeOK
<1>2. res[o][k].state = "none"
  BY DEF Reserve, Known
<1>3. Charged(k)' = Charged(k)
  BY <1>1 DEF Charged
<1> DEFINE f == Held(k)
           g == Held(k)'
<1>4. f[o] = 0 /\ g[o] = u /\ \A p \in Ops \ {o} : g[p] = f[p]
  BY <1>1, <1>2 DEF Held, Outstanding
<1>5. IsFiniteSet(Piles(f)) /\ quota[k].reserved = Total(f)
  BY DEF Sums, Balanced, FiniteSums
<1>6. IsFiniteSet(Piles(Charged(k))) /\ quota[k].consumed = Total(Charged(k))
  BY DEF Sums, Balanced, FiniteSums
<1> HIDE DEF f, g
<1>7. IsFiniteSet(Piles(g)) /\ Total(g) = Total(f) + u
  BY <1>4, <1>5, TotalGrows
<1>8. quota'[k].reserved = Total(g)
  BY <1>1, <1>5, <1>7
<1> QED
  BY <1>1, <1>3, <1>6, <1>7, <1>8 DEF RowSums, g

\* A settlement moves the operation from the reserved to the consumed units.
LEMMA SettleSums ==
  ASSUME QuotaTypeOK, Sums, ChargedIfSettled, NEW o \in Ops, NEW k \in Kinds,
         NEW u \in Units, Settle(o, k, u)
  PROVE  RowSums(k)'
<1> USE QuotaAssumption DEF QuotaAssumption
<1>1. Outstanding(o, k) /\ res' = ClosedAs(o, k, "settled")
  BY DEF Settle
<1>2. /\ quota'[k].reserved = Unreserved(o, k)
      /\ quota'[k].consumed = quota[k].consumed + u
  BY DEF Settle, Account, QuotaTypeOK
<1>3. /\ IsFiniteSet(Piles(Held(k)')) /\ Unreserved(o, k) = Total(Held(k)')
  BY <1>1, CloseSums
<1>4. ledger[o][k] = NoEntry
  BY <1>1 DEF Outstanding, ChargedIfSettled
<1>5. ledger'[o][k] = u /\ \A p \in Ops \ {o} : ledger'[p] = ledger[p]
  BY <1>4 DEF Settle, QuotaTypeOK
<1> DEFINE f == Charged(k)
           g == Charged(k)'
<1>6. f[o] = 0 /\ g[o] = u /\ \A p \in Ops \ {o} : g[p] = f[p]
  BY <1>4, <1>5 DEF Charged, NoEntry
<1>7. IsFiniteSet(Piles(f)) /\ quota[k].consumed = Total(f)
  BY DEF Sums, Balanced, FiniteSums
<1> HIDE DEF f, g
<1>8. IsFiniteSet(Piles(g)) /\ Total(g) = Total(f) + u
  BY <1>6, <1>7, TotalGrows
<1>9. quota'[k].consumed = Total(g)
  BY <1>2, <1>7, <1>8
<1> QED
  BY <1>2, <1>3, <1>8, <1>9 DEF RowSums, g

\* A release takes the operation off the reserved units.
LEMMA ReleaseSums ==
  ASSUME QuotaTypeOK, Sums, NEW o \in Ops, NEW k \in Kinds, Release(o, k)
  PROVE  RowSums(k)'
<1>1. Outstanding(o, k) /\ res' = ClosedAs(o, k, "released")
  BY DEF Release
<1>2. /\ quota'[k].reserved = Unreserved(o, k)
      /\ quota'[k].consumed = quota[k].consumed /\ ledger' = ledger
  BY DEF Release, Account, QuotaTypeOK
<1>3. IsFiniteSet(Piles(Held(k)')) /\ Unreserved(o, k) = Total(Held(k)')
  BY <1>1, CloseSums
<1>4. Charged(k)' = Charged(k)
  BY <1>2 DEF Charged
<1>5. IsFiniteSet(Piles(Charged(k))) /\ quota[k].consumed = Total(Charged(k))
  BY DEF Sums, Balanced, FiniteSums
<1> QED
  BY <1>2, <1>3, <1>4, <1>5 DEF RowSums

\* Reserve, Settle and Release book on one kind and leave the others alone.
LEMMA OtherKinds ==
  ASSUME QuotaTypeOK, NEW o \in Ops, NEW k \in Kinds, NEW l \in Kinds \ {k},
         (\E u \in Units : Reserve(o, k, u) \/ Settle(o, k, u)) \/ Release(o, k)
  PROVE  /\ quota'[l] = quota[l]
         /\ \A p \in Ops : res'[p][l] = res[p][l] /\ ledger'[p][l] = ledger[p][l]
<1>1. CASE \E u \in Units : Reserve(o, k, u)
  BY <1>1 DEF Reserve, QuotaTypeOK
<1>2. CASE \E u \in Units : Settle(o, k, u)
  BY <1>2 DEF Settle, ClosedAs, QuotaTypeOK
<1>3. CASE Release(o, k)
  BY <1>3 DEF Release, ClosedAs, QuotaTypeOK
<1> QED
  BY <1>1, <1>2, <1>3

LEMMA SumsStep ==
  ASSUME QuotaTypeOK, ChargedIfSettled, Sums, [QuotaNext]_quotaVars
  PROVE  Sums'
<1>1. ASSUME NEW o \in Ops, NEW k \in Kinds,
             (\E u \in Units : Reserve(o, k, u) \/ Settle(o, k, u)) \/ Release(o, k)
      PROVE  Sums'
  <2>1. RowSums(k)'
    BY <1>1, ReserveSums, SettleSums, ReleaseSums
  <2>2. \A l \in Kinds \ {k} : RowSums(l)'
    BY <1>1, OtherKinds, SameSums DEF RowSums
  <2>3. \A l \in Kinds : RowSums(l)'
    BY <2>1, <2>2
  <2> QED
    BY <2>3 DEF RowSums, Sums, Balanced, FiniteSums
<1>2. ASSUME UNCHANGED <<res, ledger>>,
             \A k \in Kinds : /\ quota'[k].reserved = quota[k].reserved
                              /\ quota'[k].consumed = quota[k].consumed
      PROVE  Sums'
  <2>1. \A k \in Kinds : Held(k)' = Held(k) /\ Charged(k)' = Charged(k)
    BY <1>2 DEF Held, Charged, Outstanding
  <2> QED
    BY <1>2, <2>1 DEF Sums, Balanced, FiniteSums
<1>3. CASE \E k \in Kinds, l \in Limits : SetLimit(k, l)
  BY <1>2, <1>3 DEF SetLimit, QuotaTypeOK
<1>4. CASE UNCHANGED quotaVars
  BY <1>2, <1>4 DEF quotaVars
<1> QED
  BY <1>1, <1>3, <1>4 DEF QuotaNext

LEMMA SumsInit == QuotaInit => Sums
<1> SUFFICES ASSUME QuotaInit, NEW k \in Kinds
             PROVE  RowSums(k)
  BY DEF RowSums, Sums, Balanced, FiniteSums
<1>1. \A o \in Ops : Pile(o, Held(k)[o]) = {} /\ Pile(o, Charged(k)[o]) = {}
  BY DEF QuotaInit, Held, Charged, Outstanding, Pile
<1>2. Piles(Held(k)) = {} /\ Piles(Charged(k)) = {}
  BY <1>1 DEF Piles
<1>3. Total(Held(k)) = Cardinality({}) /\ Total(Charged(k)) = Cardinality({})
  BY <1>2 DEF Total, Piles, Pile
<1>4. Cardinality({}) = 0 /\ IsFiniteSet({})
  BY FS_EmptySet
<1> QED
  BY <1>2, <1>3, <1>4 DEF RowSums, QuotaInit

\* Every quota row shows the sums of the reservations and of the ledger, for any
\* operations, amounts and limits, and whatever is repeated or comes late.
THEOREM BalancedCorrect == QuotaSpec => []Balanced
<1>1. Sums => Balanced
  BY DEF Sums
<1> QED
  BY <1>1, SumsInit, SumsStep, QuotaTypeCorrect, ChargedCorrect, PTL DEF QuotaSpec
-----------------------------------------------------------------------------
\* Only a settlement above the reservation, or a lower limit, overdraws a quota.
LEMMA OverdrawnStep ==
  ASSUME QuotaTypeOK, ChargedIfSettled, Sums, QuotaNext, NEW l \in Kinds,
         ~Overdrawn(l), Overdrawn(l)'
  PROVE  \/ quota'[l].limit # quota[l].limit
         \/ \E o \in Ops : ledger'[o][l] # ledger[o][l] /\ ledger'[o][l] > res[o][l].units
<1>u. Units \subseteq Nat
  BY QuotaAssumption DEF QuotaAssumption
<1>t. /\ quota[l].limit \in Int /\ quota[l].reserved \in Nat /\ quota[l].consumed \in Nat
  <2>1. quota[l] \in [limit: Limits \cup {-1}, reserved: Nat, consumed: Nat]
    BY DEF QuotaTypeOK
  <2>2. quota[l].limit \in Limits \cup {-1}
    BY <2>1
  <2>3. Limits \subseteq Int /\ -1 \in Int
    BY QuotaAssumption DEF QuotaAssumption
  <2>4. quota[l].limit \in Int
    BY <2>2, <2>3
  <2> QED
    BY <2>1, <2>4
<1>o. /\ quota[l].limit < 0 \/ quota[l].reserved + quota[l].consumed <= quota[l].limit
      /\ quota'[l].limit >= 0
      /\ quota'[l].reserved + quota'[l].consumed > quota'[l].limit
  BY <1>t DEF Overdrawn
<1>1. ASSUME NEW o \in Ops, NEW u \in Units, Reserve(o, l, u)
      PROVE  FALSE
  <2>1. /\ quota'[l].limit = quota[l].limit
        /\ quota'[l].reserved = quota[l].reserved + u
        /\ quota'[l].consumed = quota[l].consumed
    BY <1>1 DEF Reserve, Account, QuotaTypeOK
  <2>2. quota[l].limit < 0 \/ quota[l].reserved + quota[l].consumed + u <= quota[l].limit
    BY <1>1 DEF Reserve, Fits
  <2> QED
    BY <1>t, <1>o, <1>u, <2>1, <2>2
<1>2. ASSUME NEW o \in Ops, NEW u \in Units, Settle(o, l, u)
      PROVE  ledger'[o][l] # ledger[o][l] /\ ledger'[o][l] > res[o][l].units
  <2>1. Outstanding(o, l) /\ res' = ClosedAs(o, l, "settled")
    BY <1>2 DEF Settle
  <2>2. /\ quota'[l].limit = quota[l].limit
        /\ quota'[l].reserved = Unreserved(o, l)
        /\ quota'[l].consumed = quota[l].consumed + u
    BY <1>2 DEF Settle, Account, QuotaTypeOK
  <2>3. Unreserved(o, l) = quota[l].reserved - res[o][l].units
    BY <2>1, CloseSums
  <2>4. ledger[o][l] = NoEntry
    BY <2>1 DEF Outstanding, ChargedIfSettled
  <2>5. ledger'[o][l] = u
    BY <1>2, <2>4 DEF Settle, QuotaTypeOK
  <2>6. res[o][l].units \in Nat
    BY Amounts
  <2>7. u \in Nat
    BY <1>u
  <2>8. quota[l].limit >= 0 /\ quota[l].reserved + quota[l].consumed <= quota[l].limit
    BY <1>t, <1>o, <2>2
  <2>9. (quota[l].reserved - res[o][l].units) + (quota[l].consumed + u) > quota[l].limit
    BY <1>o, <2>2, <2>3
  <2>10. u > res[o][l].units
    BY <1>t, <2>6, <2>7, <2>8, <2>9
  <2> QED
    BY <2>4, <2>5, <2>7, <2>10 DEF NoEntry
<1>3. ASSUME NEW o \in Ops, Release(o, l)
      PROVE  FALSE
  <2>1. Outstanding(o, l) /\ res' = ClosedAs(o, l, "released")
    BY <1>3 DEF Release
  <2>2. /\ quota'[l].limit = quota[l].limit
        /\ quota'[l].reserved = Unreserved(o, l)
        /\ quota'[l].consumed = quota[l].consumed
    BY <1>3 DEF Release, Account, QuotaTypeOK
  <2>3. Unreserved(o, l) = quota[l].reserved - res[o][l].units
    BY <2>1, CloseSums
  <2>4. res[o][l].units \in Nat
    BY Amounts
  <2> QED
    BY <1>t, <1>o, <2>2, <2>3, <2>4
<1>4. ASSUME NEW o \in Ops, NEW k \in Kinds \ {l},
             (\E u \in Units : Reserve(o, k, u) \/ Settle(o, k, u)) \/ Release(o, k)
      PROVE  FALSE
  <2>1. quota'[l] = quota[l]
    BY <1>4, OtherKinds
  <2> QED
    BY <2>1 DEF Overdrawn
<1>5. ASSUME NEW k \in Kinds, NEW n \in Limits, SetLimit(k, n)
      PROVE  quota'[l].limit # quota[l].limit
  <2>1. /\ quota'[l].reserved = quota[l].reserved
        /\ quota'[l].consumed = quota[l].consumed
    BY <1>5 DEF SetLimit, QuotaTypeOK
  <2> QED
    BY <2>1 DEF Overdrawn
<1> QED
  BY <1>1, <1>2, <1>3, <1>4, <1>5 DEF QuotaNext

\* A quota is overdrawn only by an operation that settles more than it reserved,
\* or by a lower limit; never by a reservation.
THEOREM OverdrawnCorrect == QuotaSpec => OverdrawnBySettle
<1> DEFINE Excused == \A k \in Kinds : ~Overdrawn(k) /\ Overdrawn(k)' =>
             \/ quota'[k].limit # quota[k].limit
             \/ \E o \in Ops : ledger'[o][k] # ledger[o][k]
                               /\ ledger'[o][k] > res[o][k].units
<1>1. QuotaTypeOK /\ ChargedIfSettled /\ Sums /\ [QuotaNext]_quotaVars => [Excused]_quotaVars
  BY OverdrawnStep
<1>2. QuotaSpec => []Sums
  BY SumsInit, SumsStep, QuotaTypeCorrect, ChargedCorrect, PTL DEF QuotaSpec
<1> QED
  BY <1>1, <1>2, QuotaTypeCorrect, ChargedCorrect, PTL DEF QuotaSpec, OverdrawnBySettle
=============================================================================
