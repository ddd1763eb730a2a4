-------------------------- MODULE TenantScheduling --------------------------
(***************************************************************************)
(* The scheduling of jobs across tenants on PostgreSQL: the function       *)
(* ppts_claim_next_job, behind Worker.claimNext, picks the next job by the *)
(* load of its tenant and caps the narration jobs a tenant may have in     *)
(* flight.  JobQueue models what becomes of a claim; here a job only waits,*)
(* runs and ends, and the process that runs it may crash.                  *)
(*                                                                         *)
(* The function is one statement of a READ COMMITTED transaction: the load *)
(* is counted on the statement's snapshot, and only the row it locks is    *)
(* looked at again.  It takes two steps here, Read and Take.               *)
(***************************************************************************)
EXTENDS Naturals, FiniteSets

CONSTANTS
  Jobs,        \* jobs; a finished one may stand for a new submission
  Tenants,
  TenantOf,    \* Jobs -> Tenants
  Narrations,  \* the jobs of kind narration
  Cap,         \* Tenants -> policy max_concurrent_jobs, 0: none
  Executors,   \* the goroutines that run Worker.Run
  Processes,
  Proc,        \* Executors -> Processes
  NoJob,
  Recycled,    \* the jobs that are submitted again and again
  MaxCrashes   \* bound: crashes of a process

ASSUME SchedulingAssumption ==
  /\ TenantOf \in [Jobs -> Tenants]
  /\ Narrations \subseteq Jobs /\ Recycled \subseteq Jobs
  /\ Cap \in [Tenants -> Nat]
  /\ Proc \in [Executors -> Processes]
  /\ NoJob \notin Jobs
  /\ IsFiniteSet(Jobs) /\ IsFiniteSet(Processes)
  /\ MaxCrashes \in Nat

VARIABLES
  state,    \* Jobs -> "absent", "waiting", "running" or "ended"
  ahead,    \* Jobs -> the rows with an earlier created_at
  lapsed,   \* the running jobs whose lease has run out
  exe,      \* Executors -> what the executor is doing
  crashes   \* crashes so far

vars == <<state, ahead, lapsed, exe, crashes>>

Idle == [pc |-> "idle", job |-> NoJob, fits |-> {}, load |-> [t \in Tenants |-> 0]]

Init ==
  /\ state = [j \in Jobs |-> "absent"]
  /\ ahead = [j \in Jobs |-> {}]
  /\ lapsed = {}
  /\ exe = [e \in Executors |-> Idle]
  /\ crashes = 0
-----------------------------------------------------------------------------
(* The snapshot *)

RunningOf(t) == {j \in Jobs : TenantOf[j] = t /\ state[j] = "running"}

\* running_narration of tenant_load: a job whose worker has died counts too.
RunningNarrations(t) == RunningOf(t) \cap Narrations

BelowCap(j) ==
  LET t == TenantOf[j]
  IN  j \notin Narrations \/ Cap[t] = 0 \/ Cardinality(RunningNarrations(t)) < Cap[t]

Eligible(j) == state[j] = "waiting" \/ (state[j] = "running" /\ j \in lapsed)

\* Mutant: claimNext without claimMu.
Unserialized(e) == TRUE

\* claimMu: the executors of a process claim one after the other.
HasClaimMu(e) == \A f \in Executors : Proc[f] = Proc[e] => exe[f].pc # "claiming"

Fitting == {j \in Jobs : Eligible(j) /\ BelowCap(j)}

\* tenant_load, which decides nothing among the jobs of one tenant.
Load == [t \in Tenants |-> IF Cardinality({TenantOf[j] : j \in Fitting}) > 1
                           THEN Cardinality(RunningOf(t)) ELSE 0]

\* tenant_load, tenant_cap and the WHERE clause of candidate.
Read(e) ==
  /\ exe[e].pc = "idle" /\ HasClaimMu(e)
  /\ exe' = [exe EXCEPT ![e] =
               [pc |-> "claiming", job |-> NoJob, fits |-> Fitting, load |-> Load]]
  /\ UNCHANGED <<state, ahead, lapsed, crashes>>
-----------------------------------------------------------------------------
(* The claim *)

\* Mutant: the newest job goes first.
NewestFirst(e, j, k) == k \in ahead[j]

\* ORDER BY running_count, created_at
Precedes(e, j, k) ==
  LET a == exe[e].load[TenantOf[j]]
      b == exe[e].load[TenantOf[k]]
  IN  a < b \/ (a = b /\ j \in ahead[k])

\* FOR UPDATE looks again at the row it locks, but at no other one: the rows
\* somebody has claimed since the snapshot are passed over.
Candidates(e) == {j \in exe[e].fits : Eligible(j)}

Take(e) ==
  /\ exe[e].pc = "claiming"
  /\ \E j \in Candidates(e) :
       /\ \A k \in Candidates(e) \ {j} : Precedes(e, j, k)
       /\ state' = [state EXCEPT ![j] = "running"]
       /\ lapsed' = lapsed \ {j}
       /\ exe' = [exe EXCEPT ![e] = [Idle EXCEPT !.pc = "working", !.job = j]]
  /\ UNCHANGED <<ahead, crashes>>

\* ErrNoJob: sleep until the next poll.
TakeNone(e) ==
  /\ exe[e].pc = "claiming" /\ Candidates(e) = {}
  /\ exe' = [exe EXCEPT ![e] = Idle]
  /\ UNCHANGED <<state, ahead, lapsed, crashes>>

\* Worker.process has committed the outcome.  A job that has ended is ahead of
\* no other one.
Finish(e) ==
  /\ exe[e].pc = "working"
  /\ state' = [state EXCEPT ![exe[e].job] = "ended"]
  /\ ahead' = [k \in Jobs |-> IF k = exe[e].job THEN {} ELSE ahead[k] \ {exe[e].job}]
  /\ exe' = [exe EXCEPT ![e] = Idle]
  /\ UNCHANGED <<lapsed, crashes>>
-----------------------------------------------------------------------------
\* Store.Create.
Submit(j) ==
  /\ state[j] = "absent"
  /\ state' = [state EXCEPT ![j] = "waiting"]
  /\ ahead' = [ahead EXCEPT ![j] = {k \in Jobs : state[k] \notin {"absent", "ended"}}]
  /\ UNCHANGED <<lapsed, exe, crashes>>

\* A finished job makes room for the name of a new one, which no snapshot has.
Recycle(j) ==
  /\ j \in Recycled /\ state[j] = "ended"
  /\ state' = [state EXCEPT ![j] = "absent"]
  /\ exe' = [e \in Executors |-> [exe[e] EXCEPT !.fits = @ \ {j}]]
  /\ UNCHANGED <<ahead, lapsed, crashes>>

\* lease_until of a job whose process has died comes to pass.
Lapse(j) ==
  /\ state[j] = "running" /\ j \notin lapsed
  /\ \A e \in Executors : exe[e].job # j
  /\ lapsed' = lapsed \cup {j}
  /\ UNCHANGED <<state, ahead, exe, crashes>>

Crash(p) ==
  /\ crashes < MaxCrashes
  /\ \E e \in Executors : Proc[e] = p /\ exe[e].pc # "idle"
  /\ exe' = [e \in Executors |-> IF Proc[e] = p THEN Idle ELSE exe[e]]
  /\ crashes' = crashes + 1
  /\ UNCHANGED <<state, ahead, lapsed>>

Worker(e) == Read(e) \/ Take(e) \/ TakeNone(e) \/ Finish(e)

Next ==
  \/ \E j \in Jobs : Submit(j) \/ Recycle(j) \/ Lapse(j)
  \/ \E e \in Executors : Worker(e)
  \/ \E p \in Processes : Crash(p)

Spec == Init /\ [][Next]_vars

\* The loops of the workers run and leases run out; nobody has to submit.
FairSpec ==
  /\ Spec
  /\ \A e \in Executors : WF_vars(Worker(e))
  /\ \A j \in Jobs : WF_vars(Lapse(j))
-----------------------------------------------------------------------------
TypeOK ==
  /\ state \in [Jobs -> {"absent", "waiting", "running", "ended"}]
  /\ ahead \in [Jobs -> SUBSET Jobs]
  /\ lapsed \subseteq Jobs
  /\ exe \in [Executors -> [pc: {"idle", "claiming", "working"}, job: Jobs \cup {NoJob},
                            fits: SUBSET Jobs, load: [Tenants -> Nat]]]
  /\ \A e \in Executors : exe[e].job # NoJob <=> exe[e].pc = "working"
  /\ crashes \in Nat

\* Every running job is being worked on, has just lost its process, or may be
\* taken over; and no two executors work on the same one.
RunningAccounted ==
  /\ lapsed \subseteq {j \in Jobs : state[j] = "running"}
  /\ \A e \in Executors : exe[e].pc = "working" =>
       /\ state[exe[e].job] = "running" /\ exe[e].job \notin lapsed
       /\ \A f \in Executors : exe[f].job = exe[e].job => f = e

\* Stale snapshots let a tenant exceed its cap by at most one job for each
\* other process: the mutex of claimNext keeps them apart within one.
CapNearlyKept ==
  \A t \in Tenants : Cap[t] > 0 =>
    Cardinality(RunningNarrations(t)) <= Cap[t] + Cardinality(Processes) - 1

\* Unless a process crashes nobody starves: a job that waits is claimed at last,
\* whatever its own and the other tenants keep submitting.
EveryJobRuns ==
  \A j \in Jobs : state[j] = "waiting" ~> (state[j] # "waiting" \/ crashes > 0)
-----------------------------------------------------------------------------
(* A statement of the source that the code does not keep *)

\* A job whose worker crashed is claimed again once its lease has run out.
CrashedReclaimed ==
  \A j \in Jobs : j \in lapsed ~> j \notin lapsed
=============================================================================
