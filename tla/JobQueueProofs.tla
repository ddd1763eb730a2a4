--------------------------- MODULE JobQueueProofs ---------------------------
(***************************************************************************)
(* Proofs about JobQueue for every set of jobs, executors and processes    *)
(* and every bound.                                                        *)
(***************************************************************************)
EXTENDS JobQueue, TLAPS

USE DEF Waiting, Active, Final, Settled

\* The records written by the store's statements are rows.
LEMMA ReleasedType ==
  ASSUME NEW j \in Jobs, row[j] \in Row, NEW s \in JobStates
  PROVE  Released(j, s) \in Row
BY DEF Released, Row

\* An idle executor is well typed.
LEMMA IdleType == Idle \in Exe
BY DEF Idle, Exe, Outcomes, StepStates

\* What process decides is a state of the job, and waiting only after a retry.
LEMMA VerdictType ==
  ASSUME NEW e \in Executors
  PROVE  Verdict(e) \in Settled \cup {"retry_wait"}
BY DEF Verdict

\* Whatever a step write finds, it leaves step rows.
LEMMA UpsertedType ==
  ASSUME TypeOK, NEW e \in Executors, Busy(e), NEW s \in StepStates \cup {"none"}
  PROVE  Upserted(e, s) \in [Jobs -> Step]
<1> DEFINE new == [state |-> s, by |-> exe[e].token]
<1>1. exe[e] \in Exe /\ exe[e].job \in Jobs /\ step \in [Jobs -> Step]
  BY DEF TypeOK
<1>2. new \in Step
  BY <1>1 DEF Exe, Step
<1> HIDE DEF new
<1>3. Overwritten(step[exe[e].job], new) \in Step
  BY <1>1, <1>2 DEF Overwritten
<1>4. Upserted(e, s) = [step EXCEPT ![exe[e].job] = Overwritten(step[exe[e].job], new)]
  BY DEF Upserted, new
<1> QED  BY <1>1, <1>3, <1>4

\* The requeued row of RetryFailed is a row.
LEMMA RequeuedType ==
  ASSUME NEW r \in Row, NEW n \in Nat
  PROVE  [r EXCEPT !.state = "queued", !.due = TRUE, !.owner = NoProcess,
                   !.lease = "none", !.requeues = n] \in Row
BY DEF Row, JobStates

LEMMA DueType ==
  ASSUME NEW r \in Row, NEW d \in BOOLEAN
  PROVE  [r EXCEPT !.due = d] \in Row
BY DEF Row

LEMMA LeaseType ==
  ASSUME NEW r \in Row, NEW l \in {"none", "live", "expired"}
  PROVE  [r EXCEPT !.lease = l] \in Row
BY DEF Row

\* A claimed row is a row.
LEMMA ClaimedRowType ==
  ASSUME NEW r \in Row, NEW s \in Active, NEW n \in Nat, NEW p \in Processes, NEW t \in Nat
  PROVE  [r EXCEPT !.state = s, !.attempt = n, !.owner = p, !.lease = "live",
                   !.fencing = t] \in Row
BY DEF Row, JobStates

\* The updates of an executor's local state keep it typed, and keep its job.
LEMMA MarkingType ==
  ASSUME NEW x \in Exe, NEW s \in StepStates
  PROVE  /\ [x EXCEPT !.pc = "marking", !.mark = s] \in Exe
         /\ [x EXCEPT !.pc = "marking", !.mark = s].job = x.job
BY DEF Exe

LEMMA MarkedType ==
  ASSUME NEW x \in Exe
  PROVE  /\ [x EXCEPT !.pc = "handling", !.mark = "none"] \in Exe
         /\ [x EXCEPT !.pc = "handling", !.mark = "none"].job = x.job
BY DEF Exe

LEMMA ReturnedType ==
  ASSUME NEW x \in Exe, NEW o \in Outcomes
  PROVE  /\ [x EXCEPT !.pc = "returned", !.outcome = o, !.stop = TRUE] \in Exe
         /\ [x EXCEPT !.pc = "returned", !.outcome = o, !.stop = TRUE].job = x.job
BY DEF Exe

LEMMA StoppedType ==
  ASSUME NEW x \in Exe
  PROVE  /\ [x EXCEPT !.hb = "off", !.canceled = TRUE, !.stop = TRUE] \in Exe
         /\ [x EXCEPT !.hb = "off", !.canceled = TRUE, !.stop = TRUE].job = x.job
         /\ [x EXCEPT !.hb = "off", !.canceled = TRUE, !.stop = TRUE].pc = x.pc
BY DEF Exe

\* A step that writes one row and nothing else.
LEMMA RowStep ==
  ASSUME TypeOK, NEW j \in Jobs, NEW r \in Row, row' = [row EXCEPT ![j] = r],
         UNCHANGED <<ahead, step, exe, faults>>
  PROVE  TypeOK'
BY DEF TypeOK, Busy

\* A step that writes one executor, whatever it does to well-typed rows.
LEMMA ExeStep ==
  ASSUME TypeOK, NEW e \in Executors, NEW x \in Exe,
         x.pc # "idle" => x.job \in Jobs,
         exe' = [exe EXCEPT ![e] = x]
  PROVE  /\ exe' \in [Executors -> Exe]
         /\ \A f \in Executors : Busy(f)' => exe'[f].job \in Jobs
BY DEF TypeOK, Busy

LEMMA TypeInit == Init => TypeOK
<1> SUFFICES ASSUME Init PROVE TypeOK
  OBVIOUS
<1>1. NewRow \in Row
  BY QueueAssumption DEF NewRow, Row, JobStates
<1>2. \A e \in Executors : ~Busy(e)
  BY DEF Init, Busy, Idle
<1>3. [state |-> "none", by |-> 0] \in Step
  BY DEF Step
<1> QED
  BY <1>1, <1>2, <1>3, IdleType DEF Init, TypeOK

\* A fenced credential is that of a job.
LEMMA MatchesJob ==
  ASSUME TypeOK, NEW e \in Executors, Matches(e)
  PROVE  exe[e].job \in Jobs /\ Busy(e) /\ exe[e].pc # "idle"
BY DEF TypeOK, Matches, Busy

\* Every step keeps the types.
LEMMA TypeNext == TypeOK /\ [Next]_vars => TypeOK'
<1> SUFFICES ASSUME TypeOK, [Next]_vars PROVE TypeOK'
  OBVIOUS
<1>a. /\ row \in [Jobs -> Row]
      /\ ahead \in [Jobs -> SUBSET Jobs]
      /\ step \in [Jobs -> Step]
      /\ exe \in [Executors -> Exe]
      /\ \A e \in Executors : Busy(e) => exe[e].job \in Jobs
      /\ faults \in Nat
  BY DEF TypeOK
<1>1. ASSUME NEW j \in Jobs, Client(j) PROVE TypeOK'
  <2>1. CASE Create(j)
    <3>1. [row[j] EXCEPT !.state = "queued"] \in Row
      BY <1>a DEF Row, JobStates
    <3>2. row' = [row EXCEPT ![j] = [row[j] EXCEPT !.state = "queued"]]
      BY <2>1 DEF Create
    <3>3. row' \in [Jobs -> Row]
      BY <1>a, <3>1, <3>2
    <3>4. ahead' \in [Jobs -> SUBSET Jobs] /\ UNCHANGED <<step, exe, faults>>
      BY <1>a, <2>1 DEF Create
    <3> QED  BY <1>a, <3>3, <3>4 DEF TypeOK, Busy
  <2>2. CASE Cancel(j)
    <3> DEFINE s == IF row[j].state \in Waiting THEN "canceled" ELSE "cancel_requested"
    <3>1. [row[j] EXCEPT !.state = s] \in Row
      BY <1>a DEF Row, JobStates
    <3>2. row' = [row EXCEPT ![j] = [row[j] EXCEPT !.state = s]]
      BY <2>2 DEF Cancel
    <3> QED  BY <2>2, <3>1, <3>2, RowStep DEF Cancel
  <2>3. CASE RetryFailed(j)
    <3> DEFINE r == [row[j] EXCEPT !.state = "queued", !.due = TRUE, !.owner = NoProcess,
                                   !.lease = "none", !.requeues = row[j].requeues + 1]
    <3>1. row[j] \in Row /\ row[j].requeues + 1 \in Nat
      BY <1>a DEF Row
    <3>2. r \in Row
      BY <3>1, RequeuedType
    <3>3. row' = [row EXCEPT ![j] = r] /\ UNCHANGED <<ahead, step, exe, faults>>
      BY <2>3 DEF RetryFailed
    <3> HIDE DEF r
    <3> QED  BY <3>2, <3>3, RowStep
  <2> QED  BY <1>1, <2>1, <2>2, <2>3 DEF Client
<1>2. ASSUME NEW j \in Jobs, Clock(j) PROVE TypeOK'
  <2>1. CASE BackoffEnds(j)
    <3>a. row[j] \in Row
      BY <1>a
    <3>1. [row[j] EXCEPT !.due = TRUE] \in Row
      BY <3>a, DueType
    <3>2. row' = [row EXCEPT ![j] = [row[j] EXCEPT !.due = TRUE]]
      BY <2>1 DEF BackoffEnds
    <3> QED  BY <2>1, <3>1, <3>2, RowStep DEF BackoffEnds
  <2>2. CASE LeaseLapses(j)
    <3>1. [row[j] EXCEPT !.lease = "expired"] \in Row
      BY <1>a DEF Row
    <3>2. row' = [row EXCEPT ![j] = [row[j] EXCEPT !.lease = "expired"]]
      BY <2>2 DEF LeaseLapses
    <3> QED  BY <2>2, <3>1, <3>2, RowStep DEF LeaseLapses
  <2> QED  BY <1>2, <2>1, <2>2 DEF Clock
<1>3. ASSUME NEW e \in Executors, Claim(e) PROVE TypeOK'
  <2>1. PICK j \in Jobs : ClaimJob(e, j)
    BY <1>3 DEF Claim
  <2> DEFINE newRow == [row[j] EXCEPT !.state = ClaimedState(j),
                          !.attempt = row[j].attempt + 1, !.owner = Proc[e],
                          !.lease = "live", !.fencing = NextToken(j)]
  <2> DEFINE pc == IF ClaimedState(j) = "cancel_requested"
                   THEN "pending_cancel" ELSE "handling"
             hb == IF ClaimedState(j) = "cancel_requested" THEN "off" ELSE "on"
             newExe == [pc |-> pc, job |-> j, token |-> NextToken(j),
                        attempt |-> row[j].attempt + 1, hb |-> hb, canceled |-> FALSE,
                        stop |-> FALSE, outcome |-> "none", mark |-> "none"]
  <2>a. row[j] \in Row /\ row[j].attempt + 1 \in Nat /\ NextToken(j) \in Nat
    BY <1>a DEF Row, NextToken
  <2>b. ClaimedState(j) \in Active /\ Proc[e] \in Processes
    BY QueueAssumption DEF ClaimedState
  <2>2. newRow \in Row
    BY <2>a, <2>b, ClaimedRowType
  <2>c. pc \in {"pending_cancel", "handling"} /\ hb \in {"on", "off"}
    OBVIOUS
  <2> HIDE DEF pc, hb
  <2>3. newExe \in Exe /\ newExe.job = j
    BY <2>a, <2>c DEF Exe, Outcomes
  <2> USE DEF pc, hb
  <2>4. /\ row' = [row EXCEPT ![j] = newRow]
        /\ exe' = [exe EXCEPT ![e] = newExe]
        /\ UNCHANGED <<ahead, step, faults>>
    BY <2>1 DEF ClaimJob
  <2> HIDE DEF newRow, newExe
  <2> QED  BY <1>a, <2>2, <2>3, <2>4, ExeStep DEF TypeOK
<1>4. ASSUME NEW e \in Executors, Handler(e) PROVE TypeOK'
  <2>1. ASSUME NEW s \in MarkStates, MarkStep(e, s) PROVE TypeOK'
    <3>1. Busy(e) /\ s \in StepStates
      BY <2>1, MatchesJob, QueueAssumption DEF MarkStep, MayMark
    <3>3. step' \in [Jobs -> Step]
      BY <2>1, <3>1, UpsertedType DEF MarkStep
    <3> QED  BY <1>a, <2>1, <3>3 DEF MarkStep, TypeOK, Busy
  <2>2. ASSUME NEW s \in MarkStates, AssertLease(e, s) PROVE TypeOK'
    <3> DEFINE x == [exe[e] EXCEPT !.pc = "marking", !.mark = s]
    <3>1. exe' = [exe EXCEPT ![e] = x] /\ UNCHANGED <<row, ahead, step, faults>>
      BY <2>2 DEF AssertLease
    <3>2. s \in StepStates /\ exe[e].job \in Jobs /\ exe[e] \in Exe
      BY <1>a, <2>2, MatchesJob, QueueAssumption DEF AssertLease, MayMark
    <3>3. x \in Exe /\ x.job \in Jobs
      BY <3>2, MarkingType
    <3> HIDE DEF x
    <3> QED  BY <1>a, <3>1, <3>3, ExeStep DEF TypeOK
  <2>3. CASE UpsertStep(e)
    <3> DEFINE x == [exe[e] EXCEPT !.pc = "handling", !.mark = "none"]
    <3>1. exe' = [exe EXCEPT ![e] = x] /\ UNCHANGED <<row, ahead, faults>>
      BY <2>3 DEF UpsertStep
    <3>2. exe[e].job \in Jobs /\ exe[e].mark \in StepStates \cup {"none"}
      BY <1>a, <2>3 DEF UpsertStep, Exe, Busy
    <3>3. x \in Exe /\ x.job \in Jobs
      BY <1>a, <3>2, MarkedType
    <3>4. step' = Upserted(e, exe[e].mark) /\ Busy(e)
      BY <2>3 DEF UpsertStep, Busy
    <3>5. step' \in [Jobs -> Step]
      BY <3>2, <3>4, UpsertedType
    <3> HIDE DEF x
    <3> QED  BY <1>a, <3>1, <3>3, <3>5, ExeStep DEF TypeOK
  <2> QED  BY <1>4, <2>1, <2>2, <2>3 DEF Handler
<1>5. ASSUME NEW e \in Executors, HandlerReturns(e) PROVE TypeOK'
  <2>1. PICK o \in Outcomes :
          exe' = [exe EXCEPT ![e] = [exe[e] EXCEPT !.pc = "returned", !.outcome = o,
                                                   !.stop = TRUE]]
    BY <1>5 DEF HandlerReturns
  <2> DEFINE x == [exe[e] EXCEPT !.pc = "returned", !.outcome = o, !.stop = TRUE]
  <2>2. exe' = [exe EXCEPT ![e] = x] /\ UNCHANGED <<row, ahead, step, faults>>
    BY <1>5, <2>1 DEF HandlerReturns
  <2>3. exe[e].job \in Jobs /\ exe[e] \in Exe
    BY <1>a, <1>5 DEF HandlerReturns, Busy
  <2>4. x \in Exe /\ x.job \in Jobs
    BY <2>3, ReturnedType
  <2> HIDE DEF x
  <2> QED  BY <1>a, <2>2, <2>4, ExeStep DEF TypeOK
<1>6. ASSUME NEW e \in Executors, Heartbeat(e) PROVE TypeOK'
  <2>a. UNCHANGED <<ahead, step, faults>> /\ exe[e] \in Exe
    BY <1>6, <1>a DEF Heartbeat
  <2>1. CASE /\ Matches(e)
             /\ row' = [row EXCEPT ![exe[e].job].lease = "live"]
             /\ UNCHANGED exe
    <3> DEFINE j == exe[e].job
    <3>a. j \in Jobs /\ row[j] \in Row
      BY <1>a, <2>1, MatchesJob
    <3>b. [row[j] EXCEPT !.lease = "live"] \in Row
      BY <3>a, LeaseType
    <3>c. row' = [row EXCEPT ![j] = [row[j] EXCEPT !.lease = "live"]]
      BY <2>1
    <3>1. row' \in [Jobs -> Row]
      BY <1>a, <3>a, <3>b, <3>c
    <3> QED  BY <1>a, <2>a, <2>1, <3>1 DEF TypeOK, Busy
  <2>2. CASE /\ Matches(e)
             /\ exe' = [exe EXCEPT ![e] = [exe[e] EXCEPT !.hb = "off", !.canceled = TRUE,
                                                       !.stop = TRUE]]
             /\ UNCHANGED row
    <3> DEFINE x == [exe[e] EXCEPT !.hb = "off", !.canceled = TRUE, !.stop = TRUE]
    <3>1. x \in Exe /\ x.job \in Jobs
      BY <2>a, <2>2, MatchesJob, StoppedType
    <3>2. exe' = [exe EXCEPT ![e] = x]
      BY <2>2
    <3> HIDE DEF x
    <3> QED  BY <1>a, <2>a, <2>2, <3>1, <3>2, ExeStep DEF TypeOK
  <2>3. CASE exe' = [exe EXCEPT ![e].hb = "lost"] /\ UNCHANGED row
    BY <1>a, <2>a, <2>3 DEF TypeOK, Busy, Exe
  <2> QED  BY <1>6, <2>1, <2>2, <2>3 DEF Heartbeat
<1>7. ASSUME NEW e \in Executors, HeartbeatStops(e) PROVE TypeOK'
  BY <1>a, <1>7 DEF HeartbeatStops, TypeOK, Busy, Exe
<1>8. ASSUME NEW e \in Executors, Commit(e) PROVE TypeOK'
  <2>1. CASE Complete(e)
    <3> DEFINE v == Verdict(e)
               x == AfterComplete(e, v)
    <3>1. exe[e].job \in Jobs /\ Busy(e) /\ row[exe[e].job] \in Row /\ exe[e] \in Exe
      BY <1>a, <2>1, MatchesJob DEF Complete
    <3>2. Released(exe[e].job, v) \in Row
      BY <3>1, ReleasedType, VerdictType DEF JobStates
    <3>3. x \in Exe /\ (x.pc # "idle" => x.job \in Jobs)
      BY <3>1, IdleType DEF AfterComplete, Exe, Idle
    <3>4. step' \in [Jobs -> Step]
      <4>1. step' \in {step, Upserted(e, "success")}
        BY <2>1 DEF Complete
      <4> QED  BY <1>a, <3>1, <4>1, UpsertedType DEF StepStates
    <3>5. /\ row' = [row EXCEPT ![exe[e].job] = Released(exe[e].job, v)]
          /\ exe' = [exe EXCEPT ![e] = x]
          /\ UNCHANGED <<ahead, faults>>
      BY <2>1 DEF Complete
    <3> HIDE DEF v, x
    <3> QED  BY <1>a, <3>1, <3>2, <3>3, <3>4, <3>5, ExeStep DEF TypeOK
  <2>2. CASE ScheduleRetry(e)
    <3> DEFINE r == [Released(exe[e].job, "retry_wait") EXCEPT !.due = FALSE]
    <3>1. exe[e].job \in Jobs
      BY <2>2, MatchesJob DEF ScheduleRetry
    <3>2. Released(exe[e].job, "retry_wait") \in Row
      BY <1>a, <3>1, ReleasedType DEF JobStates
    <3>3. r \in Row
      BY <3>2 DEF Row
    <3>4. /\ row' = [row EXCEPT ![exe[e].job] = r]
          /\ exe' = [exe EXCEPT ![e] = Idle]
          /\ UNCHANGED <<ahead, step, faults>>
      BY <2>2 DEF ScheduleRetry
    <3> HIDE DEF r
    <3> QED  BY <1>a, <3>1, <3>3, <3>4, IdleType DEF TypeOK, Busy, Idle
  <2>3. CASE CommitRejected(e)
    BY <1>a, <2>3, IdleType DEF CommitRejected, TypeOK, Busy, Idle
  <2> QED  BY <1>8, <2>1, <2>2, <2>3 DEF Commit
<1>9. ASSUME NEW e \in Executors, HookReturns(e) PROVE TypeOK'
  BY <1>a, <1>9, IdleType DEF HookReturns, TypeOK, Busy, Idle
<1>10. CASE Fault
  <2>1. ASSUME NEW j \in Jobs, LeaseOverrun(j) PROVE TypeOK'
    <3>1. row' = [row EXCEPT ![j] = [row[j] EXCEPT !.lease = "expired"]]
      BY <2>1 DEF LeaseOverrun
    <3>2. [row[j] EXCEPT !.lease = "expired"] \in Row
      BY <1>a DEF Row
    <3>3. faults' \in Nat /\ UNCHANGED <<ahead, step, exe>>
      BY <1>a, <2>1 DEF LeaseOverrun
    <3> QED  BY <1>a, <3>1, <3>2, <3>3 DEF TypeOK, Busy
  <2>2. ASSUME NEW e \in Executors, HeartbeatFails(e) PROVE TypeOK'
    BY <1>a, <2>2 DEF HeartbeatFails, TypeOK, Busy, Exe
  <2>3. ASSUME NEW e \in Executors, CommitLost(e) PROVE TypeOK'
    BY <1>a, <2>3, IdleType DEF CommitLost, TypeOK, Busy, Idle
  <2>4. ASSUME NEW p \in Processes, Crash(p) PROVE TypeOK'
    BY <1>a, <2>4, IdleType DEF Crash, TypeOK, Busy, Idle
  <2> QED  BY <1>10, <2>1, <2>2, <2>3, <2>4 DEF Fault
<1>11. CASE UNCHANGED vars
  BY <1>11 DEF vars, TypeOK, Busy
<1> QED  BY <1>1, <1>2, <1>3, <1>4, <1>5, <1>6, <1>7, <1>8, <1>9, <1>10, <1>11 DEF Next

\* The variables keep their types in every behaviour.
THEOREM TypeCorrect == Spec => []TypeOK
BY TypeInit, TypeNext, PTL DEF Spec
-----------------------------------------------------------------------------
(* What one step can do to a row, and to an executor *)

\* A client's Create or Cancel.
Moves(j) ==
  /\ \/ row[j].state = "absent" /\ row'[j].state = "queued"
     \/ row[j].state \in Waiting /\ row'[j].state = "canceled"
     \/ row[j].state = "running" /\ row'[j].state = "cancel_requested"
  /\ row'[j].owner = row[j].owner /\ row'[j].fencing = row[j].fencing
  /\ row'[j].lease = row[j].lease
  /\ UNCHANGED <<exe, step, faults>>

\* RetryFailed.
Requeues(j) ==
  /\ row[j].state \in {"failed", "unknown_provider_result"}
  /\ row'[j].state = "queued"
  /\ row'[j].owner = NoProcess /\ row'[j].fencing = row[j].fencing
  /\ row'[j].lease = "none"
  /\ UNCHANGED <<exe, step, faults>>

\* The clock and the heartbeat write lease and due only.
Relets(j) ==
  /\ row'[j].state = row[j].state
  /\ row'[j].owner = row[j].owner /\ row'[j].fencing = row[j].fencing
  /\ \/ row'[j].lease = row[j].lease
     \/ /\ row[j].lease = "live" /\ row'[j].lease = "expired"
        /\ Holders(j) = {} \/ faults' = faults + 1
     \/ row[j].state = "running" /\ row'[j].lease = "live"
  /\ UNCHANGED <<exe, step>>

\* ClaimNext by e.
Takes(e, j) ==
  /\ Claimable(j) /\ exe[e].pc = "idle"
  /\ row'[j].state = ClaimedState(j)
  /\ row'[j].owner = Proc[e] /\ row'[j].fencing = row[j].fencing + 1
  /\ row'[j].lease = "live"
  /\ exe' = [exe EXCEPT ![e] = exe'[e]]
  /\ exe'[e].job = j /\ exe'[e].token = row[j].fencing + 1
  /\ exe'[e].pc = IF ClaimedState(j) = "cancel_requested"
                  THEN "pending_cancel" ELSE "handling"
  /\ \A k \in Jobs : k # j => row'[k] = row[k]
  /\ UNCHANGED <<step, faults>>

\* Complete or ScheduleRetry by e, whose credential the row has.
Ends(e, j) ==
  /\ Matches(e) /\ exe[e].job = j
  /\ row[j].state \in Active
  /\ \/ row'[j].state \in Settled
     \/ row[j].state = "running" /\ row'[j].state = "retry_wait"
  /\ row'[j].owner = NoProcess /\ row'[j].fencing = row[j].fencing
  /\ row'[j].lease = "none"
  /\ exe' = [exe EXCEPT ![e] = exe'[e]]
  /\ exe'[e].pc \in {"idle", "hook"}
  /\ exe'[e].pc = "hook" => exe'[e].job = j /\ exe'[e].token = exe[e].token
  /\ \A k \in Jobs : k # j => row'[k] = row[k]
  /\ UNCHANGED faults

\* An executor keeps its claim, or drops it, and starts no handler.
KeepsClaim(e) ==
  /\ Busy(e)' => /\ Busy(e)
                 /\ exe'[e].job = exe[e].job /\ exe'[e].token = exe[e].token
  /\ Working(e)' => Working(e)

\* A step writes at most one row, in one of these ways; unless it is a claim, no
\* executor gets another claim.
StepCases ==
  /\ faults' \in {faults, faults + 1}
  /\ \/ \E e \in Executors, j \in Jobs : Takes(e, j)
     \/ \E e \in Executors, j \in Jobs : Ends(e, j)
     \/ /\ \A e \in Executors : KeepsClaim(e)
        /\ \A j \in Jobs : row'[j] = row[j]
     \/ \E j \in Jobs :
          /\ Moves(j) \/ Requeues(j) \/ Relets(j)
          /\ \A e \in Executors : KeepsClaim(e)
          /\ \A k \in Jobs : k # j => row'[k] = row[k]

\* The actions of JobQueue fall under these cases.
LEMMA StepLemma == TypeOK /\ [Next]_vars => StepCases
<1> SUFFICES ASSUME TypeOK, [Next]_vars PROVE StepCases
  OBVIOUS
<1>a. /\ row \in [Jobs -> Row] /\ exe \in [Executors -> Exe] /\ faults \in Nat
      /\ \A e \in Executors : Busy(e) => exe[e].job \in Jobs
  BY DEF TypeOK
<1>b. (\A e \in Executors : KeepsClaim(e)) /\ UNCHANGED <<row, faults>> => StepCases
  BY DEF StepCases
<1>c. UNCHANGED exe => \A e \in Executors : KeepsClaim(e)
  BY DEF KeepsClaim, Busy, Working
<1>1. ASSUME NEW j \in Jobs, Client(j) PROVE StepCases
  <2>1. Moves(j) \/ Requeues(j)
    <3>1. CASE Create(j)
      BY <1>a, <3>1 DEF Create, Moves, Row
    <3>2. CASE Cancel(j)
      BY <1>a, <3>2 DEF Cancel, Cancelable, Moves, Row
    <3>3. CASE RetryFailed(j)
      BY <1>a, <3>3 DEF RetryFailed, Requeues, Row
    <3> QED  BY <1>1, <3>1, <3>2, <3>3 DEF Client
  <2>2. \A k \in Jobs : k # j => row'[k] = row[k]
    BY <1>1, <1>a DEF Client, Create, Cancel, RetryFailed
  <2>3. UNCHANGED <<exe, faults>>
    BY <1>1 DEF Client, Create, Cancel, RetryFailed
  <2> QED  BY <1>c, <2>1, <2>2, <2>3 DEF StepCases
<1>2. ASSUME NEW j \in Jobs, Clock(j) \/ LeaseOverrun(j) PROVE StepCases
  <2>1. Relets(j)
    BY <1>2, <1>a DEF Clock, BackoffEnds, LeaseLapses, LeaseOverrun, Relets, Row
  <2>2. \A k \in Jobs : k # j => row'[k] = row[k]
    BY <1>2, <1>a DEF Clock, BackoffEnds, LeaseLapses, LeaseOverrun
  <2>3. UNCHANGED exe /\ faults' \in {faults, faults + 1}
    BY <1>2 DEF Clock, BackoffEnds, LeaseLapses, LeaseOverrun
  <2> QED  BY <1>c, <2>1, <2>2, <2>3 DEF StepCases
<1>3. ASSUME NEW e \in Executors, Claim(e) PROVE StepCases
  <2>1. PICK j \in Jobs : Claimable(j) /\ ClaimJob(e, j)
    BY <1>3 DEF Claim, Candidate
  <2>2. Takes(e, j)
    BY <1>a, <2>1 DEF ClaimJob, Takes, NextToken, Row, Exe
  <2> QED  BY <2>1, <2>2 DEF StepCases, Takes
<1>4. ASSUME NEW e \in Executors, Handler(e) \/ HandlerReturns(e) \/ HeartbeatStops(e)
                                    \/ HookReturns(e) \/ CommitRejected(e)
      PROVE  StepCases
  <2>1. UNCHANGED <<row, faults>>
    BY <1>4 DEF Handler, MarkStep, AssertLease, UpsertStep, HandlerReturns,
                HeartbeatStops, HookReturns, CommitRejected
  <2>2. CASE UNCHANGED exe
    BY <1>b, <1>c, <2>1, <2>2
  <2>3. CASE exe' = [exe EXCEPT ![e] = Idle]
    <3>1. \A f \in Executors : KeepsClaim(f)
      BY <1>a, <2>3 DEF KeepsClaim, Busy, Working, Idle
    <3> QED  BY <1>b, <2>1, <3>1
  <2>4. CASE HeartbeatStops(e)
    <3>1. \A f \in Executors : KeepsClaim(f)
      BY <1>a, <2>4 DEF HeartbeatStops, KeepsClaim, Busy, Working, Exe
    <3> QED  BY <1>b, <2>1, <3>1
  <2>5. ASSUME NEW s \in MarkStates, AssertLease(e, s) PROVE StepCases
    <3>1. exe' = [exe EXCEPT ![e] = [exe[e] EXCEPT !.pc = "marking", !.mark = s]]
          /\ exe[e].pc = "handling"
      BY <2>5 DEF AssertLease, MayMark
    <3>2. \A f \in Executors : KeepsClaim(f)
      BY <1>a, <3>1 DEF KeepsClaim, Busy, Working, Exe
    <3> QED  BY <1>b, <2>1, <3>2
  <2>6. CASE UpsertStep(e)
    <3>1. exe' = [exe EXCEPT ![e] = [exe[e] EXCEPT !.pc = "handling", !.mark = "none"]]
          /\ exe[e].pc = "marking"
      BY <2>6 DEF UpsertStep
    <3>2. \A f \in Executors : KeepsClaim(f)
      BY <1>a, <3>1 DEF KeepsClaim, Busy, Working, Exe
    <3> QED  BY <1>b, <2>1, <3>2
  <2>7. CASE HandlerReturns(e)
    <3>1. PICK o \in Outcomes :
            exe' = [exe EXCEPT ![e] = [exe[e] EXCEPT !.pc = "returned", !.outcome = o,
                                                     !.stop = TRUE]]
      BY <2>7 DEF HandlerReturns
    <3>2. exe[e].pc = "handling"
      BY <2>7 DEF HandlerReturns
    <3>3. \A f \in Executors : KeepsClaim(f)
      BY <1>a, <3>1, <3>2 DEF KeepsClaim, Busy, Working, Exe
    <3> QED  BY <1>b, <2>1, <3>3
  <2> QED
    BY <1>4, <2>2, <2>3, <2>4, <2>5, <2>6, <2>7
       DEF Handler, MarkStep, HookReturns, CommitRejected
<1>5. ASSUME NEW e \in Executors, Heartbeat(e) PROVE StepCases
  <2> DEFINE j == exe[e].job
  <2>1. CASE Matches(e) /\ row[j].state = "running"
             /\ row' = [row EXCEPT ![j].lease = "live"] /\ UNCHANGED exe
    <3>1. j \in Jobs /\ UNCHANGED <<step, faults>>
      BY <1>5, <2>1, MatchesJob DEF Heartbeat
    <3>2. Relets(j)
      BY <1>a, <2>1, <3>1 DEF Relets, Row
    <3>3. \A k \in Jobs : k # j => row'[k] = row[k]
      BY <1>a, <2>1
    <3> QED  BY <1>c, <2>1, <3>1, <3>2, <3>3 DEF StepCases
  <2>2. CASE UNCHANGED row
    <3>1. ASSUME exe' = [exe EXCEPT ![e].hb = "lost"]
          PROVE  \A f \in Executors : KeepsClaim(f)
      BY <1>a, <3>1 DEF KeepsClaim, Busy, Working, Exe
    <3>2. ASSUME exe' = [exe EXCEPT ![e] = [exe[e] EXCEPT !.hb = "off",
                                                   !.canceled = TRUE, !.stop = TRUE]]
          PROVE  \A f \in Executors : KeepsClaim(f)
      BY <1>a, <3>2 DEF KeepsClaim, Busy, Working, Exe
    <3>3. \A f \in Executors : KeepsClaim(f)
      BY <1>5, <1>c, <3>1, <3>2 DEF Heartbeat
    <3> QED  BY <1>b, <1>5, <2>2, <3>3 DEF Heartbeat
  <2> QED  BY <1>5, <2>1, <2>2 DEF Heartbeat
<1>6. ASSUME NEW e \in Executors, Complete(e) \/ ScheduleRetry(e) PROVE StepCases
  <2> DEFINE j == exe[e].job
  <2>1. j \in Jobs /\ Busy(e) /\ Matches(e) /\ UNCHANGED faults
    BY <1>6, MatchesJob DEF Complete, ScheduleRetry
  <2>2. \A k \in Jobs : k # j => row'[k] = row[k]
    BY <1>6, <1>a DEF Complete, ScheduleRetry
  <2>3. Ends(e, j)
    <3>1. CASE Complete(e)
      <4>1. Verdict(e) \in Settled
        BY <3>1, VerdictType DEF Complete
      <4>2. row'[j] = Released(j, Verdict(e)) /\ row[j].state \in Active
        BY <3>1, <1>a, <2>1 DEF Complete
      <4>3. exe' = [exe EXCEPT ![e] = AfterComplete(e, Verdict(e))]
        BY <3>1 DEF Complete
      <4>4. /\ exe'[e] = AfterComplete(e, Verdict(e))
            /\ exe' = [exe EXCEPT ![e] = exe'[e]]
        BY <4>3, <1>a
      <4>5. /\ exe'[e].pc \in {"idle", "hook"}
            /\ exe'[e].pc = "hook" => exe'[e].job = j /\ exe'[e].token = exe[e].token
        BY <4>4, <1>a DEF AfterComplete, Idle, Exe
      <4>6. /\ row'[j].state = Verdict(e) /\ row'[j].owner = NoProcess
            /\ row'[j].fencing = row[j].fencing /\ row'[j].lease = "none"
        BY <4>2, <1>a, <2>1 DEF Released, Row
      <4> QED  BY <2>1, <2>2, <4>1, <4>2, <4>4, <4>5, <4>6 DEF Ends
    <3>2. CASE ScheduleRetry(e)
      <4>1. /\ row[j].state = "running"
            /\ row'[j] = [Released(j, "retry_wait") EXCEPT !.due = FALSE]
        BY <3>2, <1>a, <2>1 DEF ScheduleRetry
      <4>2. exe' = [exe EXCEPT ![e] = Idle]
        BY <3>2 DEF ScheduleRetry
      <4>3. exe'[e].pc = "idle" /\ exe' = [exe EXCEPT ![e] = exe'[e]]
        BY <4>2, <1>a DEF Idle
      <4>4. /\ row'[j].state = "retry_wait" /\ row'[j].owner = NoProcess
            /\ row'[j].fencing = row[j].fencing /\ row'[j].lease = "none"
        BY <4>1, <1>a, <2>1 DEF Released, Row
      <4> QED  BY <2>1, <2>2, <4>1, <4>3, <4>4 DEF Ends
    <3> QED  BY <1>6, <3>1, <3>2
  <2> QED  BY <2>1, <2>3 DEF StepCases
<1>7. ASSUME NEW e \in Executors, HeartbeatFails(e) \/ CommitLost(e) PROVE StepCases
  <2>1. \A f \in Executors : KeepsClaim(f)
    BY <1>7, <1>a DEF HeartbeatFails, CommitLost, KeepsClaim, Busy, Working, Idle, Exe
  <2> QED  BY <1>7, <2>1 DEF HeartbeatFails, CommitLost, StepCases
<1>8. ASSUME NEW p \in Processes, Crash(p) PROVE StepCases
  <2>1. \A f \in Executors : KeepsClaim(f)
    BY <1>8, <1>a DEF Crash, KeepsClaim, Busy, Working, Idle
  <2> QED  BY <1>8, <2>1 DEF Crash, StepCases
<1>9. CASE UNCHANGED vars
  BY <1>9, <1>b, <1>c DEF vars
<1> QED
  BY <1>1, <1>2, <1>3, <1>4, <1>5, <1>6, <1>7, <1>8, <1>9 DEF Next, Fault, Commit
-----------------------------------------------------------------------------
(* The safety invariant *)

\* UniqueHolder is not inductive: it needs that tokens are never reissued.
Inv ==
  /\ TypeOK
  /\ LeaseWhileActive
  /\ TokensApart

LEMMA InvInit == Init => Inv
<1> SUFFICES ASSUME Init PROVE Inv
  OBVIOUS
<1>1. LeaseWhileActive
  BY DEF Init, NewRow, LeaseWhileActive
<1>2. TokensApart
  BY DEF Init, Idle, TokensApart, Busy
<1> QED  BY <1>1, <1>2, TypeInit DEF Inv

\* A row is leased while its job is in flight: each way to write a row keeps it.
LEMMA LeaseNext == TypeOK /\ LeaseWhileActive /\ StepCases => LeaseWhileActive'
<1> SUFFICES ASSUME TypeOK, LeaseWhileActive, StepCases, NEW j \in Jobs
             PROVE  /\ row'[j].state \in Active <=> row'[j].owner # NoProcess
                    /\ row'[j].state \in Active <=> row'[j].lease # "none"
  BY DEF LeaseWhileActive
<1>a. /\ row[j].state \in Active <=> row[j].owner # NoProcess
      /\ row[j].state \in Active <=> row[j].lease # "none"
  BY DEF LeaseWhileActive
<1>1. ASSUME NEW e \in Executors, NEW k \in Jobs, Takes(e, k) PROVE
        /\ row'[j].state \in Active <=> row'[j].owner # NoProcess
        /\ row'[j].state \in Active <=> row'[j].lease # "none"
  <2>1. Proc[e] # NoProcess
    BY QueueAssumption
  <2> QED  BY <1>a, <1>1, <2>1 DEF Takes, ClaimedState
<1>2. ASSUME NEW e \in Executors, NEW k \in Jobs, Ends(e, k) PROVE
        /\ row'[j].state \in Active <=> row'[j].owner # NoProcess
        /\ row'[j].state \in Active <=> row'[j].lease # "none"
  BY <1>a, <1>2 DEF Ends
<1>3. ASSUME NEW k \in Jobs, Moves(k) \/ Requeues(k) \/ Relets(k),
             \A i \in Jobs : i # k => row'[i] = row[i]
      PROVE  /\ row'[j].state \in Active <=> row'[j].owner # NoProcess
             /\ row'[j].state \in Active <=> row'[j].lease # "none"
  <2>1. CASE Moves(k)
    BY <1>a, <1>3, <2>1 DEF Moves
  <2>2. CASE Requeues(k)
    BY <1>a, <1>3, <2>2 DEF Requeues
  <2>3. CASE Relets(k)
    BY <1>a, <1>3, <2>3 DEF Relets
  <2> QED  BY <1>3, <2>1, <2>2, <2>3
<1> QED  BY <1>a, <1>1, <1>2, <1>3 DEF StepCases

\* No step but a claim gives an executor a token, and a claim's token is new.
LEMMA TokensNext == TypeOK /\ TokensApart /\ StepCases => TokensApart'
<1> SUFFICES ASSUME TypeOK, TokensApart, StepCases PROVE TokensApart'
  OBVIOUS
<1>a. /\ \A e \in Executors : Busy(e) => exe[e].job \in Jobs
      /\ \A e \in Executors : exe[e].token \in Nat
      /\ \A j \in Jobs : row[j].fencing \in Nat
      /\ exe \in [Executors -> Exe]
  BY DEF TypeOK, Exe, Row
<1>b. /\ \A e \in Executors : Busy(e) => exe[e].token <= row[exe[e].job].fencing
      /\ \A e1, e2 \in Executors :
           Busy(e1) /\ Busy(e2) /\ exe[e1].job = exe[e2].job /\ exe[e1].token = exe[e2].token
             => e1 = e2
  BY DEF TokensApart
<1>1. ASSUME NEW e \in Executors, NEW j \in Jobs, Takes(e, j) PROVE TokensApart'
  <2>1. /\ exe'[e].job = j /\ exe'[e].token = row[j].fencing + 1
        /\ row'[j].fencing = row[j].fencing + 1
        /\ \A k \in Jobs : k # j => row'[k] = row[k]
        /\ \A f \in Executors : f # e => exe'[f] = exe[f]
    BY <1>a, <1>1 DEF Takes
  <2>2. \A f \in Executors : Busy(f)' => exe'[f].token <= row'[exe'[f].job].fencing
    BY <1>a, <1>b, <2>1 DEF Busy
  <2>3. ASSUME NEW e1 \in Executors, NEW e2 \in Executors, Busy(e1)', Busy(e2)',
               exe'[e1].job = exe'[e2].job, exe'[e1].token = exe'[e2].token
        PROVE  e1 = e2
    BY <1>a, <1>b, <2>1, <2>3 DEF Busy
  <2> QED  BY <2>2, <2>3 DEF TokensApart
<1>2. ASSUME \A e \in Executors : Busy(e)' => /\ Busy(e)
                                              /\ exe'[e].job = exe[e].job
                                              /\ exe'[e].token = exe[e].token,
             \A j \in Jobs : row'[j].fencing = row[j].fencing
      PROVE  TokensApart'
  BY <1>a, <1>b, <1>2 DEF TokensApart
<1>3. ASSUME NEW e \in Executors, NEW j \in Jobs, Ends(e, j) PROVE TokensApart'
  <2>1. \A k \in Jobs : row'[k].fencing = row[k].fencing
    BY <1>3 DEF Ends
  <2>2. \A f \in Executors : Busy(f)' => /\ Busy(f)
                                         /\ exe'[f].job = exe[f].job
                                         /\ exe'[f].token = exe[f].token
    BY <1>a, <1>3 DEF Ends, Busy, Matches
  <2> QED  BY <1>2, <2>1, <2>2
<1>4. ASSUME \A e \in Executors : KeepsClaim(e),
             NEW j \in Jobs, Moves(j) \/ Requeues(j) \/ Relets(j),
             \A k \in Jobs : k # j => row'[k] = row[k]
      PROVE  TokensApart'
  <2>1. \A k \in Jobs : row'[k].fencing = row[k].fencing
    BY <1>4 DEF Moves, Requeues, Relets
  <2> QED  BY <1>2, <1>4, <2>1 DEF KeepsClaim
<1>5. ASSUME \A e \in Executors : KeepsClaim(e), \A j \in Jobs : row'[j] = row[j]
      PROVE  TokensApart'
  BY <1>2, <1>5 DEF KeepsClaim
<1> QED  BY <1>1, <1>3, <1>4, <1>5 DEF StepCases

LEMMA InvNext == Inv /\ [Next]_vars => Inv'
BY TypeNext, StepLemma, LeaseNext, TokensNext DEF Inv

\* Two holders of a job would have the row's token both.
LEMMA InvUnique == Inv => UniqueHolder
BY DEF Inv, TokensApart, UniqueHolder, Holders, Matches

\* A row is owned and leased exactly while its job is in flight.
THEOREM LeaseCorrect == Spec => []LeaseWhileActive
<1>1. Inv => LeaseWhileActive
  BY DEF Inv
<1> QED  BY <1>1, InvInit, InvNext, PTL DEF Spec

\* No two claims of a job share a token.
THEOREM TokensCorrect == Spec => []TokensApart
<1>1. Inv => TokensApart
  BY DEF Inv
<1> QED  BY <1>1, InvInit, InvNext, PTL DEF Spec

\* Whoever crashes, stalls or is overtaken, at most one executor can commit.
THEOREM HolderCorrect == Spec => []UniqueHolder
BY InvInit, InvNext, InvUnique, PTL DEF Spec
-----------------------------------------------------------------------------
(* Handlers that overlap *)

\* While nothing has failed, a running handler has its row's credential and a
\* live lease.
HandlersHold ==
  faults = 0 =>
    \A e \in Executors : Working(e) => Matches(e) /\ row[exe[e].job].lease = "live"

LEMMA HandlersNext == Inv /\ HandlersHold /\ [Next]_vars => HandlersHold'
<1> SUFFICES ASSUME Inv, HandlersHold, [Next]_vars, faults' = 0,
                    NEW e \in Executors, Working(e)'
             PROVE  Matches(e)' /\ row'[exe'[e].job].lease = "live"
  BY DEF HandlersHold
<1>a. TypeOK /\ LeaseWhileActive /\ UniqueHolder /\ StepCases
  BY InvUnique, StepLemma DEF Inv
<1>b. /\ faults \in Nat /\ exe \in [Executors -> Exe]
      /\ \A f \in Executors : Busy(f) => exe[f].job \in Jobs
  BY <1>a DEF TypeOK
<1>c. faults = 0
  BY <1>a, <1>b DEF StepCases
<1>d. Working(e) => Matches(e) /\ row[exe[e].job].lease = "live" /\ exe[e].job \in Jobs
  BY <1>b, <1>c DEF HandlersHold, Working, Busy
<1>1. ASSUME NEW f \in Executors, NEW j \in Jobs, Takes(f, j)
      PROVE  Matches(e)' /\ row'[exe'[e].job].lease = "live"
  <2>1. CASE e = f
    BY <1>1, <2>1 DEF Takes, Matches, Busy, Working
  <2>2. CASE e # f
    <3>1. exe'[e] = exe[e] /\ Working(e)
      BY <1>1, <1>b, <2>2 DEF Takes, Working
    <3>2. exe[e].job # j
      BY <1>1, <1>a, <1>d, <3>1, QueueAssumption
         DEF Takes, Claimable, Matches, LeaseWhileActive
    <3> QED  BY <1>1, <1>d, <3>1, <3>2 DEF Takes, Matches, Busy
  <2> QED  BY <2>1, <2>2
<1>2. ASSUME NEW f \in Executors, NEW j \in Jobs, Ends(f, j)
      PROVE  Matches(e)' /\ row'[exe'[e].job].lease = "live"
  <2>1. e # f
    BY <1>2 DEF Ends, Working
  <2>2. exe'[e] = exe[e] /\ Working(e)
    BY <1>2, <1>b, <2>1 DEF Ends, Working
  <2>3. exe[e].job # j
    BY <1>2, <1>a, <1>d, <2>1, <2>2 DEF Ends, UniqueHolder, Holders
  <2> QED  BY <1>2, <1>d, <2>2, <2>3 DEF Ends, Matches, Busy
<1>3. ASSUME NEW j \in Jobs, Moves(j) \/ Requeues(j) \/ Relets(j),
             \A f \in Executors : KeepsClaim(f),
             \A k \in Jobs : k # j => row'[k] = row[k]
      PROVE  Matches(e)' /\ row'[exe'[e].job].lease = "live"
  <2>1. /\ Working(e) /\ Busy(e)'
        /\ exe'[e].job = exe[e].job /\ exe'[e].token = exe[e].token
    BY <1>3 DEF KeepsClaim, Working, Busy
  <2>2. CASE Moves(j)
    BY <1>3, <1>d, <2>1, <2>2 DEF Moves, Matches
  <2>3. CASE Requeues(j)
    <3>1. row[j].owner = NoProcess
      BY <1>a, <2>3 DEF Requeues, LeaseWhileActive
    <3>2. exe[e].job # j
      BY <1>d, <2>1, <3>1, QueueAssumption DEF Matches
    <3> QED  BY <1>3, <1>d, <2>1, <3>2 DEF Matches
  <2>4. CASE Relets(j)
    <3>1. faults' # faults + 1
      BY <1>c
    <3>2. exe[e].job = j => e \in Holders(j)
      BY <1>d, <2>1 DEF Holders
    <3> QED  BY <1>3, <1>d, <2>1, <2>4, <3>1, <3>2 DEF Relets, Matches
  <2> QED  BY <1>3, <2>2, <2>3, <2>4
<1>4. ASSUME \A f \in Executors : KeepsClaim(f), \A j \in Jobs : row'[j] = row[j]
      PROVE  Matches(e)' /\ row'[exe'[e].job].lease = "live"
  BY <1>4, <1>d DEF KeepsClaim, Working, Matches, Busy
<1> QED  BY <1>a, <1>1, <1>2, <1>3, <1>4 DEF StepCases

\* Two handlers of one job overlap only after a fault.
THEOREM OverlapCorrect == Spec => []OverlapNeedsFault
<1>1. Init => HandlersHold
  BY DEF Init, HandlersHold, Working, Idle
<1>2. Inv /\ HandlersHold => OverlapNeedsFault
  <2> SUFFICES ASSUME Inv, HandlersHold, faults = 0, NEW e1 \in Executors,
                      NEW e2 \in Executors, Working(e1), Working(e2),
                      exe[e1].job = exe[e2].job
               PROVE  e1 = e2
    BY DEF OverlapNeedsFault
  <2>1. Matches(e1) /\ Matches(e2) /\ exe[e1].job \in Jobs
    BY DEF HandlersHold, Inv, TypeOK, Working, Busy
  <2> QED  BY <2>1, InvUnique DEF UniqueHolder, Holders
<1> QED  BY <1>1, <1>2, InvInit, InvNext, HandlersNext, PTL DEF Spec
-----------------------------------------------------------------------------
(* What a step may never do *)

\* A job leaves the active states by the hand of its latest claim only.
THEOREM CommitsCorrect == Spec => LatestClaimCommits
<1>1. Inv /\ [Next]_vars =>
        [\A j \in Jobs :
           row[j].state \in Active /\ row'[j].state \notin Active =>
             \E e \in Executors :
               /\ exe[e].job = j /\ exe[e].token = row[j].fencing
               /\ exe'[e].pc \in {"idle", "hook"}]_vars
  <2> SUFFICES ASSUME Inv, [Next]_vars, NEW j \in Jobs,
                      row[j].state \in Active, row'[j].state \notin Active
               PROVE  \E e \in Executors :
                        /\ exe[e].job = j /\ exe[e].token = row[j].fencing
                        /\ exe'[e].pc \in {"idle", "hook"}
    OBVIOUS
  <2>1. StepCases
    BY StepLemma DEF Inv
  <2>2. ASSUME NEW e \in Executors, NEW k \in Jobs, Takes(e, k) PROVE FALSE
    BY <2>2 DEF Takes, ClaimedState
  <2>3. ASSUME NEW k \in Jobs, Moves(k) \/ Requeues(k) \/ Relets(k),
               \A i \in Jobs : i # k => row'[i] = row[i]
        PROVE  FALSE
    BY <2>3 DEF Moves, Requeues, Relets
  <2>4. PICK e \in Executors, k \in Jobs : Ends(e, k)
    BY <2>1, <2>2, <2>3 DEF StepCases
  <2>5. k = j
    BY <2>4 DEF Ends
  <2> QED  BY <2>4, <2>5 DEF Ends, Matches
<1> QED  BY <1>1, InvInit, InvNext, PTL DEF Spec, LatestClaimCommits

\* A job that was asked to stop is not handed out again and only settles.
THEOREM CancelCorrect == Spec => CancelHonoured
<1>1. Inv /\ [Next]_vars =>
        [/\ \A j \in Jobs : row[j].state = "cancel_requested" =>
              row'[j].state \in {"cancel_requested"} \cup Settled
         /\ \A e \in Executors : ~Working(e) /\ exe'[e].pc = "handling" =>
              row[exe'[e].job].state # "cancel_requested"]_vars
  <2> SUFFICES ASSUME Inv, [Next]_vars
               PROVE  /\ \A j \in Jobs : row[j].state = "cancel_requested" =>
                           row'[j].state \in {"cancel_requested"} \cup Settled
                      /\ \A e \in Executors : ~Working(e) /\ exe'[e].pc = "handling" =>
                           row[exe'[e].job].state # "cancel_requested"
    OBVIOUS
  <2>1. StepCases /\ exe \in [Executors -> Exe]
    BY StepLemma DEF Inv, TypeOK
  <2>2. ASSUME NEW j \in Jobs, row[j].state = "cancel_requested"
        PROVE  row'[j].state \in {"cancel_requested"} \cup Settled
    BY <2>1, <2>2 DEF StepCases, Takes, ClaimedState, Ends, Moves, Requeues, Relets
  <2>3. ASSUME NEW e \in Executors, ~Working(e), exe'[e].pc = "handling"
        PROVE  row[exe'[e].job].state # "cancel_requested"
    <3>1. Working(e)'
      BY <2>3 DEF Working
    <3>2. PICK f \in Executors, j \in Jobs : Takes(f, j) \/ Ends(f, j)
      BY <2>1, <2>3, <3>1 DEF StepCases, KeepsClaim
    <3>3. e = f
      BY <2>1, <2>3, <3>2 DEF Takes, Ends, Working
    <3>4. Takes(f, j)
      BY <2>3, <3>2, <3>3 DEF Ends
    <3> QED  BY <2>3, <3>3, <3>4 DEF Takes, ClaimedState
  <2> QED  BY <2>2, <2>3
<1> QED  BY <1>1, InvInit, InvNext, PTL DEF Spec, CancelHonoured
-----------------------------------------------------------------------------
(* The refinement of JobLifecycle *)

\* The holder of a job is its only element of Holders.
LEMMA HolderIs ==
  ASSUME UniqueHolder, NEW j \in Jobs
  PROVE  /\ Holders(j) = {} => HolderOf(j) = NoProcess
         /\ \A e \in Holders(j) : HolderOf(j) = e
<1>1. \A e \in Holders(j) : e \in Executors
  BY DEF Holders
<1> QED  BY <1>1 DEF HolderOf, UniqueHolder

\* Holders of one set have one choice: equal sets give equal holders.
LEMMA SameHolder ==
  ASSUME NEW j \in Jobs, Holders(j)' = Holders(j)
  PROVE  HolderOf(j)' = HolderOf(j)
BY DEF HolderOf

LEMMA LifecycleInit == Init => Lifecycle!Init
<1> SUFFICES ASSUME Init PROVE Lifecycle!Init
  OBVIOUS
<1>1. \A j \in Jobs : row[j].state = "absent"
  BY DEF Init, NewRow
<1>2. \A j \in Jobs : Holders(j) = {}
  BY DEF Init, Idle, Holders, Matches, Busy
<1>3. \A j \in Jobs : HolderOf(j) = NoProcess
  BY <1>2 DEF HolderOf
<1> QED  BY <1>1, <1>3 DEF Lifecycle!Init

\* Every step is a step of JobLifecycle or leaves its variables alone.
LEMMA LifecycleNext == Inv /\ [Next]_vars => [Lifecycle!Next]_(Lifecycle!vars)
<1> DEFINE State  == [j \in Jobs |-> row[j].state]
           Holder == [j \in Jobs |-> HolderOf(j)]
<1> SUFFICES ASSUME Inv, [Next]_vars
             PROVE  Lifecycle!Next \/ UNCHANGED <<State, Holder>>
  BY DEF Lifecycle!vars
<1>a. TypeOK /\ LeaseWhileActive /\ TokensApart /\ UniqueHolder /\ StepCases
  BY InvUnique, StepLemma DEF Inv
<1>b. /\ exe \in [Executors -> Exe]
      /\ \A e \in Executors : Busy(e) => exe[e].job \in Jobs
      /\ \A e \in Executors : exe[e].token \in Nat
      /\ \A j \in Jobs : row[j].fencing \in Nat
  BY <1>a DEF TypeOK, Exe, Row
<1>1. ASSUME NEW e \in Executors, NEW j \in Jobs, Takes(e, j) PROVE Lifecycle!Next
  <2>1. \A k \in Jobs : e \notin Holders(k)
    BY <1>1 DEF Takes, Holders, Matches, Busy
  <2>2. \A k \in Jobs : HolderOf(k) # e
    BY <1>a, <2>1, HolderIs, QueueAssumption DEF HolderOf
  <2>3. Holders(j)' = {e}
    BY <1>1, <1>a, <1>b DEF Takes, Holders, Matches, Busy, TokensApart
  <2>4. HolderOf(j)' = e
    BY <2>3 DEF HolderOf
  <2>5. ASSUME NEW k \in Jobs, k # j PROVE HolderOf(k)' = HolderOf(k)
    <3>1. Holders(k)' = Holders(k)
      BY <1>1, <1>b, <2>1, <2>5 DEF Takes, Holders, Matches, Busy
    <3> QED  BY <3>1, SameHolder
  <2>6. Holder' = [Holder EXCEPT ![j] = e]
    BY <2>4, <2>5
  <2>7. /\ State[j] \in Waiting \cup Active
        /\ State' = [State EXCEPT ![j] = IF State[j] \in Waiting THEN "running"
                                                               ELSE State[j]]
    BY <1>1 DEF Takes, Claimable, ClaimedState
  <2>8. Lifecycle!Acquire(j, e)
    BY <2>2, <2>6, <2>7
       DEF Lifecycle!Acquire, Lifecycle!Runnable, Lifecycle!InFlight
  <2> QED  BY <2>8 DEF Lifecycle!Next
<1>2. ASSUME NEW e \in Executors, NEW j \in Jobs, Ends(e, j) PROVE Lifecycle!Next
  <2>1. e \in Holders(j)
    BY <1>2 DEF Ends, Holders
  <2>2. Holder[j] # NoProcess
    BY <1>a, <2>1, HolderIs, QueueAssumption
  <2>3. Holders(j)' = {}
    BY <1>2, QueueAssumption DEF Ends, Holders, Matches
  <2>4. HolderOf(j)' = NoProcess
    BY <2>3 DEF HolderOf
  <2>5. ASSUME NEW k \in Jobs, k # j PROVE HolderOf(k)' = HolderOf(k)
    <3>1. Holders(k)' = Holders(k)
      BY <1>2, <1>b, <2>5 DEF Ends, Holders, Matches, Busy
    <3> QED  BY <3>1, SameHolder
  <2>6. Holder' = [Holder EXCEPT ![j] = NoProcess]
    BY <2>4, <2>5
  <2>a. row'[j].state \in Settled \cup {"retry_wait"}
    BY <1>2 DEF Ends
  <2>b. PICK s \in Settled \cup {"retry_wait"} : s = row'[j].state
    BY <2>a
  <2>7. /\ \/ State[j] \in Active /\ s \in Settled
           \/ State[j] = "running" /\ s = "retry_wait"
        /\ State' = [State EXCEPT ![j] = s]
    BY <1>2, <2>b DEF Ends
  <2>8. Lifecycle!Finish(j, s)
    BY <2>2, <2>6, <2>7
       DEF Lifecycle!Finish, Lifecycle!InFlight, Lifecycle!Outcome
  <2>9. s \in Lifecycle!Outcome \cup {"retry_wait"}
    BY DEF Lifecycle!Outcome
  <2> QED  BY <2>8, <2>9 DEF Lifecycle!Next
<1>3. ASSUME \A e \in Executors : KeepsClaim(e), \A j \in Jobs : row'[j] = row[j]
      PROVE  Lifecycle!Next
  <2>1. UNCHANGED State
    BY <1>3
  <2>2. ASSUME NEW j \in Jobs PROVE HolderOf(j)' \in {HolderOf(j), NoProcess}
    <3>1. \A e \in Holders(j)' : e \in Holders(j)
      BY <1>3 DEF KeepsClaim, Holders, Matches, Busy
    <3>2. CASE Holders(j)' = {}
      BY <3>2 DEF HolderOf
    <3>3. CASE Holders(j)' # {}
      <4>1. PICK e \in Holders(j)' : TRUE
        BY <3>3
      <4>2. e \in Executors /\ e \in Holders(j)
        BY <3>1, <4>1 DEF Holders
      <4>3. Holders(j)' = Holders(j)
        BY <1>a, <3>1, <4>1, <4>2 DEF UniqueHolder
      <4> QED  BY <4>3, SameHolder
    <3> QED  BY <3>2, <3>3
  <2>3. ASSUME NEW j \in Jobs PROVE HolderOf(j)' \in Executors \cup {NoProcess}
    BY DEF HolderOf, Holders
  <2>4. Holder' \in [Jobs -> Executors \cup {NoProcess}]
    BY <2>3
  <2>5. Lifecycle!Abandon
    BY <2>1, <2>2, <2>4 DEF Lifecycle!Abandon
  <2> QED  BY <2>5 DEF Lifecycle!Next
<1>4. ASSUME NEW j \in Jobs, Moves(j) \/ Requeues(j) \/ Relets(j),
             \A k \in Jobs : k # j => row'[k] = row[k]
      PROVE  Lifecycle!Next \/ UNCHANGED <<State, Holder>>
  <2>1. ASSUME NEW k \in Jobs PROVE Holders(k)' = Holders(k)
    <3>1. UNCHANGED exe /\ row'[k].fencing = row[k].fencing
      BY <1>4 DEF Moves, Requeues, Relets
    <3>2. row'[k].owner = row[k].owner
      BY <1>4, <1>a DEF Moves, Requeues, Relets, LeaseWhileActive
    <3> QED  BY <3>1, <3>2 DEF Holders, Matches, Busy
  <2>2. UNCHANGED Holder
    BY <2>1, SameHolder
  <2>3. CASE Moves(j)
    <3>1. \/ State[j] = "absent" /\ State' = [State EXCEPT ![j] = "queued"]
          \/ State[j] \in Waiting /\ State' = [State EXCEPT ![j] = "canceled"]
          \/ State[j] = "running" /\ State' = [State EXCEPT ![j] = "cancel_requested"]
      BY <1>4, <2>3 DEF Moves
    <3>2. Lifecycle!Submit(j) \/ Lifecycle!RequestCancel(j)
      BY <2>2, <3>1
         DEF Lifecycle!Submit, Lifecycle!RequestCancel, Lifecycle!Runnable
    <3> QED  BY <3>2 DEF Lifecycle!Next
  <2>4. CASE Requeues(j)
    <3>1. /\ State[j] \in {"failed", "unknown_provider_result"}
          /\ State' = [State EXCEPT ![j] = "queued"]
      BY <1>4, <2>4 DEF Requeues
    <3>2. Lifecycle!Requeue(j)
      BY <2>2, <3>1 DEF Lifecycle!Requeue
    <3> QED  BY <3>2 DEF Lifecycle!Next
  <2>5. CASE Relets(j)
    <3>1. UNCHANGED State
      BY <1>4, <2>5 DEF Relets
    <3> QED  BY <2>2, <3>1
  <2> QED  BY <1>4, <2>3, <2>4, <2>5
<1> QED  BY <1>a, <1>1, <1>2, <1>3, <1>4 DEF StepCases

\* The queue implements the life cycle its clients see.
THEOREM LifecycleCorrect == Spec => ImplementsLifecycle
BY InvInit, InvNext, LifecycleInit, LifecycleNext, PTL
   DEF Spec, ImplementsLifecycle, Lifecycle!Spec
-----------------------------------------------------------------------------
(* How often a job is executed                                             *)

\* attempt and fencing_token count the same thing, the claims.
ClaimsCounted ==
  /\ \A j \in Jobs : row[j].attempt = row[j].fencing
  /\ \A e \in Executors : Busy(e) => exe[e].attempt = exe[e].token

\* A job that has its hook to run has lost its row's credential.
HooksApart == \A e \in Executors : exe[e].pc = "hook" => ~Matches(e)

\* A claim is to come, or may come without a further fault.
ToClaim(j) ==
  \/ row[j].state \in Waiting \cup {"absent"}
  \/ row[j].state \in Active /\ (row[j].lease = "expired" \/ Holders(j) = {})

\* Where a claim may come it still is within the bound.
RoomLeft ==
  \A j \in Jobs :
    /\ row[j].attempt <= MaxAttempts + row[j].requeues + faults
    /\ ToClaim(j) => row[j].attempt < MaxAttempts + row[j].requeues + faults

\* What one step does to the attempts of a job: it claims the job, or it leaves the
\* attempt as it is, and a claim is to come only if one was before, or after a manual
\* retry, a fault, or the decision to retry.
Attempts(j) ==
  \/ /\ ToClaim(j)
     /\ row'[j].attempt = row[j].attempt + 1 /\ row'[j].fencing = row[j].fencing + 1
     /\ row'[j].requeues = row[j].requeues /\ faults' = faults
     /\ ~ToClaim(j)'
  \/ /\ row'[j].attempt = row[j].attempt /\ row'[j].fencing = row[j].fencing
     /\ row'[j].requeues \in {row[j].requeues, row[j].requeues + 1}
     /\ faults' \in {faults, faults + 1}
     /\ ToClaim(j)' => \/ ToClaim(j) \/ row[j].attempt < MaxAttempts
                       \/ row'[j].requeues = row[j].requeues + 1 \/ faults' = faults + 1

\* An executor that keeps its job and its token.
Stays(e) ==
  /\ exe'[e].job = exe[e].job /\ exe'[e].token = exe[e].token
  /\ exe'[e].attempt = exe[e].attempt
  /\ exe'[e].pc = "idle" <=> exe[e].pc = "idle"
  /\ exe'[e].pc = "hook" <=> exe[e].pc = "hook"

\* The steps of an executor at work.
LEMMA StaysAtWork ==
  ASSUME exe \in [Executors -> Exe], NEW e \in Executors, NEW x, exe' = [exe EXCEPT ![e] = x],
         \/ \E s : x = [exe[e] EXCEPT !.pc = "marking", !.mark = s] /\ exe[e].pc = "handling"
         \/ x = [exe[e] EXCEPT !.pc = "handling", !.mark = "none"] /\ exe[e].pc = "marking"
         \/ \E o : /\ x = [exe[e] EXCEPT !.pc = "returned", !.outcome = o, !.stop = TRUE]
                  /\ exe[e].pc = "handling"
         \/ \E hb : x = [exe[e] EXCEPT !.hb = hb]
         \/ x = [exe[e] EXCEPT !.hb = "off", !.canceled = TRUE, !.stop = TRUE]
  PROVE  \A f \in Executors : Stays(f)
<1>1. x.job = exe[e].job /\ x.token = exe[e].token /\ x.attempt = exe[e].attempt
  BY DEF Exe
<1>2. x.pc = exe[e].pc \/ (x.pc \notin {"idle", "hook"} /\ exe[e].pc \notin {"idle", "hook"})
  BY DEF Exe
<1>3. exe'[e] = x /\ \A f \in Executors : f # e => exe'[f] = exe[f]
  OBVIOUS
<1> QED  BY <1>1, <1>2, <1>3 DEF Stays

\* Whoever held an unchanged row holds it still, if he stays.
LEMMA HeldStill ==
  ASSUME NEW j \in Jobs, row'[j].owner = row[j].owner, row'[j].fencing = row[j].fencing,
         \A e \in Executors : e \in Holders(j) => Stays(e)
  PROVE  Holders(j) # {} => Holders(j)' # {}
BY DEF Holders, Matches, Busy, Stays

\* A row that stays as it is, or whose lease only is prolonged.
LEMMA RowAsIs ==
  ASSUME NEW j \in Jobs, faults' \in {faults, faults + 1},
         row'[j].attempt = row[j].attempt, row'[j].fencing = row[j].fencing,
         row'[j].requeues = row[j].requeues, row'[j].owner = row[j].owner,
         row'[j].state = row[j].state, row'[j].lease \in {row[j].lease, "live"},
         (\A e \in Executors : e \in Holders(j) => Stays(e)) \/ faults' = faults + 1
  PROVE  Attempts(j)
BY HeldStill DEF Attempts, ToClaim

LEMMA AttemptsStep ==
  ASSUME Inv, ClaimsCounted, HooksApart, [Next]_vars, NEW j \in Jobs
  PROVE  Attempts(j)
<1>a. /\ row \in [Jobs -> Row] /\ exe \in [Executors -> Exe] /\ faults \in Nat
      /\ \A e \in Executors : Busy(e) => exe[e].job \in Jobs
      /\ LeaseWhileActive
  BY DEF Inv, TypeOK
<1>b. UNCHANGED <<row, exe, faults>> => Attempts(j)
  BY <1>a, RowAsIs DEF Stays
<1>1. ASSUME NEW k \in Jobs, Client(k) PROVE Attempts(j)
  <2>1. UNCHANGED <<exe, faults>> /\ (k # j => row'[j] = row[j])
    BY <1>1, <1>a DEF Client, Create, Cancel, RetryFailed
  <2>2. CASE k # j
    BY <2>1, <2>2, RowAsIs DEF Stays
  <2>3. CASE k = j /\ Create(j)
    <3>1. row'[j] = [row[j] EXCEPT !.state = "queued"] /\ row[j].state = "absent"
      BY <1>a, <2>3 DEF Create
    <3>2. ToClaim(j)
      BY <3>1 DEF ToClaim
    <3> QED  BY <1>a, <2>1, <3>1, <3>2 DEF Attempts, Row
  <2>4. CASE k = j /\ Cancel(j)
    <3>1. /\ row'[j].attempt = row[j].attempt /\ row'[j].fencing = row[j].fencing
          /\ row'[j].requeues = row[j].requeues /\ row'[j].owner = row[j].owner
          /\ row'[j].lease = row[j].lease
          /\ \/ row'[j].state = "canceled"
             \/ row[j].state = "running" /\ row'[j].state = "cancel_requested"
      BY <1>a, <2>4 DEF Cancel, Cancelable, Row
    <3>2. Holders(j)' = Holders(j)
      BY <2>1, <3>1 DEF Holders, Matches, Busy
    <3> QED  BY <2>1, <3>1, <3>2 DEF Attempts, ToClaim
  <2>5. CASE k = j /\ RetryFailed(j)
    BY <1>a, <2>1, <2>5 DEF RetryFailed, Attempts, Row
  <2> QED  BY <1>1, <2>2, <2>3, <2>4, <2>5 DEF Client
<1>2. ASSUME NEW k \in Jobs, Clock(k) \/ LeaseOverrun(k) PROVE Attempts(j)
  <2>1. /\ UNCHANGED exe /\ faults' \in {faults, faults + 1}
        /\ k # j => row'[j] = row[j]
    BY <1>2, <1>a DEF Clock, BackoffEnds, LeaseLapses, LeaseOverrun
  <2>2. CASE k # j
    BY <2>1, <2>2, RowAsIs DEF Stays
  <2>3. CASE k = j /\ BackoffEnds(j)
    <3>1. row'[j] = [row[j] EXCEPT !.due = TRUE]
      BY <1>a, <2>3 DEF BackoffEnds
    <3> QED  BY <1>a, <2>1, <3>1, RowAsIs DEF Row, Stays
  <2>4. CASE k = j /\ (LeaseLapses(j) \/ LeaseOverrun(j))
    <3>1. row'[j] = [row[j] EXCEPT !.lease = "expired"] /\ row[j].lease = "live"
      BY <1>a, <2>4 DEF LeaseLapses, LeaseOverrun
    <3>2. row[j].state \in Active
      BY <1>a, <3>1 DEF LeaseWhileActive
    <3>3. ToClaim(j) \/ faults' = faults + 1
      BY <2>4, <3>2 DEF LeaseLapses, LeaseOverrun, ToClaim
    <3> QED  BY <1>a, <2>1, <3>1, <3>3 DEF Attempts, Row
  <2> QED  BY <1>2, <2>2, <2>3, <2>4 DEF Clock
<1>3. ASSUME NEW e \in Executors, Claim(e) PROVE Attempts(j)
  <2>1. PICK k \in Jobs : Claimable(k) /\ ClaimJob(e, k)
    BY <1>3 DEF Claim, Candidate
  <2>2. /\ exe[e].pc = "idle" /\ faults' = faults
        /\ \A f \in Executors : f # e => exe'[f] = exe[f]
        /\ exe'[e].job = k /\ exe'[e].token = row[k].fencing + 1 /\ exe'[e].pc # "idle"
    BY <1>a, <2>1 DEF ClaimJob, NextToken
  <2>3. CASE k = j
    <3>1. /\ row'[j].attempt = row[j].attempt + 1 /\ row'[j].fencing = row[j].fencing + 1
          /\ row'[j].requeues = row[j].requeues /\ row'[j].state \in Active
          /\ row'[j].lease = "live" /\ row'[j].owner = Proc[e]
      BY <1>a, <2>1, <2>3 DEF ClaimJob, NextToken, ClaimedState, Row
    <3>2. ToClaim(j)
      BY <2>1, <2>3 DEF Claimable, ToClaim
    <3>3. Holders(j)' # {}
      BY <2>2, <2>3, <3>1 DEF Holders, Matches, Busy
    <3> QED  BY <2>2, <3>1, <3>2, <3>3 DEF Attempts, ToClaim
  <2>4. CASE k # j
    <3>1. row'[j] = row[j]
      BY <1>a, <2>1, <2>4 DEF ClaimJob
    <3>2. \A f \in Executors : f \in Holders(j) => Stays(f)
      BY <2>2 DEF Holders, Matches, Busy, Stays
    <3> QED  BY <2>2, <3>1, <3>2, RowAsIs
  <2> QED  BY <2>3, <2>4
<1>4. ASSUME NEW e \in Executors,
             Handler(e) \/ HandlerReturns(e) \/ HeartbeatStops(e) \/ HeartbeatFails(e)
      PROVE  Attempts(j)
  <2>1. UNCHANGED row /\ faults' \in {faults, faults + 1}
    BY <1>4 DEF Handler, MarkStep, AssertLease, UpsertStep, HandlerReturns, HeartbeatStops,
                HeartbeatFails
  <2>2. \/ UNCHANGED exe
        \/ \E s : exe' = [exe EXCEPT ![e] = [exe[e] EXCEPT !.pc = "marking", !.mark = s]]
           /\ exe[e].pc = "handling"
        \/ exe' = [exe EXCEPT ![e] = [exe[e] EXCEPT !.pc = "handling", !.mark = "none"]]
           /\ exe[e].pc = "marking"
        \/ \E o : exe' = [exe EXCEPT ![e] = [exe[e] EXCEPT !.pc = "returned", !.outcome = o,
                                                           !.stop = TRUE]]
           /\ exe[e].pc = "handling"
        \/ \E hb : exe' = [exe EXCEPT ![e] = [exe[e] EXCEPT !.hb = hb]]
    BY <1>4, <1>a DEF Handler, MarkStep, AssertLease, MayMark, UpsertStep, HandlerReturns,
                      HeartbeatStops, HeartbeatFails
  <2>3. \A f \in Executors : Stays(f)
    <3>1. CASE UNCHANGED exe
      BY <3>1 DEF Stays
    <3> QED  BY <1>a, <2>2, <3>1, StaysAtWork
  <2> QED  BY <2>1, <2>3, RowAsIs
<1>5. ASSUME NEW e \in Executors, Heartbeat(e) PROVE Attempts(j)
  <2>1. faults' = faults
    BY <1>5 DEF Heartbeat
  <2>2. \/ UNCHANGED exe
        \/ exe' = [exe EXCEPT ![e] = [exe[e] EXCEPT !.hb = "off", !.canceled = TRUE, !.stop = TRUE]]
        \/ exe' = [exe EXCEPT ![e] = [exe[e] EXCEPT !.hb = "lost"]]
    BY <1>5 DEF Heartbeat
  <2>5. \A f \in Executors : Stays(f)
    <3>1. CASE UNCHANGED exe
      BY <3>1 DEF Stays
    <3> QED  BY <1>a, <2>2, <3>1, StaysAtWork
  <2>3. row' = row \/ row' = [row EXCEPT ![exe[e].job].lease = "live"]
    BY <1>5 DEF Heartbeat
  <2>4. /\ row'[j].attempt = row[j].attempt /\ row'[j].fencing = row[j].fencing
        /\ row'[j].requeues = row[j].requeues /\ row'[j].owner = row[j].owner
        /\ row'[j].state = row[j].state /\ row'[j].lease \in {row[j].lease, "live"}
    BY <1>a, <2>3 DEF Row
  <2> QED  BY <2>1, <2>4, <2>5, RowAsIs
<1>6. ASSUME NEW e \in Executors, Complete(e) \/ ScheduleRetry(e) PROVE Attempts(j)
  <2>1. /\ faults' = faults /\ Matches(e) /\ exe[e].job \in Jobs
        /\ \A f \in Executors : f # e => exe'[f] = exe[f]
    BY <1>6, <1>a, MatchesJob DEF Complete, ScheduleRetry, Inv
  <2>2. CASE exe[e].job # j
    <3>1. row'[j] = row[j]
      BY <1>6, <1>a, <2>2 DEF Complete, ScheduleRetry
    <3>2. \A f \in Executors : f \in Holders(j) => Stays(f)
      BY <2>1, <2>2 DEF Holders, Stays
    <3> QED  BY <2>1, <3>1, <3>2, RowAsIs
  <2>3. CASE exe[e].job = j /\ Complete(e)
    <3>1. Verdict(e) \in Settled
      BY <2>3, VerdictType DEF Complete
    <3>2. row'[j] = Released(j, Verdict(e))
      BY <1>a, <2>3 DEF Complete
    <3>3. /\ row'[j].attempt = row[j].attempt /\ row'[j].fencing = row[j].fencing
          /\ row'[j].requeues = row[j].requeues /\ row'[j].state \in Settled
      BY <1>a, <3>1, <3>2 DEF Released, Row
    <3> QED  BY <2>1, <3>3 DEF Attempts, ToClaim
  <2>4. CASE exe[e].job = j /\ ScheduleRetry(e)
    <3>1. row'[j] = [Released(j, "retry_wait") EXCEPT !.due = FALSE]
      BY <1>a, <2>4 DEF ScheduleRetry
    <3>2. exe[e].attempt = row[j].attempt
      BY <1>a, <2>1, <2>4 DEF ClaimsCounted, Matches
    <3>3. exe[e].attempt \in Nat /\ ~(exe[e].attempt >= MaxAttempts)
      BY <1>a, <2>4 DEF ScheduleRetry, Verdict, Exe
    <3>4. row[j].attempt < MaxAttempts
      BY <3>2, <3>3, QueueAssumption
    <3> QED  BY <1>a, <2>1, <3>1, <3>4 DEF Released, Attempts, Row
  <2> QED  BY <1>6, <2>2, <2>3, <2>4
<1>7. ASSUME NEW e \in Executors, CommitRejected(e) \/ HookReturns(e) PROVE Attempts(j)
  <2>1. /\ UNCHANGED <<row, faults>>
        /\ \A f \in Executors : f # e => exe'[f] = exe[f]
    BY <1>7, <1>a DEF CommitRejected, HookReturns
  <2>2. CASE e \notin Holders(j)
    BY <2>1, <2>2, RowAsIs DEF Stays
  <2>3. CASE e \in Holders(j)
    <3>1. Matches(e) /\ exe[e].job = j /\ CommitRejected(e)
      BY <1>7, <2>3 DEF Holders, HookReturns, HooksApart
    <3>2. row[j].state \in Active
      BY <1>a, <3>1, QueueAssumption DEF Matches, LeaseWhileActive
    <3>3. Verdict(e) = "retry_wait"
      BY <3>1, <3>2 DEF CommitRejected
    <3>4. exe[e].attempt \in Nat /\ ~(exe[e].attempt >= MaxAttempts)
      BY <1>a, <3>3 DEF Verdict, Exe
    <3>5. row[j].attempt < MaxAttempts
      BY <3>1, <3>4, QueueAssumption DEF ClaimsCounted, Matches
    <3> QED  BY <2>1, <3>5 DEF Attempts
  <2> QED  BY <2>2, <2>3
<1>8. ASSUME UNCHANGED row, faults' = faults + 1 PROVE Attempts(j)
  BY <1>8, RowAsIs
<1>9. ASSUME Fault, ~(\E k \in Jobs : LeaseOverrun(k)) PROVE Attempts(j)
  BY <1>8, <1>9 DEF Fault, HeartbeatFails, CommitLost, Crash
<1>10. CASE UNCHANGED vars
  BY <1>b, <1>10 DEF vars
<1> QED
  BY <1>1, <1>2, <1>3, <1>4, <1>5, <1>6, <1>7, <1>9, <1>10 DEF Next, Commit, Fault
\* What one step does to an executor: it ends idle, keeps its claim, runs its hook after
\* the commit, or has claimed a job.
Goes(e) ==
  \/ exe'[e].pc = "idle"
  \/ Stays(e)
  \/ /\ Complete(e)
     /\ exe'[e].job = exe[e].job /\ exe'[e].token = exe[e].token
     /\ exe'[e].attempt = exe[e].attempt
  \/ /\ exe'[e].pc # "hook"
     /\ \E k \in Jobs : /\ exe'[e].attempt = row[k].attempt + 1
                        /\ exe'[e].token = row[k].fencing + 1

LEMMA GoesStep ==
  ASSUME Inv, [Next]_vars, NEW f \in Executors
  PROVE  Goes(f)
<1>a. exe \in [Executors -> Exe] /\ row \in [Jobs -> Row]
  BY DEF Inv, TypeOK
<1>b. exe'[f] = exe[f] => Goes(f)
  BY DEF Goes, Stays
<1>1. CASE UNCHANGED exe
  BY <1>b, <1>1
<1>2. ASSUME NEW e \in Executors, Claim(e) PROVE Goes(f)
  <2>1. PICK k \in Jobs : ClaimJob(e, k)
    BY <1>2 DEF Claim
  <2>2. CASE f = e
    <3>1. /\ exe'[e].pc # "hook" /\ exe'[e].attempt = row[k].attempt + 1
          /\ exe'[e].token = row[k].fencing + 1
      BY <1>a, <2>1 DEF ClaimJob, NextToken
    <3> QED  BY <2>2, <3>1 DEF Goes
  <2>3. CASE f # e
    BY <1>a, <1>b, <2>1, <2>3 DEF ClaimJob
  <2> QED  BY <2>2, <2>3
<1>3. ASSUME NEW e \in Executors,
             Handler(e) \/ HandlerReturns(e) \/ Heartbeat(e) \/ HeartbeatStops(e)
               \/ HeartbeatFails(e)
      PROVE  Goes(f)
  <2>1. \/ UNCHANGED exe
        \/ \E x : /\ exe' = [exe EXCEPT ![e] = x]
                  /\ \/ /\ exe[e].pc = "handling"
                        /\ \/ \E s : x = [exe[e] EXCEPT !.pc = "marking", !.mark = s]
                           \/ \E o : x = [exe[e] EXCEPT !.pc = "returned", !.outcome = o,
                                                       !.stop = TRUE]
                     \/ /\ exe[e].pc = "marking"
                        /\ x = [exe[e] EXCEPT !.pc = "handling", !.mark = "none"]
                     \/ \E hb : x = [exe[e] EXCEPT !.hb = hb]
                     \/ x = [exe[e] EXCEPT !.hb = "off", !.canceled = TRUE, !.stop = TRUE]
    BY <1>3 DEF Handler, MarkStep, AssertLease, MayMark, UpsertStep, HandlerReturns, Heartbeat,
                HeartbeatStops, HeartbeatFails
  <2> QED  BY <1>a, <1>1, <2>1, StaysAtWork DEF Goes
<1>4. ASSUME NEW e \in Executors, Complete(e) PROVE Goes(f)
  <2>1. exe' = [exe EXCEPT ![e] = AfterComplete(e, Verdict(e))]
    BY <1>4 DEF Complete
  <2>2. CASE f = e
    <3>1. exe'[e] = Idle \/ exe'[e] = [exe[e] EXCEPT !.pc = "hook"]
      BY <1>a, <2>1 DEF AfterComplete
    <3> QED  BY <1>a, <1>4, <2>2, <3>1 DEF Goes, Idle, Exe
  <2>3. CASE f # e
    BY <1>a, <1>b, <2>1, <2>3
  <2> QED  BY <2>2, <2>3
<1>5. ASSUME NEW e \in Executors, exe' = [exe EXCEPT ![e] = Idle] PROVE Goes(f)
  <2>1. exe'[f] = exe[f] \/ exe'[f] = Idle
    BY <1>a, <1>5
  <2> QED  BY <1>b, <2>1 DEF Goes, Idle
<1>6. ASSUME NEW p \in Processes, Crash(p) PROVE Goes(f)
  <2>1. exe'[f] = exe[f] \/ exe'[f] = Idle
    BY <1>6 DEF Crash
  <2> QED  BY <1>b, <2>1 DEF Goes, Idle
<1>7. ASSUME NEW e \in Executors,
             ScheduleRetry(e) \/ CommitRejected(e) \/ CommitLost(e) \/ HookReturns(e)
      PROVE  Goes(f)
  BY <1>5, <1>7 DEF ScheduleRetry, CommitRejected, CommitLost, HookReturns
<1>8. ASSUME NEW j \in Jobs, Client(j) \/ Clock(j) \/ LeaseOverrun(j) PROVE Goes(f)
  BY <1>1, <1>8 DEF Client, Create, Cancel, RetryFailed, Clock, BackoffEnds, LeaseLapses, LeaseOverrun
<1> QED
  BY <1>1, <1>2, <1>3, <1>4, <1>6, <1>7, <1>8 DEF Next, Commit, Fault, vars

LEMMA ClaimsCountedNext == Inv /\ ClaimsCounted /\ HooksApart /\ [Next]_vars => ClaimsCounted'
<1> SUFFICES ASSUME Inv, ClaimsCounted, HooksApart, [Next]_vars PROVE ClaimsCounted'
  OBVIOUS
<1>1. \A j \in Jobs : row'[j].attempt = row'[j].fencing
  BY AttemptsStep DEF Attempts, ClaimsCounted
<1>2. ASSUME NEW e \in Executors, Busy(e)' PROVE exe'[e].attempt = exe'[e].token
  <2>1. Goes(e) /\ exe'[e].pc # "idle"
    BY <1>2, GoesStep DEF Busy
  <2>2. CASE Stays(e)
    BY <2>1, <2>2 DEF Stays, ClaimsCounted, Busy
  <2>3. CASE Complete(e) /\ exe'[e].token = exe[e].token /\ exe'[e].attempt = exe[e].attempt
    BY <2>3 DEF Complete, Matches, ClaimsCounted
  <2> QED  BY <2>1, <2>2, <2>3 DEF Goes, ClaimsCounted
<1> QED  BY <1>1, <1>2 DEF ClaimsCounted

LEMMA HooksApartNext == Inv /\ HooksApart /\ [Next]_vars => HooksApart'
<1> SUFFICES ASSUME Inv, HooksApart, [Next]_vars, NEW e \in Executors, exe'[e].pc = "hook"
             PROVE  ~Matches(e)'
  BY DEF HooksApart
<1>a. /\ StepCases /\ TokensApart
      /\ \A j \in Jobs : row[j].fencing \in Nat
      /\ \A f \in Executors : exe[f].token \in Nat /\ (Busy(f) => exe[f].job \in Jobs)
      /\ exe \in [Executors -> Exe] /\ row \in [Jobs -> Row]
  BY StepLemma DEF Inv, TypeOK, Row, Exe
<1>b. Proc[e] # NoProcess
  BY QueueAssumption
<1>1. CASE Stays(e)
  <2>1. /\ exe[e].pc = "hook" /\ ~Matches(e) /\ exe[e].job \in Jobs
        /\ exe'[e].job = exe[e].job /\ exe'[e].token = exe[e].token
        /\ exe[e].token <= row[exe[e].job].fencing
    BY <1>a, <1>1 DEF Stays, HooksApart, Busy, TokensApart
  <2> DEFINE j == exe[e].job
  <2>2. \/ row'[j].fencing = row[j].fencing + 1
        \/ row'[j].fencing = row[j].fencing /\ row'[j].owner \in {row[j].owner, NoProcess}
    <3>1. ASSUME NEW f \in Executors, NEW k \in Jobs, Takes(f, k) \/ Ends(f, k)
          PROVE  \/ row'[j].fencing = row[j].fencing + 1
                 \/ row'[j].fencing = row[j].fencing /\ row'[j].owner \in {row[j].owner, NoProcess}
      BY <2>1, <3>1 DEF Takes, Ends
    <3>2. ASSUME NEW k \in Jobs, Moves(k) \/ Requeues(k) \/ Relets(k),
                 \A i \in Jobs : i # k => row'[i] = row[i]
          PROVE  row'[j].fencing = row[j].fencing /\ row'[j].owner \in {row[j].owner, NoProcess}
      BY <2>1, <3>2 DEF Moves, Requeues, Relets
    <3> QED  BY <1>a, <2>1, <3>1, <3>2 DEF StepCases
  <2>3. row[j].fencing \in Nat /\ exe[e].token \in Nat
    BY <1>a, <2>1
  <2> HIDE DEF j
  <2>4. ~(row'[j].owner = Proc[e] /\ row'[j].fencing = exe[e].token)
    BY <1>b, <2>1, <2>2, <2>3 DEF Matches, Busy, j
  <2> QED  BY <2>1, <2>4 DEF Matches, j
<1>2. CASE Complete(e) /\ exe'[e].job = exe[e].job
  <2>1. exe[e].job \in Jobs
    BY <1>a, <1>2 DEF Complete, Matches
  <2>2. row'[exe[e].job].owner = NoProcess
    BY <1>a, <1>2, <2>1 DEF Complete, Released, Row
  <2> QED  BY <1>b, <1>2, <2>2 DEF Matches
<1> QED  BY <1>1, <1>2, GoesStep DEF Goes

LEMMA RoomNext == Inv /\ ClaimsCounted /\ HooksApart /\ RoomLeft /\ [Next]_vars => RoomLeft'
<1> SUFFICES ASSUME Inv, ClaimsCounted, HooksApart, RoomLeft, [Next]_vars, NEW j \in Jobs
             PROVE  /\ row'[j].attempt <= MaxAttempts + row'[j].requeues + faults'
                    /\ ToClaim(j)' => row'[j].attempt < MaxAttempts + row'[j].requeues + faults'
  BY DEF RoomLeft
<1>1. Attempts(j)
  BY AttemptsStep
<1>2. row[j].attempt \in Nat /\ row[j].requeues \in Nat /\ faults \in Nat /\ MaxAttempts \in Nat
  BY QueueAssumption DEF Inv, TypeOK, Row
<1>3. /\ row[j].attempt <= MaxAttempts + row[j].requeues + faults
      /\ ToClaim(j) => row[j].attempt < MaxAttempts + row[j].requeues + faults
  BY DEF RoomLeft
<1> HIDE DEF ToClaim
<1> QED  BY <1>1, <1>2, <1>3 DEF Attempts

\* Only a fault or a manual retry takes a job beyond MaxAttempts, and only by one.
THEOREM AttemptsCorrect == Spec => []ExtraAttemptsExplained
<1> DEFINE AInv == Inv /\ ClaimsCounted /\ HooksApart /\ RoomLeft
<1>1. Init => AInv
  <2> SUFFICES ASSUME Init PROVE AInv
    OBVIOUS
  <2>1. ClaimsCounted /\ HooksApart
    BY DEF Init, ClaimsCounted, HooksApart, NewRow, Idle, Busy
  <2>2. RoomLeft
    BY QueueAssumption DEF Init, RoomLeft, NewRow
  <2> QED  BY <2>1, <2>2, InvInit
<1>2. AInv /\ [Next]_vars => AInv'
  BY InvNext, ClaimsCountedNext, HooksApartNext, RoomNext
<1>3. AInv => ExtraAttemptsExplained
  BY DEF RoomLeft, ExtraAttemptsExplained
<1> QED  BY <1>1, <1>2, <1>3, PTL DEF Spec
-----------------------------------------------------------------------------
(* Steps on SQLite                                                         *)

\* MarkStep is one transaction there: nobody is between its statements.
NobodyMarking == \A e \in Executors : exe[e].pc # "marking"

\* ... and what a step row holds was written by a claim that has been given out.
WrittenByClaim == \A j \in Jobs : step[j].by <= row[j].fencing

StepsInv == Inv /\ NobodyMarking /\ WrittenByClaim

LEMMA NobodyMarkingNext ==
  ASSUME Backend = "sqlite", Inv, NobodyMarking, [Next]_vars
  PROVE  NobodyMarking'
<1> SUFFICES ASSUME NEW f \in Executors PROVE exe'[f].pc # "marking"
  BY DEF NobodyMarking
<1>a. exe \in [Executors -> Exe] /\ exe[f].pc # "marking"
  BY DEF Inv, TypeOK, NobodyMarking
<1>1. ASSUME NEW e \in Executors, Claim(e) PROVE exe'[f].pc # "marking"
  BY <1>a, <1>1 DEF Claim, ClaimJob
<1>2. ASSUME NEW e \in Executors,
             Handler(e) \/ HandlerReturns(e) \/ Heartbeat(e) \/ HeartbeatStops(e) \/ HeartbeatFails(e)
      PROVE  exe'[f].pc # "marking"
  <2>1. \/ UNCHANGED exe
        \/ \E o : exe' = [exe EXCEPT ![e] = [exe[e] EXCEPT !.pc = "returned", !.outcome = o,
                                                          !.stop = TRUE]]
        \/ \E hb : exe' = [exe EXCEPT ![e] = [exe[e] EXCEPT !.hb = hb]]
        \/ exe' = [exe EXCEPT ![e] = [exe[e] EXCEPT !.hb = "off", !.canceled = TRUE, !.stop = TRUE]]
    BY <1>2 DEF Handler, MarkStep, AssertLease, UpsertStep, HandlerReturns, Heartbeat,
                HeartbeatStops, HeartbeatFails, NobodyMarking
  <2>2. exe[e].pc # "marking" /\ exe[e] \in Exe
    BY <1>a DEF NobodyMarking
  <2>3. ASSUME NEW o, exe' = [exe EXCEPT ![e] = [exe[e] EXCEPT !.pc = "returned", !.outcome = o,
                                                          !.stop = TRUE]]
        PROVE  exe'[f].pc # "marking"
    BY <1>a, <2>2, <2>3 DEF Exe
  <2>4. ASSUME NEW hb, exe' = [exe EXCEPT ![e] = [exe[e] EXCEPT !.hb = hb]]
        PROVE  exe'[f].pc # "marking"
    BY <1>a, <2>2, <2>4 DEF Exe
  <2>5. CASE exe' = [exe EXCEPT ![e] = [exe[e] EXCEPT !.hb = "off", !.canceled = TRUE, !.stop = TRUE]]
    BY <1>a, <2>2, <2>5 DEF Exe
  <2>6. CASE UNCHANGED exe
    BY <1>a, <2>6
  <2> QED  BY <2>1, <2>3, <2>4, <2>5, <2>6
<1>3. ASSUME NEW e \in Executors,
             Complete(e) \/ ScheduleRetry(e) \/ CommitRejected(e) \/ CommitLost(e) \/ HookReturns(e)
      PROVE  exe'[f].pc # "marking"
  BY <1>a, <1>3 DEF Complete, AfterComplete, ScheduleRetry, CommitRejected, CommitLost, HookReturns,
                    Idle, Exe
<1>4. ASSUME NEW p \in Processes, Crash(p) PROVE exe'[f].pc # "marking"
  BY <1>a, <1>4 DEF Crash, Idle
<1>5. CASE UNCHANGED exe
  BY <1>a, <1>5
<1>6. ASSUME NEW j \in Jobs, Client(j) \/ Clock(j) \/ LeaseOverrun(j) PROVE exe'[f].pc # "marking"
  BY <1>5, <1>6 DEF Client, Create, Cancel, RetryFailed, Clock, BackoffEnds, LeaseLapses, LeaseOverrun
<1> QED  BY <1>1, <1>2, <1>3, <1>4, <1>5, <1>6 DEF Next, Commit, Fault, vars

\* A step row keeps what it holds, or a holder of the job writes it, with the token
\* of its claim, which is the row's.
LEMMA StepRowStep ==
  ASSUME Inv, NobodyMarking, [Next]_vars, NEW j \in Jobs, step'[j] # step[j]
  PROVE  Holders(j) # {} /\ step'[j].by = row[j].fencing
<1>1. PICK e \in Executors : (\E s \in MarkStates : MarkStep(e, s)) \/ Complete(e)
  BY DEF Next, Client, Create, Cancel, RetryFailed, Clock, BackoffEnds, LeaseLapses, Claim, ClaimJob,
         Handler, AssertLease, UpsertStep, HandlerReturns, Heartbeat, HeartbeatStops, Commit,
         ScheduleRetry, CommitRejected, HookReturns, Fault, LeaseOverrun, HeartbeatFails, CommitLost,
         Crash, NobodyMarking, vars
<1>2. Matches(e) /\ \E s : step' = Upserted(e, s)
  BY <1>1 DEF MarkStep, MayMark, Complete
<1>3. PICK s : step' = [step EXCEPT ![exe[e].job] =
                         Overwritten(step[exe[e].job], [state |-> s, by |-> exe[e].token])]
  BY <1>2 DEF Upserted
<1>4. step \in [Jobs -> Step]
  BY DEF Inv, TypeOK
<1>5. exe[e].job = j
  BY <1>3, <1>4
<1>6. step'[j] = Overwritten(step[j], [state |-> s, by |-> exe[e].token])
  BY <1>3, <1>4, <1>5
<1>7. step'[j].by = exe[e].token
  BY <1>6 DEF Overwritten
<1> QED  BY <1>2, <1>5, <1>7 DEF Holders, Matches

\* Tokens only grow.
LEMMA FencingGrows ==
  ASSUME Inv, [Next]_vars, NEW j \in Jobs
  PROVE  row'[j].fencing \in Nat /\ row'[j].fencing >= row[j].fencing
<1>1. StepCases /\ TypeOK /\ row[j].fencing \in Nat
  BY StepLemma DEF Inv, TypeOK, Row
<1> QED  BY <1>1 DEF StepCases, Takes, Ends, Moves, Requeues, Relets

LEMMA StepsInit == Init => StepsInv
BY InvInit DEF Init, NobodyMarking, WrittenByClaim, StepsInv, Idle, NewRow

LEMMA StepsNext ==
  ASSUME Backend = "sqlite", StepsInv, [Next]_vars
  PROVE  StepsInv'
<1> USE DEF StepsInv
<1>1. Inv' /\ NobodyMarking'
  BY InvNext, NobodyMarkingNext
<1>2. ASSUME NEW j \in Jobs PROVE step'[j].by <= row'[j].fencing
  <2>1. row'[j].fencing \in Nat /\ row'[j].fencing >= row[j].fencing
    BY FencingGrows
  <2>2. row[j].fencing \in Nat /\ step[j].by \in Nat /\ step[j].by <= row[j].fencing
    BY DEF WrittenByClaim, Inv, TypeOK, Row, Step
  <2>3. step'[j] = step[j] \/ step'[j].by = row[j].fencing
    BY StepRowStep
  <2> QED  BY <2>1, <2>2, <2>3
<1> QED  BY <1>1, <1>2 DEF WrittenByClaim

\* On SQLite the steps of a job are written in the order of its claims: no earlier
\* claim writes over what a later one has written.
THEOREM FollowCorrect ==
  ASSUME Backend = "sqlite"
  PROVE  Spec => StepsFollowClaims
<1> DEFINE Good == \A j \in Jobs : step'[j].by >= step[j].by
<1>1. StepsInv /\ [Next]_vars => [Good]_vars
  <2> SUFFICES ASSUME StepsInv, [Next]_vars, NEW j \in Jobs PROVE step'[j].by >= step[j].by
    OBVIOUS
  <2>1. row[j].fencing \in Nat /\ step[j].by \in Nat /\ step[j].by <= row[j].fencing
    BY DEF StepsInv, WrittenByClaim, Inv, TypeOK, Row, Step
  <2>2. step'[j] = step[j] \/ step'[j].by = row[j].fencing
    BY StepRowStep DEF StepsInv
  <2> QED  BY <2>1, <2>2
<1>2. [][Good]_vars => StepsFollowClaims
  BY PTL DEF StepsFollowClaims
<1>3. StepsInv /\ [Next]_vars => StepsInv'
  BY StepsNext
<1> QED  BY <1>1, <1>2, <1>3, StepsInit, PTL DEF Spec

\* On SQLite no step of a settled job changes: a settled row has no owner.
THEOREM FrozenCorrect ==
  ASSUME Backend = "sqlite"
  PROVE  Spec => SettledStepFrozen
<1> DEFINE Good == \A j \in Jobs : row[j].state \in Settled => step'[j] = step[j]
<1>1. StepsInv /\ [Next]_vars => [Good]_vars
  <2> SUFFICES ASSUME StepsInv, [Next]_vars, NEW j \in Jobs, row[j].state \in Settled,
                      step'[j] # step[j]
               PROVE  FALSE
    OBVIOUS
  <2>1. PICK e \in Executors : exe[e].job = j /\ Matches(e)
    BY StepRowStep DEF StepsInv, Holders
  <2>2. row[j].owner # NoProcess
    BY <2>1, QueueAssumption DEF Matches
  <2>3. row[j].state \in Active
    BY <2>2 DEF StepsInv, Inv, LeaseWhileActive
  <2> QED  BY <2>3 DEF Active, Settled, Final
<1>2. [][Good]_vars => SettledStepFrozen
  BY PTL DEF SettledStepFrozen
<1>3. StepsInv /\ [Next]_vars => StepsInv'
  BY StepsNext
<1> QED  BY <1>1, <1>2, <1>3, StepsInit, PTL DEF Spec
=============================================================================
