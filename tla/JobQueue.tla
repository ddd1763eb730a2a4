------------------------------ MODULE JobQueue ------------------------------
(***************************************************************************)
(* The asynchronous job queue of ppts (internal/pipeline): the jobs table  *)
(* of the store (postgres.go, sqlite.go) and the worker loop (worker.go)   *)
(* that claims a job under a lease, runs its handler beside a heartbeat    *)
(* goroutine, and commits the outcome under the fencing token of the claim.*)
(*                                                                         *)
(* One store transaction is one step.  The exception is MarkStep on        *)
(* PostgreSQL, which reads the lease and writes the step in two READ       *)
(* COMMITTED statements without locking the row: it takes two steps.       *)
(*                                                                         *)
(* Time is abstract: a lease is "live" until some step makes it "expired", *)
(* and a back-off is over when some step makes the row due.                *)
(***************************************************************************)
EXTENDS Naturals, FiniteSets

CONSTANTS
  Jobs,         \* the job rows that may be inserted
  Executors,    \* the goroutines that run Worker.Run
  Processes,    \* the worker processes they belong to
  Proc,         \* Executors -> Processes: the lease_owner an executor writes
  NoProcess,    \* lease_owner IS NULL
  NoJob,        \* an idle executor's job
  MarkStates,   \* the step states the handlers write through MarkStep
  Backend,      \* "postgres" or "sqlite"
  MaxAttempts,  \* WorkerOptions.MaxAttempts
  MaxFaults,    \* bound: crashes, failed store calls and overrun leases
  MaxRequeues   \* bound: manual retries of one job

StepStates == {"pending", "success", "skipped", "failed", "degraded"}

ASSUME QueueAssumption ==
  /\ Proc \in [Executors -> Processes]
  /\ NoProcess \notin Processes \cup Executors
  /\ NoJob \notin Jobs
  /\ MarkStates \subseteq StepStates
  /\ Backend \in {"postgres", "sqlite"}
  /\ MaxAttempts \in Nat \ {0}
  /\ MaxFaults \in Nat
  /\ MaxRequeues \in Nat

VARIABLES
  row,     \* Jobs -> the columns of the jobs row
  ahead,   \* Jobs -> the rows with an earlier created_at
  step,    \* Jobs -> the job's step row, and the token of the claim that wrote it
  exe,     \* Executors -> the local state of Worker.process
  faults   \* the faults that have happened

vars == <<row, ahead, step, exe, faults>>
-----------------------------------------------------------------------------
(* State formulae *)

Waiting  == {"queued", "retry_wait"}
Active   == {"running", "cancel_requested"}
Final    == {"succeeded", "failed", "canceled"}
Settled  == Final \cup {"unknown_provider_result"}

\* "absent" stands for a row that has not been inserted yet.
JobStates == {"absent"} \cup Waiting \cup Active \cup Settled

\* What a handler returns: nil, nil after SetCommitStep, RetryError,
\* UnknownResultError, or any other error.
Outcomes == {"ok", "ok_step", "retry", "unknown", "error"}

Row == [state: JobStates, attempt: Nat, owner: Processes \cup {NoProcess},
        fencing: Nat, lease: {"none", "live", "expired"}, due: BOOLEAN,
        requeues: Nat]

Exe == [pc: {"idle", "pending_cancel", "handling", "marking", "returned", "hook"},
        job: Jobs \cup {NoJob}, token: Nat, attempt: Nat,
        hb: {"off", "on", "lost", "failed"}, canceled: BOOLEAN, stop: BOOLEAN,
        outcome: Outcomes \cup {"none"}, mark: StepStates \cup {"none"}]

\* "none": not written yet.  by is kept for the properties, the table lacks it.
Step == [state: StepStates \cup {"none"}, by: Nat]

NewRow == [state |-> "absent", attempt |-> 0, owner |-> NoProcess, fencing |-> 0,
           lease |-> "none", due |-> TRUE, requeues |-> 0]

Idle == [pc |-> "idle", job |-> NoJob, token |-> 0, attempt |-> 0, hb |-> "off",
         canceled |-> FALSE, stop |-> FALSE, outcome |-> "none", mark |-> "none"]

Busy(e) == exe[e].pc # "idle"

\* Mutant: the WHERE clause compares the owner only.
MatchesOwner(e) ==
  /\ Busy(e)
  /\ row[exe[e].job].owner = Proc[e]

\* The credential of every fenced statement:
\* WHERE id=$1 AND lease_owner=$2 AND fencing_token=$3.
Matches(e) ==
  /\ Busy(e)
  /\ row[exe[e].job].owner = Proc[e]
  /\ row[exe[e].job].fencing = exe[e].token

Init ==
  /\ row = [j \in Jobs |-> NewRow]
  /\ ahead = [j \in Jobs |-> {}]
  /\ step = [j \in Jobs |-> [state |-> "none", by |-> 0]]
  /\ exe = [e \in Executors |-> Idle]
  /\ faults = 0
-----------------------------------------------------------------------------
(* The store's operations for clients *)

\* Create with a new idempotency key.  A key that is already there returns the
\* existing row and changes nothing.
Create(j) ==
  /\ row[j].state = "absent"
  /\ row' = [row EXCEPT ![j].state = "queued"]
  /\ ahead' = [ahead EXCEPT ![j] = {k \in Jobs : row[k].state # "absent"}]
  /\ UNCHANGED <<step, exe, faults>>

\* Mutant: a failed job can still be canceled.
CancelableToo == Waiting \cup {"running", "failed"}

Cancelable == Waiting \cup {"running"}

\* Cancel: a waiting job is canceled at once, a running one only asked to stop.
Cancel(j) ==
  /\ row[j].state \in Cancelable
  /\ row' = [row EXCEPT ![j].state =
               IF row[j].state \in Waiting THEN "canceled" ELSE "cancel_requested"]
  /\ UNCHANGED <<ahead, step, exe, faults>>

\* RetryFailed keeps the row, its attempt and its fencing token.
RetryFailed(j) ==
  /\ row[j].state \in {"failed", "unknown_provider_result"}
  /\ row[j].requeues < MaxRequeues
  /\ row' = [row EXCEPT ![j] =
               [row[j] EXCEPT !.state = "queued", !.due = TRUE, !.owner = NoProcess,
                              !.lease = "none", !.requeues = row[j].requeues + 1]]
  /\ UNCHANGED <<ahead, step, exe, faults>>
-----------------------------------------------------------------------------
(* Time *)

\* run_at of a job that backs off comes to pass.
BackoffEnds(j) ==
  /\ row[j].state = "retry_wait" /\ ~row[j].due
  /\ row' = [row EXCEPT ![j].due = TRUE]
  /\ UNCHANGED <<ahead, step, exe, faults>>

Holders(j) == {e \in Executors : exe[e].job = j /\ Matches(e)}

\* lease_until of a lease nobody can renew any more comes to pass.
LeaseLapses(j) ==
  /\ row[j].lease = "live" /\ Holders(j) = {}
  /\ row' = [row EXCEPT ![j].lease = "expired"]
  /\ UNCHANGED <<ahead, step, exe, faults>>

\* lease_until passes while its holder is still at work: a stalled process, a
\* slow store, or no heartbeat any more.
LeaseOverrun(j) ==
  /\ row[j].lease = "live" /\ Holders(j) # {}
  /\ faults < MaxFaults
  /\ row' = [row EXCEPT ![j].lease = "expired"]
  /\ faults' = faults + 1
  /\ UNCHANGED <<ahead, step, exe>>
-----------------------------------------------------------------------------
(* Claiming *)

\* Mutants: a lease is not respected; a crashed job, or a crashed job that was
\* asked to stop, is not picked up again.
ClaimableLeased(j) == row[j].due /\ row[j].state \in Waiting \cup Active

ClaimableWaiting(j) ==
  row[j].due /\ row[j].state \in Waiting /\ row[j].lease # "live"

ClaimableNotCanceled(j) ==
  /\ row[j].due
  /\ \/ row[j].state \in Waiting /\ row[j].lease # "live"
     \/ row[j].state = "running" /\ row[j].lease = "expired"

Claimable(j) ==
  /\ row[j].due
  /\ \/ row[j].state \in Waiting /\ row[j].lease # "live"
     \/ row[j].state \in Active /\ row[j].lease = "expired"

\* FOR UPDATE SKIP LOCKED passes over the rows other transactions hold locked;
\* SQLite has one writer and skips nothing.
LockedSets == IF Backend = "postgres" THEN SUBSET Jobs ELSE {{}}

\* ORDER BY created_at LIMIT 1.
Candidate(j, locked) ==
  LET free == {k \in Jobs : Claimable(k)} \ locked
  IN  j \in free /\ free \cap ahead[j] = {}

NextToken(j) == row[j].fencing + 1

\* Mutant: a claim always makes the job running.
ClaimedRunning(j) == "running"

ClaimedState(j) ==
  IF row[j].state = "cancel_requested" THEN "cancel_requested" ELSE "running"

\* ClaimNext and the start of process: a job whose cancellation is pending is
\* not handed to the handler, and no heartbeat is started for it.
ClaimJob(e, j) ==
  LET pending == ClaimedState(j) = "cancel_requested"
  IN  /\ exe[e].pc = "idle"
      /\ row' = [row EXCEPT ![j] =
                   [row[j] EXCEPT !.state = ClaimedState(j), !.attempt = row[j].attempt + 1,
                                  !.owner = Proc[e], !.lease = "live",
                                  !.fencing = NextToken(j)]]
      /\ exe' = [exe EXCEPT ![e] =
                   [pc |-> IF pending THEN "pending_cancel" ELSE "handling",
                    job |-> j, token |-> NextToken(j), attempt |-> row[j].attempt + 1,
                    hb |-> IF pending THEN "off" ELSE "on", canceled |-> FALSE,
                    stop |-> FALSE, outcome |-> "none", mark |-> "none"]]
      /\ UNCHANGED <<ahead, step, faults>>

Claim(e) ==
  \E locked \in LockedSets : \E j \in Jobs : Candidate(j, locked) /\ ClaimJob(e, j)
-----------------------------------------------------------------------------
(* The handler *)

Productive(s) == s \in {"success", "skipped", "degraded"}

\* stepOverwrites: a pending write never erases a state that has a product.
Overwritten(cur, next) ==
  IF next.state = "pending" /\ Productive(cur.state) THEN cur ELSE next

\* The upsert of a step row by executor e.
Upserted(e, s) ==
  [step EXCEPT ![exe[e].job] = Overwritten(@, [state |-> s, by |-> exe[e].token])]

\* Mutant: MarkStep does not check the lease.
MayMarkAlways(e) == exe[e].pc = "handling"

\* pgAssertLease and sqAssertLease.
MayMark(e) == exe[e].pc = "handling" /\ Matches(e)

\* MarkStep in one transaction (SQLite: BEGIN IMMEDIATE).  A writer that is not
\* the lease holder gets ErrLeaseMismatch and nothing changes.
MarkStep(e, s) ==
  /\ Backend = "sqlite" /\ MayMark(e)
  /\ step' = Upserted(e, s)
  /\ UNCHANGED <<row, ahead, exe, faults>>

\* pgAssertLease, the first statement of MarkStep on PostgreSQL...
AssertLease(e, s) ==
  /\ Backend = "postgres" /\ MayMark(e)
  /\ exe' = [exe EXCEPT ![e] = [@ EXCEPT !.pc = "marking", !.mark = s]]
  /\ UNCHANGED <<row, ahead, step, faults>>

\* ...and pgStepUpsert, the second one, which does not look at the lease again.
UpsertStep(e) ==
  /\ exe[e].pc = "marking"
  /\ step' = Upserted(e, exe[e].mark)
  /\ exe' = [exe EXCEPT ![e] = [@ EXCEPT !.pc = "handling", !.mark = "none"]]
  /\ UNCHANGED <<row, ahead, faults>>

\* The handler returns; process cancels workCtx and waits for the heartbeat.
HandlerReturns(e) ==
  /\ exe[e].pc = "handling"
  /\ \E o \in Outcomes :
       exe' = [exe EXCEPT ![e] = [@ EXCEPT !.pc = "returned", !.outcome = o,
                                           !.stop = TRUE]]
  /\ UNCHANGED <<row, ahead, step, faults>>
-----------------------------------------------------------------------------
(* The heartbeat goroutine *)

\* One tick.  The statement does not look at lease_until: it also revives a
\* lease that has expired and that nobody has claimed yet.
Heartbeat(e) ==
  /\ exe[e].hb = "on"
  /\ LET j == exe[e].job IN
     \/ /\ Matches(e) /\ row[j].state = "running"
        /\ row' = [row EXCEPT ![j].lease = "live"]
        /\ UNCHANGED exe
     \/ /\ Matches(e) /\ row[j].state = "cancel_requested"
        /\ exe' = [exe EXCEPT ![e] = [@ EXCEPT !.hb = "off", !.canceled = TRUE,
                                               !.stop = TRUE]]
        /\ UNCHANGED row
     \/ /\ ~(Matches(e) /\ row[j].state \in Active)
        /\ exe' = [exe EXCEPT ![e].hb = "lost"]
        /\ UNCHANGED row
  /\ UNCHANGED <<ahead, step, faults>>

\* Any other error of the store ends the goroutine just the same.
HeartbeatFails(e) ==
  /\ exe[e].hb = "on" /\ faults < MaxFaults
  /\ exe' = [exe EXCEPT ![e].hb = "failed"]
  /\ faults' = faults + 1
  /\ UNCHANGED <<row, ahead, step>>

\* ctx.Done() after the handler has returned.
HeartbeatStops(e) ==
  /\ exe[e].hb = "on" /\ exe[e].pc = "returned"
  /\ exe' = [exe EXCEPT ![e].hb = "off"]
  /\ UNCHANGED <<row, ahead, step, faults>>
-----------------------------------------------------------------------------
(* The commit *)

\* The decision of process once the heartbeat goroutine has ended.
Deciding(e) ==
  \/ exe[e].pc = "pending_cancel"
  \/ exe[e].pc = "returned" /\ exe[e].hb # "on"

\* Mutant: MaxAttempts is not looked at.
VerdictAlwaysRetries(e) ==
  IF exe[e].pc = "pending_cancel" \/ exe[e].canceled THEN "canceled"
  ELSE CASE exe[e].outcome = "unknown" -> "unknown_provider_result"
         [] exe[e].outcome = "retry"   -> "retry_wait"
         [] exe[e].outcome = "error"   -> "failed"
         [] OTHER                      -> "succeeded"

Verdict(e) ==
  IF exe[e].pc = "pending_cancel" \/ exe[e].canceled THEN "canceled"
  ELSE CASE exe[e].outcome = "unknown" -> "unknown_provider_result"
         [] exe[e].outcome = "retry"   -> IF exe[e].attempt >= MaxAttempts
                                          THEN "failed" ELSE "retry_wait"
         [] exe[e].outcome = "error"   -> "failed"
         [] OTHER                      -> "succeeded"

\* SET state=$4, lease_owner=NULL, lease_until=NULL
Released(j, s) == [row[j] EXCEPT !.state = s, !.owner = NoProcess, !.lease = "none"]

\* OnCanceled and OnFailed run after the commit.
AfterComplete(e, v) ==
  IF v \in {"canceled", "failed"} THEN [exe[e] EXCEPT !.pc = "hook"] ELSE Idle

\* Complete and CompleteWithStep: final state, lease cleared and, for a success
\* that declared one, the last step in the same transaction.
Complete(e) ==
  LET j == exe[e].job
      v == Verdict(e)
  IN  /\ Deciding(e) /\ v # "retry_wait"
      /\ Matches(e) /\ row[j].state \in Active
      /\ row' = [row EXCEPT ![j] = Released(j, v)]
      /\ step' = IF v = "succeeded" /\ exe[e].outcome = "ok_step"
                 THEN Upserted(e, "success")
                 ELSE step
      /\ exe' = [exe EXCEPT ![e] = AfterComplete(e, v)]
      /\ UNCHANGED <<ahead, faults>>

\* ScheduleRetry: only a job that nobody asked to stop goes back to waiting.
ScheduleRetry(e) ==
  LET j == exe[e].job
  IN  /\ Deciding(e) /\ Verdict(e) = "retry_wait"
      /\ Matches(e) /\ row[j].state = "running"
      /\ row' = [row EXCEPT ![j] = [Released(j, "retry_wait") EXCEPT !.due = FALSE]]
      /\ exe' = [exe EXCEPT ![e] = Idle]
      /\ UNCHANGED <<ahead, step, faults>>

\* The fenced statement touches no row: ErrLeaseMismatch is logged.
CommitRejected(e) ==
  LET s == row[exe[e].job].state
  IN  /\ Deciding(e)
      /\ \/ ~Matches(e)
         \/ Verdict(e) = "retry_wait" /\ s # "running"
         \/ s \notin Active
      /\ exe' = [exe EXCEPT ![e] = Idle]
      /\ UNCHANGED <<row, ahead, step, faults>>

\* The store call fails and has no effect: logged, the lease runs out.
CommitLost(e) ==
  /\ Deciding(e) /\ faults < MaxFaults
  /\ exe' = [exe EXCEPT ![e] = Idle]
  /\ faults' = faults + 1
  /\ UNCHANGED <<row, ahead, step>>

\* releaseCanceled or failed: an error of the hook is only logged.
HookReturns(e) ==
  /\ exe[e].pc = "hook"
  /\ exe' = [exe EXCEPT ![e] = Idle]
  /\ UNCHANGED <<row, ahead, step, faults>>

\* A process dies or shuts down: its executors write nothing more.
Crash(p) ==
  /\ faults < MaxFaults
  /\ \E e \in Executors : Proc[e] = p /\ Busy(e)
  /\ exe' = [e \in Executors |-> IF Proc[e] = p THEN Idle ELSE exe[e]]
  /\ faults' = faults + 1
  /\ UNCHANGED <<row, ahead, step>>
-----------------------------------------------------------------------------
Client(j) == Create(j) \/ Cancel(j) \/ RetryFailed(j)

Clock(j) == BackoffEnds(j) \/ LeaseLapses(j)

Handler(e) == (\E s \in MarkStates : MarkStep(e, s) \/ AssertLease(e, s)) \/ UpsertStep(e)

Commit(e) == Complete(e) \/ ScheduleRetry(e) \/ CommitRejected(e)

Fault ==
  \/ \E j \in Jobs : LeaseOverrun(j)
  \/ \E e \in Executors : HeartbeatFails(e) \/ CommitLost(e)
  \/ \E p \in Processes : Crash(p)

Next ==
  \/ \E j \in Jobs : Client(j) \/ Clock(j)
  \/ \E e \in Executors :
       \/ Claim(e) \/ Handler(e) \/ HandlerReturns(e)
       \/ Heartbeat(e) \/ HeartbeatStops(e)
       \/ Commit(e) \/ HookReturns(e)
  \/ Fault

Spec == Init /\ [][Next]_vars

\* Time passes, the worker loop and the goroutines of a process keep running,
\* and a handler, which must obey workCtx, returns at last however many steps
\* it marks before.  Clients and faults owe nothing.
Fairness ==
  /\ \A j \in Jobs : WF_vars(Clock(j))
  /\ \A e \in Executors :
       /\ WF_vars(Claim(e)) /\ WF_vars(UpsertStep(e)) /\ SF_vars(HandlerReturns(e))
       /\ WF_vars(Heartbeat(e)) /\ WF_vars(HeartbeatStops(e))
       /\ WF_vars(Commit(e)) /\ WF_vars(HookReturns(e))

FairSpec == Spec /\ Fairness
-----------------------------------------------------------------------------
(* Properties *)

\* The variables keep their types.
TypeOK ==
  /\ row \in [Jobs -> Row]
  /\ ahead \in [Jobs -> SUBSET Jobs]
  /\ step \in [Jobs -> Step]
  /\ exe \in [Executors -> Exe]
  /\ \A e \in Executors : Busy(e) => exe[e].job \in Jobs
  /\ faults \in Nat

\* At most one executor could have a commit of a job accepted, although the
\* executors of a process share one lease_owner and a job may run in several
\* of them at once: the fencing token of ClaimNext tells the claims apart.
UniqueHolder ==
  \A j \in Jobs : \A e1, e2 \in Holders(j) : e1 = e2

\* A row has an owner and a lease exactly while its job is in flight.  ClaimNext
\* relies on it (a waiting row is never leased), and so does the guard of
\* MarkStep (a settled row has no owner a writer could match).
LeaseWhileActive ==
  \A j \in Jobs :
    /\ row[j].state \in Active <=> row[j].owner # NoProcess
    /\ row[j].state \in Active <=> row[j].lease # "none"

\* Every claim has a token of its own: none is ahead of its row, and two
\* executors that are busy with one job never have the same.
TokensApart ==
  /\ \A e \in Executors : Busy(e) => exe[e].token <= row[exe[e].job].fencing
  /\ \A e1, e2 \in Executors :
       Busy(e1) /\ Busy(e2) /\ exe[e1].job = exe[e2].job /\ exe[e1].token = exe[e2].token
         => e1 = e2

Working(e) == exe[e].pc \in {"handling", "marking"}

\* Two handlers of one job run at the same time only after a fault: with no
\* crash, no failed store call and no overrun lease, cancellations, manual
\* retries and takeovers of expired leases never start a second one.
OverlapNeedsFault ==
  faults = 0 =>
    \A e1, e2 \in Executors :
      Working(e1) /\ Working(e2) /\ exe[e1].job = exe[e2].job => e1 = e2

\* Only the executor of the latest claim ends a run: whenever a job leaves the
\* active states, an executor that holds the row's current token finishes in
\* that same step.  A worker that lost its lease commits nothing.
LatestClaimCommits ==
  [][\A j \in Jobs :
       row[j].state \in Active /\ row'[j].state \notin Active =>
         \E e \in Executors :
           /\ exe[e].job = j /\ exe[e].token = row[j].fencing
           /\ exe'[e].pc \in {"idle", "hook"}]_vars

\* A job is executed more often than MaxAttempts only because of a fault (a
\* takeover runs the handler whatever attempt is) or of a manual retry, and at
\* most once more for each of them.
ExtraAttemptsExplained ==
  \A j \in Jobs : row[j].attempt <= MaxAttempts + row[j].requeues + faults

\* A job that was asked to stop is never handed to a handler again and never
\* goes back to waiting; it stays so until it settles.  (A success or a failure
\* may still overtake the request: Complete accepts cancel_requested.)
CancelHonoured ==
  [][/\ \A j \in Jobs : row[j].state = "cancel_requested" =>
            row'[j].state \in {"cancel_requested"} \cup Settled
     /\ \A e \in Executors : ~Working(e) /\ exe'[e].pc = "handling" =>
            row[exe'[e].job].state # "cancel_requested"]_vars

\* What a claim has written of a step is not written over by an earlier claim of
\* the job: a worker that lost its job, to another executor of its own process
\* perhaps, and goes on marking steps leaves those of its successor alone.
\* Checked for SQLite, where MarkStep is one transaction; on PostgreSQL the lease
\* may pass on between the check and the write.
StepsFollowClaims ==
  [][\A j \in Jobs : step'[j].by >= step[j].by]_vars

\* No step of a settled job changes any more (postgres.go:410-411): who is still at
\* work on a job that was canceled, or that a later claim has settled, finds no
\* owner to match.  Checked for SQLite; the code does not keep it on PostgreSQL.
SettledStepFrozen ==
  [][\A j \in Jobs : row[j].state \in Settled => step'[j] = step[j]]_vars

\* Cancellation takes effect: the holder's heartbeat or, after a crash, a
\* takeover of the expired lease settles the job.
CancelSettles ==
  \A j \in Jobs : row[j].state = "cancel_requested" ~> row[j].state \in Settled

\* No job is stuck: crashes, lost commits, lost heartbeats, back-off and
\* takeovers still lead every submitted job to an outcome.
JobSettles ==
  \A j \in Jobs : row[j].state # "absent" ~> row[j].state \in Settled

\* The refinement: the holder is the executor whose credential the row has.
HolderOf(j) ==
  IF Holders(j) = {} THEN NoProcess ELSE CHOOSE e \in Executors : e \in Holders(j)

Lifecycle == INSTANCE JobLifecycle WITH
  Nobody <- NoProcess,
  state  <- [j \in Jobs |-> row[j].state],
  holder <- [j \in Jobs |-> HolderOf(j)]

\* The queue keeps the promise of JobLifecycle.
ImplementsLifecycle == Lifecycle!Spec
=============================================================================
