----------------------------- MODULE JobBilling -----------------------------
(***************************************************************************)
(* What a job costs: how requests, the job queue and the worker's handlers *)
(* reserve, settle and release the quota of a job.  It composes the usage  *)
(* accounts (Quota) with the promise of the queue (JobLifecycle); a        *)
(* request, a job and its reservation share one idempotency key.           *)
(*                                                                         *)
(* The jobs are either all narrations (api/narration.go, app/narration.go) *)
(* or all animated exports (api/export_bundle.go, app/export.go).  They    *)
(* differ in three points: exports are accounted by month, a failed        *)
(* settlement does not fail them, and the API's Cancel leaves their        *)
(* reservation alone.                                                      *)
(***************************************************************************)
EXTENDS Integers, FiniteSets

CONSTANTS
  Keys,         \* idempotency keys
  Snaps,        \* the contents of requests: input snapshots
  NoSnap,
  Estimate,     \* Snaps -> the units a request reserves
  Units,        \* the units a run may turn out to cost
  Limit,        \* the limit of the quota
  Requests,     \* requests to create a job
  Executors,    \* executors of the workers
  Nobody,
  NoKey,
  JobKinds,     \* the kinds of job considered
  Months,       \* 1 .. Months are the accounting periods of exports
  Sweeping,     \* whether the retention sweeper releases stale reservations
  MaxRequeues,  \* bound: manual retries of a job
  MaxFaults     \* bound: crashes, failed store calls and lost leases

ASSUME BillingAssumption ==
  /\ Estimate \in [Snaps -> Units]
  /\ Units \subseteq Nat
  /\ JobKinds \subseteq {"narration", "export"}
  /\ Sweeping \in BOOLEAN
  /\ Months \in Nat \ {0}

VARIABLES
  kind,                \* the kind of the jobs, which never changes
  quota, res, ledger,  \* the usage accounts
  state, holder,       \* the job of each key
  input,               \* Keys -> the snapshot of the job, or NoSnap
  born,                \* Keys -> the month of created_at
  requeues,            \* Keys -> manual retries so far
  req,                 \* Requests -> the local state of a request
  exe,                 \* Executors -> the local state of a handler
  canceling,           \* the keys whose Cancel request has yet to release
  month,               \* the current month
  faults               \* the faults that have happened

queueVars == <<state, holder>>
jobVars == <<kind, state, holder, input, born, requeues>>

Accounts == INSTANCE Quota WITH Ops <- Keys, Kinds <- 1 .. Months, Limits <- {Limit}
Queue    == INSTANCE JobLifecycle WITH Jobs <- Keys

accountVars == <<quota, res, ledger>>
vars == <<accountVars, jobVars, req, exe, canceling, month, faults>>

IdleRequest == [pc |-> "idle", key |-> NoKey, snap |-> NoSnap, created |-> FALSE]
Idle == [pc |-> "idle", key |-> NoKey]

Narration == kind = "narration"

Init ==
  /\ kind \in JobKinds
  /\ quota = [k \in 1 .. Months |-> [limit |-> Limit, reserved |-> 0, consumed |-> 0]]
  /\ res = [o \in Keys |-> [k \in 1 .. Months |-> [state |-> "none", units |-> 0]]]
  /\ ledger = [o \in Keys |-> [k \in 1 .. Months |-> Accounts!NoEntry]]
  /\ Queue!Init
  /\ input = [k \in Keys |-> NoSnap]
  /\ born = [k \in Keys |-> 1]
  /\ requeues = [k \in Keys |-> 0]
  /\ req = [r \in Requests |-> IdleRequest]
  /\ exe = [e \in Executors |-> Idle]
  /\ canceling = {}
  /\ month = 1
  /\ faults = 0

Fault == faults < MaxFaults /\ faults' = faults + 1
-----------------------------------------------------------------------------
(* Requests: CreateGeneration, RegenerateSegments and the export endpoint *)

\* The reservation comes first.  A key that is known gets its row back with
\* Created = FALSE, whoever made it and whatever has become of it.
ReserveUnits(r, k, s) ==
  /\ req[r].pc = "idle"
  /\ IF Accounts!Known(k, month)
     THEN /\ req' = [req EXCEPT ![r] = [pc |-> "reserved", key |-> k, snap |-> s,
                                        created |-> FALSE]]
          /\ UNCHANGED accountVars
     ELSE /\ Accounts!Reserve(k, month, Estimate[s])
          /\ req' = [req EXCEPT ![r] = [pc |-> "reserved", key |-> k, snap |-> s,
                                        created |-> TRUE]]
  /\ UNCHANGED <<jobVars, exe, canceling, month, faults>>

\* ErrInsufficientQuota: the request is turned down and no job is created.
TurnedDown(r, k, s) ==
  /\ req[r].pc = "idle"
  /\ ~Accounts!Known(k, month) /\ ~Accounts!Fits(month, Estimate[s])
  /\ req' = [req EXCEPT ![r].pc = "done"]
  /\ UNCHANGED <<accountVars, jobVars, exe, canceling, month, faults>>

\* enforceConcurrentLimit of narrations: as many jobs of the tenant are active as
\* its policy allows (other jobs count, so this may be so at any time).  The job
\* of the key is handed back, or the request is turned down.
LimitReached(r) ==
  /\ Narration
  /\ req[r].pc = "idle"
  /\ req' = [req EXCEPT ![r].pc = "done"]
  /\ UNCHANGED <<accountVars, jobVars, exe, canceling, month, faults>>

\* releaseReservation: only a reservation this request has made.
Releases(r) == req[r].created

AfterRefusal(r) == [req EXCEPT ![r].pc = IF Releases(r) THEN "releasing" ELSE "done"]

\* Store.Create.  A key that has a job gets it back; one with another snapshot
\* is refused (AlreadyExists).
CreateJob(r) ==
  LET k == req[r].key
  IN  /\ req[r].pc = "reserved"
      /\ \/ /\ Queue!Submit(k)
            /\ input' = [input EXCEPT ![k] = req[r].snap]
            /\ born' = [born EXCEPT ![k] = month]
            /\ req' = [req EXCEPT ![r].pc = "done"]
         \/ /\ state[k] # "absent"
            /\ req' = IF input[k] = req[r].snap THEN [req EXCEPT ![r].pc = "done"]
                      ELSE AfterRefusal(r)
            /\ UNCHANGED <<queueVars, input, born>>
      /\ UNCHANGED <<accountVars, kind, requeues, exe, canceling, month, faults>>

CreateFails(r) ==
  /\ req[r].pc = "reserved" /\ Fault
  /\ req' = AfterRefusal(r)
  /\ UNCHANGED <<accountVars, jobVars, exe, canceling, month>>

\* Release; NotFound, Released and Settled are not errors here.
ReleaseIfOutstanding(k, m) ==
  IF Accounts!Outstanding(k, m) THEN Accounts!Release(k, m) ELSE UNCHANGED accountVars

\* The month is the current one, not that of the reservation.
ReleaseRequest(r) ==
  /\ req[r].pc = "releasing"
  /\ ReleaseIfOutstanding(req[r].key, month)
  /\ req' = [req EXCEPT ![r].pc = "done"]
  /\ UNCHANGED <<jobVars, exe, canceling, month, faults>>

RequestDies(r) ==
  /\ req[r].pc \in {"reserved", "releasing"} /\ Fault
  /\ req' = [req EXCEPT ![r].pc = "done"]
  /\ UNCHANGED <<accountVars, jobVars, exe, canceling, month>>
-----------------------------------------------------------------------------
(* JobService *)

\* releaseCanceledReservation: narration jobs that were canceled at once.
CancelReleases(k) == Narration /\ state[k] \in Queue!Runnable

Cancel(k) ==
  /\ Queue!RequestCancel(k)
  /\ canceling' = IF CancelReleases(k) THEN canceling \cup {k} ELSE canceling
  /\ UNCHANGED <<accountVars, kind, input, born, requeues, req, exe, month, faults>>

CancelRelease(k) ==
  /\ k \in canceling
  /\ ReleaseIfOutstanding(k, 1)
  /\ canceling' = canceling \ {k}
  /\ UNCHANGED <<jobVars, req, exe, month, faults>>

CancelDies(k) ==
  /\ k \in canceling /\ Fault
  /\ canceling' = canceling \ {k}
  /\ UNCHANGED <<accountVars, jobVars, req, exe, month>>

\* RetryFailed does not touch the reservation.
RetryFailed(k) ==
  /\ Queue!Requeue(k) /\ requeues[k] < MaxRequeues
  /\ requeues' = [requeues EXCEPT ![k] = @ + 1]
  /\ UNCHANGED <<accountVars, kind, input, born, req, exe, canceling, month, faults>>
-----------------------------------------------------------------------------
(* The worker *)

Goto(e, pc) == exe' = [exe EXCEPT ![e].pc = pc]

\* A job is taken from a live holder only if its lease has run out, a fault.
Claim(e, k) ==
  /\ exe[e].pc = "idle"
  /\ Queue!Acquire(k, e)
  /\ exe' = [exe EXCEPT ![e] =
               [pc |-> IF state[k] = "cancel_requested" THEN "canceled" ELSE "working",
                key |-> k]]
  /\ IF holder[k] = Nobody THEN UNCHANGED faults ELSE Fault
  /\ UNCHANGED <<accountVars, kind, input, born, requeues, req, canceling, month>>

\* Mutant: a failed settlement is ignored.
SettlementFailsNothing == FALSE

\* A narration fails when Settle does; an export is done all the same.
SettlementFails == Narration

\* Mutant: the units are settled in the month the job ends.
SettleMonthNow(k) == month

\* Those of the month the job was created in.
SettleMonth(k) == born[k]

\* The handler has its product and settles the units.  Settling twice is not an
\* error.
SettleUnits(e, u) ==
  LET k == exe[e].key
      m == SettleMonth(k)
  IN  /\ exe[e].pc = "working"
      /\ \/ Accounts!Settle(k, m, u) /\ Goto(e, "billed")
         \/ /\ ~Accounts!Outstanding(k, m)
            /\ UNCHANGED accountVars
            /\ Goto(e, IF res[k][m].state # "settled" /\ SettlementFails
                       THEN "failed" ELSE "billed")
      /\ UNCHANGED <<jobVars, req, canceling, month, faults>>

\* The handler returns an error, or its heartbeat has seen the cancellation.
\* What follows the settlement of an export may still fail.
HandlerEnds(e, pc) ==
  /\ \/ exe[e].pc = "working"
     \/ exe[e].pc = "billed" /\ (pc = "canceled" \/ ~Narration)
  /\ pc = "canceled" => state[exe[e].key] = "cancel_requested"
  /\ Goto(e, pc)
  /\ UNCHANGED <<accountVars, jobVars, req, canceling, month, faults>>

Verdict == [billed |-> "succeeded", failed |-> "failed", canceled |-> "canceled",
            retry |-> "retry_wait", unknown |-> "unknown_provider_result"]

\* Mutant: the hooks are not called.
NoHook(v) == FALSE

\* OnFailed and OnCanceled.
HasHook(v) == v \in {"failed", "canceled"}

\* The commit of the outcome, which the store accepts from the holder only.
Commit(e) ==
  LET k == exe[e].key
  IN  /\ exe[e].pc \in DOMAIN Verdict
      /\ holder[k] = e
      /\ Queue!Finish(k, Verdict[exe[e].pc])
      /\ IF HasHook(exe[e].pc) THEN Goto(e, "hook") ELSE exe' = [exe EXCEPT ![e] = Idle]
      /\ UNCHANGED <<accountVars, kind, input, born, requeues, req, canceling, month, faults>>

\* ErrLeaseMismatch: another executor has the job, or a back-off was refused
\* because the job was asked to stop.
CommitRejected(e) ==
  LET k == exe[e].key
  IN  /\ exe[e].pc \in DOMAIN Verdict
      /\ \/ holder[k] # e
         \/ exe[e].pc = "retry" /\ state[k] = "cancel_requested"
      /\ exe' = [exe EXCEPT ![e] = Idle]
      /\ holder' = [holder EXCEPT ![k] = IF @ = e THEN Nobody ELSE @]
      /\ UNCHANGED <<accountVars, kind, state, input, born, requeues, req, canceling, month, faults>>

\* releaseUsage
Hook(e) ==
  /\ exe[e].pc = "hook"
  /\ ReleaseIfOutstanding(exe[e].key, born[exe[e].key])
  /\ exe' = [exe EXCEPT ![e] = Idle]
  /\ UNCHANGED <<jobVars, req, canceling, month, faults>>

Crash(e) ==
  /\ exe[e].pc # "idle" /\ Fault
  /\ exe' = [exe EXCEPT ![e] = Idle]
  /\ holder' = [k \in Keys |-> IF holder[k] = e THEN Nobody ELSE holder[k]]
  /\ UNCHANGED <<accountVars, kind, state, input, born, requeues, req, canceling, month>>
-----------------------------------------------------------------------------
\* sweepTenant: a reservation older than the TTL, whatever its job is doing.
Sweep(k, m) ==
  /\ Sweeping
  /\ Accounts!Release(k, m)
  /\ UNCHANGED <<jobVars, req, exe, canceling, month, faults>>

\* Midnight of the first of the month, UTC.
MonthTurns ==
  /\ ~Narration /\ month < Months
  /\ month' = month + 1
  /\ UNCHANGED <<accountVars, jobVars, req, exe, canceling, faults>>

Request(r) ==
  \/ \E k \in Keys, s \in Snaps : ReserveUnits(r, k, s) \/ TurnedDown(r, k, s)
  \/ LimitReached(r)
  \/ CreateJob(r) \/ CreateFails(r) \/ ReleaseRequest(r) \/ RequestDies(r)

Handler(e) ==
  \/ \E u \in Units : SettleUnits(e, u)
  \/ \E pc \in {"failed", "canceled", "retry", "unknown"} : HandlerEnds(e, pc)

Next ==
  \/ \E r \in Requests : Request(r)
  \/ \E k \in Keys : Cancel(k) \/ CancelRelease(k) \/ CancelDies(k) \/ RetryFailed(k)
  \/ \E k \in Keys, m \in 1 .. Months : Sweep(k, m)
  \/ \E e \in Executors :
       \/ \E k \in Keys : Claim(e, k)
       \/ Handler(e) \/ Commit(e) \/ CommitRejected(e) \/ Hook(e) \/ Crash(e)
  \/ MonthTurns

Spec == Init /\ [][Next]_vars
-----------------------------------------------------------------------------
TypeOK ==
  /\ kind \in JobKinds
  /\ Accounts!QuotaTypeOK
  /\ Queue!TypeOK
  /\ input \in [Keys -> Snaps \cup {NoSnap}]
  /\ born \in [Keys -> 1 .. Months]
  /\ requeues \in [Keys -> Nat]
  /\ req \in [Requests -> [pc: {"idle", "reserved", "releasing", "done"},
                           key: Keys \cup {NoKey}, snap: Snaps \cup {NoSnap},
                           created: BOOLEAN]]
  /\ exe \in [Executors -> [pc: {"idle", "working", "hook"} \cup DOMAIN Verdict,
                            key: Keys \cup {NoKey}]]
  /\ canceling \subseteq Keys
  /\ month \in 1 .. Months
  /\ faults \in Nat

\* No narration succeeds without having been charged, whatever crashes, loses
\* its lease, is canceled or retried meanwhile.
SucceededIsCharged ==
  \A k \in Keys : Narration /\ state[k] = "succeeded" => ledger[k][1] # Accounts!NoEntry

\* Somebody will still release the reservation of k.
Pending(k) ==
  \/ \E e \in Executors : exe[e].key = k /\ exe[e].pc = "hook"
  \/ k \in canceling

Forgotten(k) == ~Pending(k) /\ Accounts!Outstanding(k, born[k])

\* No job is charged in two months, whoever replays its request or runs it again
\* after the month has turned.
ChargedOnce ==
  \A k \in Keys, m, n \in 1 .. Months :
    ledger[k][m] # Accounts!NoEntry /\ ledger[k][n] # Accounts!NoEntry => m = n

\* Without a fault no job that has succeeded or failed keeps units reserved.  (A
\* request that is replayed after the month has turned may reserve units again.)
EndedIsClosed ==
  faults = 0 /\ month = 1 => \A k \in Keys : state[k] \in {"succeeded", "failed"} => ~Forgotten(k)

-----------------------------------------------------------------------------
(* A statement of the source that the code does not keep *)

\* worker.go:228 and export_bundle.go:240 rely on it: a job that waits or runs has
\* units reserved or settled.
InFlightIsFunded ==
  \A k \in Keys : state[k] \in {"queued", "running"} =>
    res[k][born[k]].state \in {"reserved", "settled"}
=============================================================================
