# TLA+ models of ppts

ppts turns slide decks into narrated presentations.  An API process accepts
uploads, scripts and generation requests; worker processes execute them as
asynchronous jobs (parsing, script drafts, narration, animation, video export);
a renderer produces the frames; a console in the browser follows the jobs.  All
state lives in a database, PostgreSQL or, for a desktop installation, SQLite.

This directory models the parts of ppts whose correctness depends on the order
in which processes, transactions, statements, goroutines and failures
interleave.  What a component does is in `<Name>.tla`, its instances for TLC are
in `MC<Name>.tla` and `MC<Name>*.cfg`, and its proofs in `<Name>Proofs.tla`; two
modules hold the proofs of two components each, `TenantLimitsProofs` those of
`TenantScheduling` and `Quota`, `ConsoleProofs` those of `JobEvents` and
`AnimationSpecs`.
`PROJECT.json` lists the components, the runs, the mutants that show what each
property is sensitive to, the source lines each definition stands for, the
hazards and the theorems.

Run a model with `tlc -workers 2 -config MCJobQueuePG.cfg MCJobQueue.tla` and
check proofs with `tlapm JobQueueProofs.tla`.

## Inventory

| component | state | operations | interacts with | what is hard |
|---|---|---|---|---|
| job queue (`internal/pipeline`) | `jobs`, `job_steps` rows | Create, ClaimNext, MarkStep, Heartbeat, Complete, CompleteWithStep, ScheduleRetry, Cancel, RetryFailed | the worker loop; every handler; JobService | leases that expire under a live worker, executors of one process with one `lease_owner`, commits that come too late, MarkStep in two statements |
| worker loop (`pipeline/worker.go`) | an executor's job, credential, heartbeat goroutine | Run, claimNext, process, heartbeatRun, failed, releaseCanceled | queue, handlers, usage hooks | a heartbeat goroutine beside the handler; crash and shutdown |
| claim scheduling (`migrations/0013, 0016, 0018`) | counts over `jobs` | `ppts_claim_next_job` | queue, tenant policies | decisions on a snapshot, starvation, jobs of dead workers |
| job events (`job_events`, `api/job.go`, console) | the log, a cursor for each stream, `lastSeq` of the console | recordJobEvent, EventsSince, WatchEvents, watchJobEvents | every transaction on a job | numbers drawn before the commit, broken streams, the batch limit |
| usage quota (`internal/usage`) | `tenant_quotas`, `quota_reservations`, `usage_ledger` | Reserve, Settle, Release, SetLimit | requests, handlers, worker hooks, sweeper | repeated and late closing, a run that costs more than reserved |
| submission and billing (`api/narration.go`, `api/export_bundle.go`, `cmd/ppts/worker.go`) | a request's local state | reserve, create, release after refusal, settle, hooks, release on cancel | queue, quota | steps in separate transactions, requests that share a key, manual retry, the turn of the month |
| narration scripts (`internal/narration`) | script rows with revision, status and `audio_revision`, segment rows | Get, EnsureExists, Update, SetStatus, MarkAudioRevision | editor, reviewer, draft and narration jobs | statements without row locks, the legacy row, marks set long after the text was read |
| script draft handler (`app/scriptdraft.go`) | step rows, scripts | Handle, ensureDraft, page steps, the verdict | queue, script store, model providers | partly done attempts, several kinds of page failure, executions cut off between two writes |
| narration handler, other handlers (`internal/app`) | step rows, objects in the store | ingest, narration, export, prefill | queue, providers, quota | reruns that must reuse what was done |
| uploads (`internal/upload`, `app/upload.go`) | sessions, the uploaded object, source objects and their inventory | CreateUpload, the client's PUT, CompleteUpload, AbortUpload | project store, parse job, retention | a completion that fails half-way and is repeated, two of them, an abort beside them |
| project store (`internal/project`) | projects, source revisions, `current_revision` | CreateSourceRevision, DeleteSourceRevision | uploads, retention | deleting the current revision |
| retention (`internal/retention`) | deletion marks, lists read earlier | sweep of uploads, sources and orphans, release of stale reservations | uploads, projects, quota | lists that are stale when worked through, objects shared by content, a crash between object and row |
| render service (`internal/render`) | jobs, their ids and goroutines in memory, directories, the segment cache | submit, status, cancel, sweep, the goroutine of a job | export handler | cancellation against every step of the goroutine, directories removed after the lock, degraded pages, eviction |
| animation plans (`internal/animation`) | plan rows with revision and status | Get, Put, apply to all, export | editor, export handler | optimistic revisions, hand-made changes |
| artifacts, share links (`internal/artifact`, `internal/share`) | artifact rows, links | issue, revoke, resolve | retention | expiry and revocation |
| rate limit (`api/ratelimit*.go`) | a shared counter of a window | allow | every API process | the boundary of a window |
| model gateway (`internal/gateway`) | providers, a cache of credentials | resolve, update | handlers | a stale cache |
| audit (`internal/audit`) | log rows, archive objects | record, archive | retention | archive, then delete |
| accounts, membership, tenants, messages, settings | rows | single-transaction reads and writes | the database's row-level security | nothing of their own |

What makes each of them correct, in one line: a job has one effective holder and
always an outcome; a claim respects lease, cap and order; a watcher is sent no event
twice and ends up with the jobs as they are; the sums of a quota are those of its
reservations and every operation is charged at most once; a job that ends holds no
units; a script or plan never loses an edit, and what shows as voiced or approved is
what is spoken; an upload makes one revision whose source stays; a render is done
once, its files stay while it is known, and what is canceled stops.

## Plan

Items 1 to 11 are done; the rest is what remains, in order.

1. `JobLifecycle`, the promise of the queue, and `JobQueue`, which keeps it.
2. `TenantScheduling`: which job a claim takes.
3. `JobEvents`: the log and its watchers.
4. `Quota`.
5. `JobBilling`, which composes `Quota` with `JobLifecycle` (its `Accounts` and
   `Queue` instances).
6. `RenderService`: admission, deduplication, cancellation, expiry, the cache.
7. `SourceFiles`: uploads, source revisions and the sweep over one store.
8. `Scripts`: the script store with the callers that read and save, the reviewer
   and the narration job.
9. `ScriptDraft`: the draft handler on a queue, with its script store.
10. `AnimationSpecs`: the plan store, the editor with its draft, apply-all and
    the pin of an export.
11. Proofs of all these modules (see below); `JobLifecycle` is proved of `JobQueue`.
12. Not done: the rate limit, the audit archive and the cache of the gateway.
13. Not done: the arithmetic of the media timeline, against a reference definition.

Each module gets one run; the queue has two, for its two databases.

## The modules

### JobQueue (internal/pipeline)

`row` is the columns of a `jobs` row that decide something: `state`, `attempt`,
`lease_owner`, `fencing_token`, whether `lease_until` is null, in the future or
past, and whether `run_at` has come.  `step` is one `job_steps` row of each job,
with the token of the claim that wrote it (`by`), which is history; `ahead` is the
order of `created_at`.  `exe` is an executor, one of
the goroutines that run `Worker.Run` in a process: where `process` is, the
credential of its claim, and its heartbeat goroutine.

One store transaction is one step.  MarkStep on PostgreSQL is the exception: it
reads the lease (`AssertLease`) and writes the step (`UpsertStep`) in two READ
COMMITTED statements and locks nothing in between.  `Claim` is `ClaimNext` with
the beginning of `process`; the rows other transactions hold locked, which SKIP
LOCKED passes over, are any set (`LockedSets`).  The heartbeat runs beside the
handler (`Heartbeat`, `HeartbeatFails`, `HeartbeatStops`), and `process` decides
(`Verdict`) only when it has ended.  `Commit` is `Complete`, `CompleteWithStep`
or `ScheduleRetry`, or their rejection.

Time is abstract.  `LeaseLapses` expires a lease nobody can renew, which is the
normal course after a crash; `LeaseOverrun` expires one whose holder is still at
work, which is a fault.  Faults are counted by `faults` and bounded by
`MaxFaults`.  `StepsFollowClaims` and `SettledStepFrozen` are about MarkStep: who
lost a job, perhaps to an executor of the same process, and goes on marking steps
does not write over those of its successor, or of a settled job.

`JobLifecycle` is what the queue promises: a small state machine for each job,
at most one holder, and only the holder ends a run.  The refinement maps the
holder of a job to the executor whose owner and token the row has
(`ImplementsLifecycle`).

### TenantScheduling (migrations/0013, 0016, 0018; Worker.claimNext)

`ppts_claim_next_job` is one SQL statement: it counts the running jobs of each
tenant on the statement's snapshot, picks by load and age among the jobs below
their cap, and locks and rechecks only the row it takes.  The model has two
steps: `Read`, the snapshot, and `Take`, which chooses among what the snapshot
offered and is still free.  `claimMu` serializes the executors of one process
(`HasClaimMu`).  Passing over a row that is locked is the same as passing over a
row that has been claimed.  `Recycle` lets a finished job stand for a new
submission, so that a tenant may submit for ever.

### JobEvents (recordJobEvent, WatchEvents, the console)

`table` is the rows of the jobs.  `Record` is a transaction that changes one up to
the insertion of its event, `Commit` or `Rollback` its end; the row stays locked in
between (`MayWrite`).  `Claim` changes the row and writes no event, as ClaimNext and
`ppts_claim_next_job` do.  The numbers come from a sequence: PostgreSQL never gives
one back, SQLite's counter is part of the transaction and its writers are
serialized.  `Poll` is a round of `WatchEvents`, `Receive` the console's handler,
`Drop` and `Connect` a broken stream and its resumption after the last number
received.

`shown` is the list of the console.  Events write into it, newer or older, and pass
over a job that is not listed; the first stream starts at 0, so that it brings old
rows once more.  `Fetch` reads the list, `Fetched` puts it in the place of the one
shown, and several may be under way and arrive in any order; a list without jobs
ends the watch, and the next one starts anew.  While a job is shown in progress the
list is polled (`Polling`).  Of a row the model keeps the number of its changes and
whether its state is one of the console's `activeStates`.

Since a claim writes no event and PostgreSQL may leave one out, the stream alone
does not bring the console up to date.  What is checked is that the stream is right
(`NoRepeat`, `NothingSkipped`, `InOrderOfChange`, `EventsArrive`), and that stream
and polling together end up with every job in progress as it is (`CatchesUp`).

### Quota (internal/usage)

One action for each transaction of the store.  Units are natural numbers; in the
code they are `float64` and `numeric`, and none of the properties depends on
rounding.  `Known` is the ON CONFLICT of Reserve: an operation that has a
reservation gets it back, whatever has become of it.

### JobBilling

Requests (`ReserveUnits`, `CreateJob`, `ReleaseRequest` and their failures), the
API's Cancel and RetryFailed, the handler's settlement, the commit with its
hooks (`OnFailed`, `OnCanceled`), the sweeper and the calendar take the steps of
`Quota` and `JobLifecycle`.  The queue is taken at its promise, which
`LifecycleCorrect` proves of `JobQueue`: a composition with `JobQueue` itself
would add leases and heartbeats that make no difference to billing.  The
variable `kind` says whether the jobs are narrations or animated exports, which
differ in three points: exports are accounted by the month, a failed settlement
does not fail them, and the API's Cancel does not release their units.

### RenderService (internal/render)

`jobs`, `byHash`, `attempts` are the maps of `Service` under `Service.mu`, `job`
the records they point to, `pc`, `stopped` and `work` the goroutine of a job with
its context and what it knows of its pages, `disk` the directory of each id,
`cache` the segment cache.  A step is what happens between two critical sections,
or one operation on files outside of them: `Accept` (POST of a plan nobody has),
`Cancel` (DELETE), `Sweep` and, after its unlock, `RemoveDir` for each directory;
`AcquireSlot` or `LeaveQueue`, `Begin` or `Drop`, `Wipe`, `Lookup`,
`RenderPages`, `StoreSegments`, `Settle`, `Announce` (the two halves of the end
of `run` and `finish`; `Settle` has three ways, one for a directory that cannot be
listed); `Evict` and `Restart` at any time.  Time is not
modelled: any jobs that have ended may be due for a sweep.  A page is its segment key, so plans
may share pages, and what a backend makes of a page is moving, still or nothing.
`shared` is a history variable: ids that were given out while something of an
earlier job of that id was not over.  It exists because an id is a plan and a
number, and the numbers of a plan start over when its last job is forgotten.

### SourceFiles (internal/upload, app/upload.go, project, retention)

One project.  `session`, `named` (the revision in the row of a session), `temp` (the
object behind the signed URL), `source` and `inventory` (the content-addressed source
objects and their rows), `revs` and `current` (source revisions), `parse` (the job of
each upload), `req` (two calls of CompleteUpload or AbortUpload) and `sweep`.
CompleteUpload takes its six steps one by one, each of which may be the last
(`GiveUp`): `Start`, `Read`, `Put`, `CreateRevision` (under the project's row lock;
it finds the upload's revision or makes one), `Enqueue` (the upload's idempotency
key), `Finish`, which writes the revision found into the session; answers are read
from there.  The sweep reads a list and works through it, object first and row
second, for uploads, sources and orphans.  Three things are taken from configuration:
the grace period of the orphan scan is longer than a call takes from storing an
object to inserting its row (`AgeObject`); a signed URL expires long before the
session is old enough for the sweep (`Write`); and the object and its inventory row,
which one wrapper writes, are one step.

### Scripts (internal/narration/postgres.go, the callers in app and api)

The rows of one slide: `row[1]` is that of a source version, `row[0]` the legacy
row, which is read when the version has none and copied by the first write.
Transactions are READ COMMITTED without row locks, so each statement is a step:
`Open` and `Load` are the two statements of Get; `UpdateChecks` (the comparison
of the revision), `Delete` and `Commit` are those of Update, with `UpdateForks`
for the copy of the legacy row; `EnsureExists`; `SetStatus`, or `StatusForks` and
`StatusCommits`.  `Commit` stands for the inserts, the bump and whatever had to
wait for another transaction's lock; an insert that meets a unique key, an error
and a crash are `GiveUp`.  SQLite serializes its writers, and its behaviours are
among these.  The narration job pins a revision (`Pin`), compares it (`Take`),
reads and speaks the text in another statement (`Speak`), and marks the script
(`Mark`) before its outcome is committed.  `voiced`, `mixed` and `cleared` are
history: texts marked as spoken, marks and texts taken from a changing legacy row,
texts a reviewer has confirmed.

### ScriptDraft (app/scriptdraft.go)

A draft job of two pages, `script` with its revision and what it holds, `step`, the
job's row reduced to what the handler depends on (`JobQueue` has the rest), and
`exe`, the executions, which outlive their lease.  `Claim` is the claim with the
listing of steps (`Skipped` are the pages a former attempt settled, or none if the
listing failed); `Compose` ends with the providers' answer: a checked text, the
source text in place of one that did not pass (degraded), a rate limit, a retryable
or a permanent error; `Write` saves with the revision read before, or with the one
EnsureExists returns, which may be that of a first text another job or a user has
saved since the page was found blank (`Edit`); `Mark` is the page's step; `Finish`
the verdict over all pages, committed under the fencing token.  The save is atomic
here, since `Scripts` looks into it.  Pages without text end before any of this and
are left out; so are scripts without segments, and the caches, which a page consults
before the provider.

### AnimationSpecs (internal/animation, api/animation*.go, web/src/AnimationEditor.tsx)

The plans of one slide in one language.  `row[1]` is that of a source version,
`row[0]` the legacy one; both are numbered from 1, and a save carries a number
and not a row.  A plan is reduced to the entrance clip of one element: its id,
the moment it appears, the label that says where that moment came from
(`triggerSource`), and, as history, whether a person chose it.  `ed` is one
editor: what it last knew as saved, its draft, a conflict, the style or prefill
request under way with the draft it started from (`ask`), whether the model's plan
may still come (`waits`) with what was saved when it was last asked for (`polled`,
which the closure of the poll keeps), one that was put aside (`later`), and a PUT
under way (`call`).  Its actions are the callbacks of the component and the answers that
arrive between them.  A PUT is two steps, the comparison of the handler with the
stored plan (`PutReads`, `Reconciled`) and the write (`PutWrites`); the write
itself is one, since its UPDATE repeats the comparison of the revision.  `OthersSave`
is what other editors, and old clients that know no versions, write.  `ApplyReads` and
`ApplyWrites` are the two ends of `applyOneSlide`, `PinPlan` and `Export` the
submission of an export and the page it draws.  Which of these are about is fixed
for a behaviour by `Crews`.

## Runs

Passing runs; times are those of two TLC workers.

| run | bounds | shows |
|---|---|---|
| `queue_postgres` | one job, two executors of one process, two faults, MaxAttempts 2, one manual retry, two step states | no overlap without a fault, no unexplained attempt; commits only of the latest claim, cancellation honoured; implements `JobLifecycle` (about a minute) |
| `queue_sqlite` | one job, two executors, one fault, one manual retry, fair | with MarkStep in one transaction steps follow the order of the claims and those of a settled job stay; every job settles, every cancellation too |
| `events` | two jobs, three recorded changes, claims of rows that have changed once, one resumption, two lists under way, batches of two, both databases, fair | no event repeated, the events of a job in the order of its changes, on SQLite none skipped and all delivered; jobs shown in progress end up as they are, on both databases (about a minute) |
| `claims` | three narrations of one tenant with cap 1, two of which come again without end, a job of a small tenant, three executors in two processes, one crash, fair | the cap is exceeded by at most one for each further process; without a crash every waiting job is claimed |
| `quota` | three operations, amounts 0, 1 and 3, limits -1, 2 and 4 | sums balance, overdrawing explained; no deadlock |
| `billing` | one key, two contents, two requests, two executors, the sweeper, one manual retry, one fault, limit 1, two months, both kinds | charged at most once, no narration succeeds uncharged, ended jobs hold no units |
| `render` | two plans with a page in common, two ids for one of them and one for the other, two goroutines, one slot, a queue of one, renders that may never return, fair | the mapping leads to a live job, a plan is rendered once, listed files stay, no still page passes for a moving one; a canceled job frees its goroutine |
| `sources` | two uploads, one of them with a history, two contents, two calls, a sweep, a user who deletes revisions | sources of live revisions stay but for three named races, answers stay true, the parse job reads its revision, the project stands at no deleted revision |
| `scripts` | two callers, or one and a narration job; two segments, two saves, with and without a legacy row | no save replaces what its author has not read but for three named races; voiced and confirmed mean what they say but for the torn reads named |
| `drafts` | two pages, two executions, one page at a time, the last attempt is the second, one edit, first text by somebody else or manual retry (`MaxByHand`), one fault | a page is paid for once, a degraded page is reported, every page has a result (3.3 million states, the largest run) |
| `animation` | an editor against others, or others, old clients, apply-all and an export; one element, generated in sequence or bound to a segment; two revisions of a row | a save replaces what its author had seen, apply-all passes over marked plans, an answer that arrives leaves unsaved choices alone, an export draws what it pinned, each but for the exceptions it names (2.5 million states) |

Why these bounds are enough to be interesting.  Two executors of one process are
the smallest case in which `lease_owner` does not tell claims apart; two faults
are needed for a lease to be lost and its next holder to crash; two attempts
reach both sides of the MaxAttempts test, and one manual retry brings a job with
an old token back.  Three recorded changes with a batch limit of two let the log
outgrow a batch while both jobs have a transaction open, and claims come between
them; one resumption is one that is itself interrupted, and two lists under way can
overtake each other.  Cap 1 with two processes is the
smallest case in which two snapshots both see room.  Amounts 0 and 3 with
limits 2 and 4 make a run cost less and more than was reserved and more than
fits.  One key in `billing` is what makes requests compete; different keys only
meet in the sums of the quota, which the run `quota` covers.  In `render` two
ids let a plan be submitted again while its canceled job still runs, and one slot
with a queue of one makes every limit bind.  In `sources` two contents are what
two calls can disagree on, and the histories give the second upload a revision
that shares its content.  In `scripts` two saves are what is lost or mixed; three
were checked once (5.85 million states) and show nothing else.  In `drafts` the
window of three attempts is cut to two, which still has an attempt that may retry
and a last one; four pages at a time become one, because pages only meet in the
verdict; a manual retry beside an edit was checked once (6.5 million states) and shows
nothing else.  In `animation` the second revision is the one an author has not seen;
a third generated clip, an element without one, was checked once (5.2 million
states) and shows nothing else.

Deadlock is checked for `quota` and `animation`.  The other models may come to rest: all jobs
have settled, all events are delivered, the bounded requests are used up.

### A run that refutes a statement of the source

`claims_stuck`: a job whose worker crashed is claimed again
(pipeline/worker.go:29).  With cap 1 the dead narration counts as running and
keeps its own tenant at the cap, so it is never claimed.

### Seen with the models, without a run in the list

The first seven have a configuration that shows them.

- `MCJobQueueFrozen.cfg`: MarkStep on PostgreSQL checks the lease and writes the
  step in two statements.  In between the job may settle, and a settled job's step
  changes (`SettledStepFrozen`; pipeline/postgres.go:410 rules it out), or be claimed
  by another executor, whose step is then written over (`StepsFollowClaims`).
- `MCJobEventsSkip.cfg`: on PostgreSQL a transaction that draws a smaller number
  may commit after a watcher's cursor has passed it, and its event is left out
  (api/job.go:144 says none is).
- `MCJobBillingRetry.cfg`: a failed job can be retried by hand
  (pipeline/worker.go:228), but its units were released when it failed; the retry
  does all the work and then fails in Settle.
- `MCRenderReuse.cfg`: the directory of an id that is given out again is removed
  by a sweep, or wiped by the goroutine, of the id's earlier job.
- `MCSourceFilesMarked.cfg`: a revision that a user deletes is marked as deleted
  together with its source, but nothing ever deletes the object.
- `MCScriptsKept.cfg`: a draft page that found no script overwrites the text a
  user has saved since, without any statement of the two transactions overlapping:
  EnsureExists returns the user's row and its revision
  (scriptdraft.go:533, against the comment at 505).
- `MCAnimationSpecsMarked.cfg`: a person's change of a trigger is not always
  marked as manual, as openspec/specs/animation-spec/spec.md:208 has it: the
  editor drops the label, and the server marks only a clip whose stored label is
  that of a rule, so a second change, or one made before the first save, leaves
  no mark.  Apply-all then replaces it.

Queue, claims and billing:

- The heartbeat that finds its lease lost ends without stopping the handler
  (worker.go:322), although the comment at worker.go:305 says so.  The handler
  works on in vain; `LatestClaimCommits` shows that it commits nothing, and
  `StepsFollowClaims` that on SQLite it spoils no step either.  A draft
  execution that lost its lease goes on to save pages.
- A takeover runs a job whatever its attempt is, so MaxAttempts (worker.go:56,
  226) is exceeded after crashes.  `ExtraAttemptsExplained` bounds by how much.
- Two processes that claim on the same snapshot exceed `max_concurrent_jobs`
  (0018:53).  `CapNearlyKept` bounds by how much.
- The crashed job of an otherwise idle tenant raises the load of that tenant and
  ranks after the waiting jobs of a saturating one (0018:56), which ADR-018
  line 36 rules out.  `EveryJobRuns` therefore speaks of runs without a crash.
- An export canceled before it runs keeps its minutes reserved until the sweeper
  finds them (api/job.go:134).  `EndedIsClosed` leaves it out.
- A request that spans midnight of the first of the month reserves in one month
  and settles in the next, where there is nothing to settle; one replayed in a
  new month reserves again (api/animation_quota.go:71).  `EndedIsClosed` is
  about the first month.
- Of two concurrent requests with one key and different contents, one may make
  the reservation and the other the job; the first then releases the units of
  the other's job (api/export_bundle.go:264).

Render service and sources:

- A render job is shared by all exports that submit its plan; the one whose
  polling runs out cancels it for the others.
- The uploaded object of a completed session is never deleted, and neither is one
  the client writes through its URL after the session was aborted.
- A revision whose source the sweep took is marked and can no longer be parsed,
  and so is, without a mark, a live one with the same content, since both share
  an object.  A list of orphans read before a call stores the same content again
  deletes that object.  These are the exceptions of `LiveHasSource`.
- Two completions of one upload between which the client wrote another content
  make a revision of the one and a parse job of the other (`JobMatchesRevision`).

Scripts and drafts:

- Update compares the revision without locking the row (narration/postgres.go:94):
  of two saves with one revision both may pass, and a script may hold segments of
  both.  Get reads the row and its segments in two statements, and the copy of a
  legacy row is torn in the same way.  These are the exceptions of
  `NoSilentOverwrite`, `FreshIsVoiced` and `ConfirmedSpoken`.
- Approving and locking carry no expected revision, so a reviewer may confirm a
  text he has not seen; a draft job writes over approved and locked scripts
  (narration/model.go:27).
- The mark of a narration is set before the settlement and the outcome; a job
  that then fails leaves a script that shows as voiced.  A job that adjusted its
  rate never marks.  One that read the legacy row marks the version's own.
- The window of three draft attempts is used up by crashes, takeovers and manual
  retries alike.
- A page cut off between a degraded save and its step is skipped by the next
  attempt and loses its warning (the `adrift` of `DegradedReported`).

Animation plans:

- A save can replace a plan its author has never seen (spec.md:146 says it is
  refused): the author has read the legacy plan, and the version's own row has
  come to the same number (`NeverOverwritten`).  These are the exceptions of
  `SaveReplacesSeen` and `MarkedKept`.
- The other way round, a page that has only a legacy plan cannot be saved from a
  version's scope: no row of the version has the number the editor knows, every
  save is a conflict, and its latest plan is none.
- The answer to a style request is built on the draft at the click and drops a
  choice made since (the exception of `DraftKept`).
- A prefill request that a style request replaces leaves the editor "prefilling",
  and its button disabled, until the plan is loaded again.

Read in the code beside the models:

- RegenerateSegments takes a snapshot of one slide and makes it the played
  timeline of the whole; LatestSucceededJob looks at neither version nor language;
  `editorRevisionVoiceStatus` takes the maximum over all jobs.
- `enforceConcurrentLimit` (api/narration.go:456) counts and creates in two steps.
- The console stops reconnecting after three broken streams (Jobs.tsx:268).
- A claim records no event (postgres.go:167, 0018:60), so a console learns from its
  polled list only that a job runs.  One whose list shows no job in progress fetches
  nothing: what an old list, or the replay of the first stream, has put in the place
  of a newer row may then stay (`CatchesUp` is about jobs shown in progress).
- Of the animation editor: the answer to a style request that comes after the page
  was turned enters the draft of the next page, with the revision of the former
  (AnimationEditor.tsx:318 compares requests, not pages); a poll's answer may.

## Fairness

- Queue: `WF` of the clock (time passes), of the claim loop, of the heartbeat
  and its end, of the commit and the hooks: these are loops and straight-line
  code of a running process.  `SF` of the handler's return, because a handler
  may mark steps between; it stands for the assumption that a handler obeys its
  context and does not mark for ever.  Nothing is assumed of clients or faults;
  after a crash the executors of the process model its restart.
- Events: transactions end, the ticker of WatchEvents polls, the network
  delivers while the stream is up, the console reconnects (it gives up after
  `MaxReconnects`, in the code three) and, while it shows a job in progress, fetches
  its list every five seconds (`usePolling`): `WF` of `Polling /\ Fetch`.  `SF` of the
  arrival of a list says that not every fetch fails.
- Claims: the loops of the workers run, and leases of dead processes run out.
  Nobody has to submit.
- Render: `WF` of the steps of a goroutine.  Nothing is assumed of slots becoming
  free.  A render is assumed to end only when its context is canceled, since the
  process is started with `exec.CommandContext` and killed; a render nobody
  cancels may run for ever.
- `SourceFiles`, `Scripts`, `ScriptDraft` and `AnimationSpecs` state no fairness: a sweep may fail at every
  attempt, and whether a job comes to an end is `JobQueue`'s business.

## Proofs

All proofs hold for every value of the constants under the named assumptions of
the modules (`QueueAssumption`, `SchedulingAssumption`, `EventsAssumption`,
`QuotaAssumption`, `BillingAssumption`, `RenderAssumption`, `SourceAssumption`,
`ScriptsAssumption`, `DraftAssumption`, `AnimationAssumption`), which say that
constants are of the expected kind and, for jobs and processes in
`TenantScheduling` and plans in `RenderService`, that there are finitely many.
The specification of `Quota` is `QuotaSpec` and that of `AnimationSpecs` is
`AnimationSpec`, so that a proof module may extend them beside another one.

`JobQueueProofs`.  The inductive invariant is
`Inv == TypeOK /\ LeaseWhileActive /\ TokensApart`.  `TokensApart` says that no
executor's token is ahead of its row's and that two executors busy with one job
never have the same; `UniqueHolder` follows from it but is not inductive, since
nothing in it keeps two old claims from meeting in one token.  `StepLemma` sums
up what a step may do to rows, steps and executors (`StepCases`), and every
later lemma splits on it instead of on the twenty actions.
`OverlapCorrect` needs one conjunct more, `HandlersHold`: as long as there was
no fault, every working handler is the holder of its job; with `UniqueHolder`
two handlers of one job are the same.  The action properties `CommitsCorrect` and
`CancelCorrect` follow from `Inv` and a step.
`LifecycleCorrect` maps each step: a claim is `Acquire`, a commit `Finish`, a
crash or a lost commit `Abandon`, and the heartbeat, the steps and the clock
stutter.

`ExtraAttemptsExplained` takes three conjuncts more.  `ClaimsCounted` says that
attempts and fencing tokens count the same claims, `HooksApart` that a hook still to
run belongs to a claim that is over, and `RoomLeft` that a job which may be claimed
without a further fault or manual retry has not used up its bound.

`FollowCorrect` and `FrozenCorrect` are about SQLite: there no executor is between
reading and writing a step (`NobodyMarking`).  A step is then written by an executor
whose token the row has (`StepRowStep`), and no step has been written under a later
one (`WrittenByClaim`), since tokens only grow; a settled row has no owner
(`LeaseWhileActive`), so nobody matches it.

`TenantLimitsProofs`, claims.  `CapNearlyKept` counts jobs, which no invariant on
counts alone carries over a claim.  `PendingCounted` counts a process whose
executor holds a fitting snapshot as if it had claimed already, and `Serialized`
says that the mutex lets a process have one such snapshot at most.

`ConsoleProofs`, events.  The invariant is the types and four parts: `Numbered`
(numbers tell events apart; on SQLite there is one open transaction at most, and its
number is above those of the log), `Locked` (a job has one open transaction at most,
its snapshot is one change ahead of the row, and its number is above those of the
job's events), `Placed` (the positions of stream and console, which on SQLite stay
below an open transaction's number) and `Delivered` (on SQLite what lies at or below
a position has been received or is on its way).  `NoRepeat` follows from `Placed`,
`NothingSkipped` from `Delivered`, and `InOrderOfChange`, on both databases, from
`Locked`, whose row lock outlasts the drawing of the number.

`TenantLimitsProofs`, the quota.  Types (no sum goes below zero), charged exactly if
settled, and the finality of closing, each by one step over Reserve, Settle, Release
and SetLimit.  `Balanced` speaks of sums over all operations, and an induction over
finite sets is out of the prover's reach.  A sum is therefore the number of units in
piles, one for each operation and as high as its amount (`Total`); a step changes one
pile, which is disjoint from the others, so the sum changes by that pile
(`TotalGrows`) and no induction is needed.  The invariant, `Sums`, is `Balanced` with
the facts that the piles are finite, which holds for infinitely many operations as
well.  `OverdrawnBySettle` looks at one step and needs `Sums` for its amounts only.

`JobBillingProofs`.  `SucceededIsCharged` is not inductive: it needs that a
settled reservation has its entry in the ledger (`SettledIsCharged`), that a
handler which has passed the settlement of a narration is charged
(`BilledIsCharged`), that an executor at work has a key (`ExeOnJob`), and that
narrations know one month only (`OneMonth`).  `ChargedOnce` rests on
`ChargedWhenBorn`: an entry of the ledger belongs to the month the job was
created in, which is fixed once the job exists.  `EndedIsClosed` adds `Funded`
(in the first month a request that goes on, and a job, have a reservation, open or
not, so none is made for them later), `ClosedWhenBilled` (who has passed the
settlement has closed it) and `HookToCome` (without a fault the hook of a job that
failed is still there to run).

`AccountsCorrect` and `QueueCorrect` tie the composition to its parts: every step
of `JobBilling` is a step of `Quota` or leaves the accounts alone, and is a step of
`JobLifecycle` or leaves the job alone, a crash and a lost commit being its
`Abandon`.  The first needs that requests and executors at work name a key and a
month there are, the second that holders are executors.  The first is about steps
only, since the accounts of `JobBilling` start with a limit that is set already.

`ScriptsProofs`.  Five parts: `Known`, what a caller that has found a row knows of
it (revisions only grow, and as long as the revision is the one read the segments
are those read); `Copies`, that copies of the legacy row under way exclude each
other; `Marks`, that a mark never runs ahead of its revision, nor does one on its
way into a copy; `Narrated`, what the job knows of the row it has pinned;
`Reviewed`, that a confirmed row has been before a reviewer.  The three properties
follow from these and a step.

`RenderServiceProofs`.  `Owned` and `Staged` say that a job knows its id and which
states it can be in while its goroutine is at a point.  `Counted` says that
`attempts[p].live` is the number of known jobs of the plan, for which plans must be
finite, and that their numbers are below `next`; so numbering starts over only when
none is left.  From that `Alone` follows: an id that is not in `shared` is touched
by one goroutine, or by one sweep, at a time.  `Filed` says that what a goroutine is
about to list is there, `Pure` that the cache holds moving pages only and that a
page that does not move is among those the goroutine will report.  `FileStep` and
`MoveStep` sum up the steps that touch files and those that touch the maps.

`ConsoleProofs`, animation plans.  What matters is in the types (`Drafts`, `Asks`, `Calls`,
`Editors`): whatever the editor may save, now or when an answer arrives, carries the
number of the plan its author had before his eyes, and a draft nobody has touched
holds no choice of a person.  `Read` says that the row of a plan that was read has
gone on since or is still as it was; apply-all and an export rest on it.

`SourceFilesProofs`.  A completion takes six steps, between which other calls, the
client and the sweep run.  The proof rests on what lasts: a session, a job, the
accepted contents and the list of revisions only advance, and a revision that is due
for removal is due, or removed, ever after.  `Calls` says what a call has established
before it comes to a step (`put`: its content was accepted; `enqueue`: it has found,
or made, a revision of its upload; `answered`: the session is completed and the
revision is that of its upload), `InOrder` says of a completed session that it names
a revision of its upload, and both survive every other step because of the lasting
facts.  `Unique` and `Origin` say that an upload has one revision and where its
content comes from, `Standing` where the project stands. `LiveHasSource` is not
inductive: it needs `Listed` (the sweep works through sources that are due and
through orphans that no revision has, and no call about to make one, unless they were
stored anew) and `Stored` (a call that has stored its object and not yet made its
revision finds it there, or lost for one of the named reasons).  The properties
follow from these parts without a further step.  `TypeCorrect` adds `Rest`, the types
nothing else depends on.

`ScriptDraftProofs`.  `WrittenOnce` bounds a counter by another, and the executions
of a job overlap, so the invariant is a budget (`PaidOnce`): the saves of a page, the
executions that have it in hand and what is spare are together at most one more than
the faults.  `Spare` is one if the job can be claimed with the page open without a
further fault (`Again`), and one if a lease has been lost while its execution works on
(`Twice`).  A claim turns the spare one into an execution, a save turns the execution
into a save, and only a fault adds one.  Beside it stand `Tokens` (an execution has a
token of its own), `Reported` (a degraded text is in the step, adrift, or about to be
marked), `NotRedone` (a page that has its product is done again only if the steps
could not be read) and `Told` (what an execution knows of a page it is through with).
`EveryPageSettled` is part of the invariant and rests on `Told` at the verdict.

Types, `LeaseWhileActive`, `RunningAccounted`, the finality of closing and
`OneRevision` are proved and not in a run; they held in runs while the invariants were
worked out.

## What is only model-checked

- Liveness (`CancelSettles`, `JobSettles`, `EventsArrive`, `CatchesUp`,
  `EveryJobRuns`, `CancelFrees`): out of the prover's reach.

`StepsFollowClaims` and `SettledStepFrozen` are checked and proved for SQLite only:
they do not hold on PostgreSQL, and `queue_postgres` leaves them out.

## What is not modelled

- Contents: scripts, audio, slides, prices, text; how animation is composed and
  bound, validated and previewed, and the editor's undo.  Progress, phase and trace
  columns of jobs, on which nothing decides, and the state `waiting_review`, which no
  code sets.
- The statuses approved and locked of animation plans, which Put (ErrLocked) and
  apply-all look at: `AnimationHandler.Register` mounts no route that sets one.
- Queries that only read, and row-level security.  A store call that fails has no
  effect in the models; one that takes effect while its answer is lost looks, for
  the job, like a commit followed by a crash before the hooks.
- Further pages of the console's list, and the job it shows in detail.
- The rejection of a job in `enforceConcurrentLimit` is a choice of the
  environment (`LimitReached`), because jobs outside the model count too.
- What nothing ever deletes: objects of deleted revisions, and the uploaded originals
  of completed sessions (project/store.go:632).
- The audit archive.  Its loop (audit/archive.go:59) reads the newest 500 expired
  events, writes them and reads again until it gets fewer, but deletes only after the
  loop: a tenant with 500 or more of them is written for ever.  The comment there
  (archive.go:27) promises batch after batch and then the deletion.  It takes no
  interleaving to see this, and no model states it.
- The components listed as not modelled in `PROJECT.json`, for the
  reasons given there.

The models stand for a small share of the lines of the repository, and will not
come near a third of them.  A tenth of the lines is generated from protocol
definitions; most of the rest reads and writes document formats, draws and
encodes pages and sound, talks to providers, and turns requests into single store
calls.  That code has little state that outlives a call; what has, and is shared,
is in the tables above.
