--------------------------- MODULE RenderService ---------------------------
(***************************************************************************)
(* The render service: plans are submitted, deduplicated by their hash and *)
(* rendered by one goroutine each behind a semaphore; a render can be      *)
(* canceled at any time, ends with a list of files, and is forgotten, with *)
(* its directory, some time after it ended.  Pages rendered before come    *)
(* from a cache that is shared by all plans.                               *)
(*                                                                         *)
(* A step is what happens between two critical sections of Service.mu, or  *)
(* one operation on files outside of them.  The clock is abstract: a       *)
(* finished job becomes "old" when JobTTL has passed.  A page is named by  *)
(* its segment key, so two plans may share pages.                          *)
(***************************************************************************)
EXTENDS Integers, FiniteSets

CONSTANTS
  Plans,          \* the plans, named by their hash
  Segs,           \* the segment keys
  Pages,          \* Plans -> the segment keys of its pages
  Runs,           \* jobs with their goroutine; a forgotten one is used again
  None,           \* no job, no id
  MaxAttempts,    \* bound, Plans -> Nat: ids handed out for a plan before they start over
  MaxConcurrent,  \* ServiceConfig.MaxConcurrent
  MaxQueued,      \* ServiceConfig.MaxQueued
  KeepOrphans     \* ServiceConfig.KeepOrphans

ASSUME RenderAssumption ==
  /\ Pages \in [Plans -> SUBSET Segs] /\ IsFiniteSet(Plans)
  /\ MaxAttempts \in [Plans -> Nat \ {0}] /\ MaxConcurrent \in Nat \ {0} /\ MaxQueued \in Nat \ {0}
  /\ KeepOrphans \in BOOLEAN
  /\ None \notin Runs /\ None \notin Plans \X Nat

VARIABLES
  jobs,      \* Service.jobs: id -> the job
  byHash,    \* Service.byHash: plan -> id
  attempts,  \* Service.attempts: plan -> [next, live]
  job,       \* the job records, those out of the map included
  pc,        \* where the goroutine of a job is
  stopped,   \* the runs whose context is canceled
  work,      \* what a goroutine knows of its pages
  disk,      \* the directory of an id: the kind of each segment file
  cache,     \* the segment cache: the kind of each segment
  doomed,    \* directories a sweep has yet to remove, with the job they were of
  shared     \* history: the ids given to a job while an earlier one of that id,
             \* or the removal of its directory, was not over

mapVars == <<jobs, byHash, attempts>>
runVars == <<pc, stopped, work>>
fileVars == <<disk, cache, doomed, shared>>
serviceVars == <<jobs, byHash, attempts, job, pc, stopped, work, disk, cache, doomed, shared>>

Ids == UNION {{p} \X (0 .. MaxAttempts[p] - 1) : p \in Plans}
PlanOf(id) == id[1]
States == {"queued", "running", "succeeded", "failed", "canceled"}
\* "none", or a segment file that moves, or one that shows a still page.
Kinds == {"none", "motion", "still"}
Empty == [s \in Segs |-> "none"]

NoJob == [id |-> None, state |-> "none", arts |-> {}, degraded |-> {}]
NoWork == [hit |-> {}, bad |-> {}, arts |-> {}, out |-> "none"]
\* Where a goroutine that holds a slot can be.
Holding == {"begin", "wipe", "lookup", "render", "store", "settle", "announce"}
-----------------------------------------------------------------------------
Idle(r) == pc[r] = "none" /\ (\A id \in Ids : jobs[id] # r) /\ (\A d \in doomed : d[2] # r)

Queued == {id \in Ids : jobs[id] # None /\ job[jobs[id]].state = "queued"}

InUse == {r \in Runs : pc[r] \in Holding}

NewId(p) == <<p, attempts[p].next>>

\* Mutant: whatever the mapping names is removed.
ReleaseAny(id) == [byHash EXCEPT ![PlanOf(id)] = None]

\* Mutant: a plan that failed keeps its mapping.
ReleaseNothing(id) == byHash

\* The mapping of the plan is removed if it names this id.
Release(id) == [byHash EXCEPT ![PlanOf(id)] = IF byHash[PlanOf(id)] = id THEN None ELSE byHash[PlanOf(id)]]

Init ==
  /\ jobs = [id \in Ids |-> None]
  /\ byHash = [p \in Plans |-> None]
  /\ attempts = [p \in Plans |-> [next |-> 0, live |-> 0]]
  /\ job = [r \in Runs |-> NoJob]
  /\ pc = [r \in Runs |-> "none"]
  /\ stopped = {}
  /\ work = [r \in Runs |-> NoWork]
  /\ disk = [id \in Ids |-> Empty]
  /\ cache = Empty
  /\ doomed = {}
  /\ shared = {}
-----------------------------------------------------------------------------
(* The handlers of the API, each from its lock to its unlock.              *)

Full == Cardinality(Queued) >= MaxQueued

\* A plan that is known is not rendered again: handleSubmit answers with the
\* job it finds, and nothing changes.
Reusable(p) == byHash[p] # None

\* Something of an earlier job of the id still has its directory to touch.
Touched(id) ==
  \/ \E d \in doomed : d[1] = id
  \/ \E r \in Runs : pc[r] # "none" /\ job[r].id = id

Accept(p) ==
  /\ byHash[p] = None /\ ~Full /\ attempts[p].next < MaxAttempts[p]
  /\ \E r \in Runs :
       /\ Idle(r)
       /\ jobs' = [jobs EXCEPT ![NewId(p)] = r]
       /\ job' = [job EXCEPT ![r] = [NoJob EXCEPT !.id = NewId(p), !.state = "queued"]]
       /\ pc' = [pc EXCEPT ![r] = "slot"]
  /\ byHash' = [byHash EXCEPT ![p] = NewId(p)]
  /\ attempts' = [attempts EXCEPT ![p] = [next |-> attempts[p].next + 1, live |-> attempts[p].live + 1]]
  /\ shared' = IF Touched(NewId(p)) THEN shared \cup {NewId(p)} ELSE shared
  /\ UNCHANGED <<stopped, work, disk, cache, doomed>>

\* DELETE of a job that has neither succeeded nor failed.
Cancel(id) ==
  /\ jobs[id] # None
  /\ LET r == jobs[id]
     IN IF job[r].state \in {"queued", "running", "canceled"}
          THEN /\ byHash' = Release(id)
               /\ IF job[r].state = "canceled"
                    THEN UNCHANGED <<job, stopped>>
                    ELSE /\ job' = [job EXCEPT ![r] = [job[r] EXCEPT !.state = "canceled"]]
                         /\ stopped' = stopped \cup {r}
          ELSE UNCHANGED <<byHash, job, stopped>>
  /\ UNCHANGED <<jobs, attempts, pc, work, fileVars>>

Ended == {id \in Ids : jobs[id] # None /\ job[jobs[id]].state \in {"succeeded", "failed", "canceled"}}

\* What is left of the attempts of a plan; at zero the numbering starts over.
Dropped(p, expired) ==
  LET live == attempts[p].live - Cardinality({id \in expired : PlanOf(id) = p})
  IN IF live = 0 THEN [next |-> 0, live |-> 0] ELSE [attempts[p] EXCEPT !.live = live]

\* maybeSweep of any request: jobs that ended JobTTL ago are forgotten under the
\* lock.  Time is not modelled; any that have ended may be due.
Sweep(expired) ==
  /\ expired # {} /\ expired \subseteq Ended
  /\ jobs' = [id \in Ids |-> IF id \in expired THEN None ELSE jobs[id]]
  /\ byHash' = [p \in Plans |-> IF byHash[p] \in expired THEN None ELSE byHash[p]]
  /\ attempts' = [p \in Plans |-> Dropped(p, expired)]
  /\ doomed' = doomed \cup {<<id, jobs[id]>> : id \in expired}
  /\ job' = [r \in Runs |-> IF pc[r] = "none" /\ \E id \in expired : jobs[id] = r
                              THEN NoJob ELSE job[r]]
  /\ UNCHANGED <<runVars, disk, cache, shared>>

\* removeJobDirs, after the unlock.
RemoveDir(d) ==
  /\ disk' = [disk EXCEPT ![d[1]] = Empty]
  /\ doomed' = doomed \ {d}
  /\ UNCHANGED <<mapVars, job, runVars, cache, shared>>
-----------------------------------------------------------------------------
(* The goroutine of a job.                                                 *)

Move(r, from, to) == pc[r] = from /\ pc' = [pc EXCEPT ![r] = to]

\* finish: the outcome of a canceled job stays "canceled", and only success
\* keeps the mapping of the plan.
Finish(r, state, arts, degraded) ==
  IF job[r].state = "canceled" /\ state # "canceled"
    THEN /\ byHash' = Release(job[r].id)
         /\ job' = [job EXCEPT ![r].degraded = degraded]
    ELSE /\ byHash' = IF state = "succeeded" THEN byHash ELSE Release(job[r].id)
         /\ job' = [job EXCEPT ![r] = [id |-> job[r].id, state |-> state,
                                       arts |-> arts, degraded |-> degraded]]

AcquireSlot(r) ==
  /\ Move(r, "slot", "begin")
  /\ Cardinality(InUse) < MaxConcurrent
  /\ UNCHANGED <<mapVars, job, stopped, work, fileVars>>

\* Mutant: a canceled job waits for its slot like any other.
NeverLeave(r) == FALSE

LeaveQueue(r) ==
  /\ Move(r, "slot", "none") /\ r \in stopped
  /\ Finish(r, "canceled", {}, {})
  /\ stopped' = stopped \ {r}
  /\ UNCHANGED <<jobs, attempts, work, fileVars>>

Begin(r) ==
  /\ job[r].state # "canceled"
  /\ Move(r, "begin", "wipe")
  /\ job' = [job EXCEPT ![r].state = "running"]
  /\ UNCHANGED <<mapVars, stopped, work, fileVars>>

\* Canceled between the queue and the start: the directory first, then finish.
Drop(r) ==
  /\ job[r].state = "canceled"
  /\ Move(r, "begin", "announce")
  /\ disk' = [disk EXCEPT ![job[r].id] = Empty]
  /\ work' = [work EXCEPT ![r].out = "canceled"]
  /\ UNCHANGED <<mapVars, job, stopped, cache, doomed, shared>>

\* RemoveAll and MkdirAll, either of which may fail.
Wipe(r) ==
  \/ /\ Move(r, "wipe", "lookup")
     /\ disk' = [disk EXCEPT ![job[r].id] = Empty]
     /\ UNCHANGED <<mapVars, job, stopped, work, cache, doomed, shared>>
  \/ /\ Move(r, "wipe", "announce")
     /\ work' = [work EXCEPT ![r].out = "failed"]
     /\ disk' \in {disk, [disk EXCEPT ![job[r].id] = Empty]}
     /\ UNCHANGED <<mapVars, job, stopped, cache, doomed, shared>>

PagesOf(r) == Pages[PlanOf(job[r].id)]

\* lookupSegments: pages in the cache are copied; one that cannot be read, or
\* does not verify, counts as a miss.
Lookup(r) ==
  /\ Move(r, "lookup", "render")
  /\ \E hit \in SUBSET {s \in PagesOf(r) : cache[s] # "none"} :
       /\ work' = [work EXCEPT ![r].hit = hit]
       /\ disk' = [disk EXCEPT ![job[r].id] =
                     [s \in Segs |-> IF s \in hit THEN cache[s] ELSE @[s]]]
  /\ UNCHANGED <<mapVars, job, stopped, cache, doomed, shared>>

Dirty(r) == PagesOf(r) \ work[r].hit

\* renderPages: each page that is not cached comes out moving, still or not at
\* all, and the report names those that do not move; or the backend fails and
\* leaves what it has written.  With nothing to render it is skipped.
RenderPages(r) ==
  /\ pc[r] = "render"
  /\ \E drawn \in [Dirty(r) -> Kinds], ok \in BOOLEAN :
       /\ Dirty(r) = {} => ok
       /\ Move(r, "render", IF ok THEN "store" ELSE "settle")
       /\ disk' = [disk EXCEPT ![job[r].id] =
                     [s \in Segs |-> IF s \in Dirty(r) THEN drawn[s] ELSE @[s]]]
       /\ work' = [work EXCEPT ![r].bad = {s \in Dirty(r) : drawn[s] # "motion"},
                               ![r].out = IF ok THEN "none" ELSE "failed"]
  /\ UNCHANGED <<mapVars, job, stopped, cache, doomed, shared>>

\* Mutant: degraded pages are cached as well.
StorableAll(r) == {s \in Dirty(r) : disk[job[r].id][s] # "none"}

\* The rendered pages that may be cached: none that is degraded, and only what
\* is on disk.
Storable(r) == {s \in Dirty(r) \ work[r].bad : disk[job[r].id][s] # "none"}

\* storeSegments: a Put may fail; it does when the job is canceled.
StoreSegments(r) ==
  /\ Move(r, "store", "settle")
  /\ \E put \in SUBSET Storable(r) :
       /\ r \in stopped => put = {}
       /\ cache' = [s \in Segs |-> IF s \in put THEN disk[job[r].id][s] ELSE cache[s]]
  /\ UNCHANGED <<mapVars, job, stopped, work, disk, doomed, shared>>

\* Mutant: the pages of the plan are listed instead of what is there.
ListedPages(r) == PagesOf(r)

\* listArtifacts.
Listed(r) == {s \in Segs : disk[job[r].id][s] # "none"}

Broke(r) == r \in stopped \/ work[r].out = "failed"

\* The end of run: a canceled or failed render leaves no file behind, a
\* successful one lists what is in the directory; when that cannot be read the
\* job has failed, and the directory stays.
Settle(r) ==
  /\ Move(r, "settle", "announce")
  /\ \/ /\ Broke(r)
        /\ disk' = [disk EXCEPT ![job[r].id] = Empty]
        /\ work' = [work EXCEPT ![r].out = IF r \in stopped THEN "canceled" ELSE "failed"]
     \/ /\ ~Broke(r)
        /\ work' \in {[work EXCEPT ![r].out = "succeeded", ![r].arts = Listed(r)],
                      [work EXCEPT ![r].out = "failed"]}
        /\ UNCHANGED disk
  /\ UNCHANGED <<mapVars, job, stopped, cache, doomed, shared>>

\* setDegraded and finish; the slot is given back.
Announce(r) ==
  /\ Move(r, "announce", "none")
  /\ Finish(r, work[r].out, work[r].arts,
            IF work[r].out = "succeeded" THEN work[r].bad ELSE {})
  /\ work' = [work EXCEPT ![r] = NoWork]
  /\ stopped' = stopped \ {r}
  /\ UNCHANGED <<jobs, attempts, fileVars>>
-----------------------------------------------------------------------------
\* The cache evicts old segments when it is over its size.
Evict(s) ==
  /\ cache[s] # "none"
  /\ cache' = [cache EXCEPT ![s] = "none"]
  /\ UNCHANGED <<mapVars, job, runVars, disk, doomed, shared>>

\* The process ends and starts again: everything in memory is gone, and the
\* directories are swept unless they may be another replica's.
Restart ==
  /\ jobs' = [id \in Ids |-> None]
  /\ byHash' = [p \in Plans |-> None]
  /\ attempts' = [p \in Plans |-> [next |-> 0, live |-> 0]]
  /\ job' = [r \in Runs |-> NoJob]
  /\ pc' = [r \in Runs |-> "none"]
  /\ stopped' = {}
  /\ work' = [r \in Runs |-> NoWork]
  /\ disk' = IF KeepOrphans THEN disk ELSE [id \in Ids |-> Empty]
  /\ doomed' = {}
  /\ UNCHANGED <<cache, shared>>

Step(r) ==
  \/ AcquireSlot(r) \/ LeaveQueue(r) \/ Begin(r) \/ Drop(r) \/ Wipe(r) \/ Lookup(r)
  \/ RenderPages(r) \/ StoreSegments(r) \/ Settle(r) \/ Announce(r)

Background ==
  \/ \E r \in Runs : Step(r)
  \/ \E expired \in SUBSET Ended : Sweep(expired)
  \/ \E d \in doomed : RemoveDir(d)
  \/ \E s \in Segs : Evict(s)
  \/ Restart

Next ==
  \/ Background
  \/ \E p \in Plans : Accept(p)
  \/ \E id \in Ids : Cancel(id)

Spec == Init /\ [][Next]_serviceVars

\* Goroutines run, and one that waits for a slot sees its cancellation; a backend
\* whose context is canceled is killed, one that is not may take as long as it
\* likes.
Fairness ==
  \A r \in Runs :
    /\ WF_serviceVars(LeaveQueue(r) \/ Begin(r) \/ Drop(r) \/ Wipe(r) \/ Lookup(r)
                        \/ StoreSegments(r) \/ Settle(r) \/ Announce(r))
    /\ WF_serviceVars(r \in stopped /\ RenderPages(r))

FairSpec == Spec /\ Fairness
-----------------------------------------------------------------------------
JobRecs == [id: Ids \cup {None}, state: States \cup {"none"},
            arts: SUBSET Segs, degraded: SUBSET Segs]
WorkRecs == [hit: SUBSET Segs, bad: SUBSET Segs, arts: SUBSET Segs,
             out: {"none", "succeeded", "failed", "canceled"}]

TypeOK ==
  /\ jobs \in [Ids -> Runs \cup {None}]
  /\ byHash \in [Plans -> Ids \cup {None}]
  /\ attempts \in [Plans -> [next: Nat, live: Nat]]
  /\ job \in [Runs -> JobRecs]
  /\ pc \in [Runs -> Holding \cup {"none", "slot"}]
  /\ stopped \in SUBSET Runs
  /\ work \in [Runs -> WorkRecs]
  /\ disk \in [Ids -> [Segs -> Kinds]]
  /\ cache \in [Segs -> Kinds]
  /\ doomed \in SUBSET (Ids \X Runs)
  /\ shared \in SUBSET Ids

\* The mapping never leads to a job that is gone or that ended badly: a repeated
\* submission dereferences the job it finds (handleSubmit), and a plan that
\* failed or was canceled can be rendered again.
MappingLive ==
  \A p \in Plans : byHash[p] # None =>
    /\ jobs[byHash[p]] # None
    /\ PlanOf(byHash[p]) = p
    /\ job[jobs[byHash[p]]].state \in {"queued", "running", "succeeded"}

\* A plan is not rendered twice: of the jobs that are queued, running or have
\* succeeded there is one per plan, and the mapping names it -- unless an id of
\* the plan was given out while its earlier owner was still around.
OnePerPlan ==
  \A id \in Ids :
    /\ jobs[id] # None
    /\ job[jobs[id]].state \in {"queued", "running", "succeeded"}
    /\ \A other \in shared : PlanOf(other) # PlanOf(id)
    => byHash[PlanOf(id)] = id

\* What a job that succeeded has listed can be downloaded for as long as the job
\* is known (handleArtifact) -- unless its directory was shared.
ArtifactsKept ==
  \A id \in Ids \ shared :
    jobs[id] # None /\ job[jobs[id]].state = "succeeded"
      => \A s \in job[jobs[id]].arts : disk[id][s] # "none"

\* The same for every job: the files are kept for JobTTL (ServiceConfig), and a
\* retry lands in a directory no earlier job removes (allocID).
AlwaysKept ==
  \A id \in Ids :
    jobs[id] # None /\ job[jobs[id]].state = "succeeded"
      => \A s \in job[jobs[id]].arts : disk[id][s] # "none"

\* A page that does not move is never handed out as one that does: a file a
\* successful job lists shows a still page only if the job reports the page as
\* degraded -- rendered just now or taken from the cache.
NoSilentStill ==
  shared = {} =>
    \A id \in Ids :
      jobs[id] # None /\ job[jobs[id]].state = "succeeded"
        => \A s \in job[jobs[id]].arts :
             disk[id][s] = "still" => s \in job[jobs[id]].degraded

\* A canceled job lets go of its goroutine and its slot, even when every slot is
\* taken by renders that never return: cancellations do not pile up goroutines.
CancelFrees == \A r \in Runs : r \in stopped ~> pc[r] = "none"
=============================================================================
