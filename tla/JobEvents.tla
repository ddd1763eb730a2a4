----------------------------- MODULE JobEvents -----------------------------
(***************************************************************************)
(* The event log of jobs and the console that follows it.  A transaction   *)
(* that creates, finishes, retries or cancels a job, or moves its          *)
(* progress, inserts the job's snapshot into job_events (recordJobEvent);  *)
(* a claim changes the row and inserts nothing.  WatchEvents polls the log *)
(* for numbers above its cursor and streams them.  The console fetches the *)
(* list of jobs, fetches it again while it shows a job in progress, and    *)
(* writes the events of the stream into the list; it resumes a broken      *)
(* stream after the last number it has received.                           *)
(*                                                                         *)
(* One project, one console, one page of the list.  Of a row the model     *)
(* keeps how often it has changed, and whether the console counts its      *)
(* state among the activeStates; the phase, which only the list shows, is  *)
(* left out.                                                               *)
(***************************************************************************)
EXTENDS Naturals, FiniteSets

CONSTANTS
  Jobs,          \* the jobs of the project
  Backends,      \* the databases considered: "postgres", "sqlite"
  Limit,         \* EventsSince: LIMIT (200 in WatchEvents)
  MaxReconnects, \* the console opens a stream again at most three times
  MaxFetches,    \* bound: fetches of the list that are under way at a time
  MaxChanges,    \* bound: transactions that write an event
  MaxClaimed     \* bound: a row is claimed after so many changes at most

ASSUME EventsAssumption ==
  /\ Backends \subseteq {"postgres", "sqlite"}
  /\ Limit \in Nat \ {0}
  /\ MaxReconnects \in Nat /\ MaxFetches \in Nat /\ MaxChanges \in Nat /\ MaxClaimed \in Nat

VARIABLES
  backend,  \* the database, which never changes
  table,    \* Jobs -> the committed row
  next,     \* the next number of the sequence of job_events.seq
  open,     \* the events of transactions that have not ended yet
  log,      \* the committed events
  online,   \* whether there is a stream
  cursor,   \* afterSeq of WatchEvents
  stream,   \* events sent and not yet received, which arrive in order
  last,     \* lastSeq of the console
  got,      \* the numbers of the events it has received since it began to watch
  drops,    \* attempt: the streams that have broken since
  shown,    \* Jobs -> the row in the list (pages)
  fetches   \* lists that have been read and are on their way to the console

console == <<last, got, drops, shown, fetches>>
vars == <<backend, table, next, open, log, online, cursor, stream, console>>

\* A row: the number of its changes (0: there is none), and whether it is active.
JobRow == [n: Nat, active: BOOLEAN]
Absent == [n |-> 0, active |-> FALSE]

Event == [seq: Nat, job: Jobs, snap: JobRow]
-----------------------------------------------------------------------------
(* The store                                                               *)

Init ==
  /\ backend \in Backends
  /\ table = [j \in Jobs |-> Absent]
  /\ next = 1
  /\ open = {}
  /\ log = {}
  /\ online = FALSE
  /\ cursor = 0
  /\ stream = {}
  /\ last = 0
  /\ got = {}
  /\ drops = 0
  /\ shown = [j \in Jobs |-> Absent]
  /\ fetches = {}

\* Mutant: the row is read, and only the event written, in the transaction.
MayWriteAnyTime(j) == backend = "sqlite" => open = {}

\* The row of a job is locked by the UPDATE before the INSERT of the event;
\* SQLite (_txlock=immediate) has one write transaction at a time.
MayWrite(j) ==
  IF backend = "sqlite" THEN open = {} ELSE \A t \in open : t.job # j

Changed(j, active) == [n |-> table[j].n + 1, active |-> active]

\* Create, UpdateProgress, Complete, ScheduleRetry, Cancel or RetryFailed up to
\* and including recordJobEvent: the sequence hands out a number for good.
Record(j) ==
  /\ next <= MaxChanges /\ MayWrite(j)
  /\ \E active \in BOOLEAN :
       /\ ~active => table[j].active
       /\ open' = open \cup {[seq |-> next, job |-> j, snap |-> Changed(j, active)]}
  /\ next' = next + 1
  /\ UNCHANGED <<backend, table, log, online, cursor, stream, console>>

\* ClaimNext, or ppts_claim_next_job: state, attempt and updated_at change, and
\* no event tells of it.
Claim(j) ==
  /\ table[j].active /\ table[j].n <= MaxClaimed /\ MayWrite(j)
  /\ table' = [table EXCEPT ![j] = Changed(j, TRUE)]
  /\ UNCHANGED <<backend, next, open, log, online, cursor, stream, console>>

Commit(t) ==
  /\ open' = open \ {t}
  /\ log' = log \cup {t}
  /\ table' = [table EXCEPT ![t.job] = t.snap]
  /\ UNCHANGED <<backend, next, online, cursor, stream, console>>

\* PostgreSQL leaves a gap in the numbers; SQLite, whose AUTOINCREMENT counter
\* is part of the transaction, uses the number again.
Rollback(t) ==
  /\ open' = open \ {t}
  /\ next' = IF backend = "sqlite" THEN t.seq ELSE next
  /\ UNCHANGED <<backend, table, log, online, cursor, stream, console>>
-----------------------------------------------------------------------------
(* WatchEvents and the stream                                              *)

\* Mutant: the cursor is compared with >=.
SinceInclusive(after) == {e \in log : e.seq >= after}

\* The rows with seq > after.
Since(after) == {e \in log : e.seq > after}

\* ORDER BY seq ASC LIMIT: the first of them.
Batch(after) ==
  {e \in Since(after) : Cardinality({f \in Since(after) : f.seq <= e.seq}) <= Limit}

\* One round of the loop of WatchEvents: the cursor moves to the last one sent.
Poll ==
  /\ online /\ stream = {}
  /\ stream' = Batch(cursor)
  /\ \E e \in Batch(cursor) :
       /\ \A f \in Batch(cursor) : f.seq <= e.seq
       /\ cursor' = e.seq
  /\ UNCHANGED <<backend, table, next, open, log, online, console>>

Listed(j) == shown[j] # Absent

\* onEvent of the console.  applyJobUpdate writes over the row in the list, newer
\* or older, and passes over a job that is not listed.
Receive ==
  \E e \in stream :
    /\ \A f \in stream : e.seq <= f.seq
    /\ stream' = stream \ {e}
    /\ last' = e.seq
    /\ got' = got \cup {e.seq}
    /\ shown' = IF Listed(e.job) THEN [shown EXCEPT ![e.job] = e.snap] ELSE shown
    /\ UNCHANGED <<backend, table, next, open, log, online, cursor, drops, fetches>>

\* Mutant: a stream resumes at the newest number.
ResumeAtNewest == next - 1

\* lastSeq[pid] ?? afterSeq; the first stream starts at 0.
ResumeAt == last

\* The project is watched while one of its jobs is listed (watchKey).
Connect ==
  /\ ~online /\ drops <= MaxReconnects
  /\ \E j \in Jobs : Listed(j)
  /\ online' = TRUE
  /\ cursor' = ResumeAt
  /\ UNCHANGED <<backend, table, next, open, log, stream, console>>

\* The stream ends, and with it the call of WatchEvents; what was under way is lost.
Broken == online' = FALSE /\ cursor' = 0 /\ stream' = {}

\* The connection breaks.
Drop ==
  /\ online
  /\ Broken
  /\ drops' = drops + 1
  /\ UNCHANGED <<backend, table, next, open, log, last, got, shown, fetches>>
-----------------------------------------------------------------------------
(* The list                                                                *)

\* loadFirst, or refreshLoaded: when the page opens, at a click, after a cancel or
\* a retry, and by polling.  Nothing keeps a second fetch from starting before the
\* first has arrived.
Fetch ==
  /\ Cardinality(fetches) < MaxFetches
  /\ fetches' = fetches \cup {table}
  /\ UNCHANGED <<backend, table, next, open, log, online, cursor, stream, last, got, drops, shown>>

\* setPages.  A list without a job ends the watch, and the next one starts anew.
Fetched(rows) ==
  /\ fetches' = fetches \ {rows}
  /\ shown' = rows
  /\ IF \A j \in Jobs : rows[j] = Absent
       THEN Broken /\ last' = 0 /\ got' = {} /\ drops' = 0
       ELSE UNCHANGED <<online, cursor, stream, last, got, drops>>
  /\ UNCHANGED <<backend, table, next, open, log>>

\* An error is shown, and the list stays.
FetchFails(rows) ==
  /\ fetches' = fetches \ {rows}
  /\ UNCHANGED <<backend, table, next, open, log, online, cursor, stream, last, got, drops, shown>>

\* Mutant: the list is polled only while there is no stream.
PollingFallback == ~online /\ \E j \in Jobs : shown[j].active

\* hasActiveJobs.
Polling == \E j \in Jobs : shown[j].active
-----------------------------------------------------------------------------
End == \E t \in open : Commit(t) \/ Rollback(t)

Arrive == \E rows \in fetches : Fetched(rows)

Next ==
  \/ \E j \in Jobs : Record(j) \/ Claim(j)
  \/ \E t \in open : Commit(t) \/ Rollback(t)
  \/ Poll \/ Receive \/ Connect \/ Drop \/ Fetch
  \/ \E rows \in fetches : Fetched(rows) \/ FetchFails(rows)

Spec == Init /\ [][Next]_vars

\* Transactions end, the ticker of WatchEvents keeps polling, the network
\* delivers, the console reconnects and, while it shows a job in progress, fetches
\* the list every five seconds; not every fetch fails.
FairSpec ==
  /\ Spec
  /\ WF_vars(End) /\ WF_vars(Poll) /\ WF_vars(Receive) /\ WF_vars(Connect)
  /\ WF_vars(Polling /\ Fetch) /\ SF_vars(Arrive)
-----------------------------------------------------------------------------
TypeOK ==
  /\ backend \in Backends
  /\ table \in [Jobs -> JobRow]
  /\ next \in Nat
  /\ open \subseteq Event /\ log \subseteq Event
  /\ online \in BOOLEAN
  /\ cursor \in Nat
  /\ stream \subseteq Event
  /\ last \in Nat
  /\ got \subseteq Nat
  /\ drops \in Nat
  /\ shown \in [Jobs -> JobRow]
  /\ fetches \subseteq [Jobs -> JobRow]

\* Resuming after the last number received neither repeats an event...
NoRepeat ==
  \A e \in stream : e.seq \notin got

\* ...nor, on SQLite, skips one: what the cursor has passed has been received.
NothingSkipped ==
  backend = "sqlite" => \A e \in log : e.seq <= last => e.seq \in got

\* The events of one job are numbered in the order of its changes, on PostgreSQL
\* too, where transactions take their numbers in one order and commit in another:
\* of two events of a job the one that is applied later is the newer.
InOrderOfChange ==
  \A e, f \in log : e.job = f.job /\ e.seq < f.seq => e.snap.n < f.snap.n

Watching == drops <= MaxReconnects /\ \E j \in Jobs : Listed(j)

\* On SQLite every event reaches in the end the console that watches: that has not
\* given up the stream after MaxReconnects attempts, nor lost its list to an old fetch.
EventsArrive ==
  <>[](backend = "sqlite" /\ Watching => \A e \in log : e.seq \in got)

\* When the changes come to an end, a job that the list shows as in progress is shown
\* as it is, on both databases: although claims write no event, PostgreSQL skips
\* some, a stream that starts shows old rows again and fetched lists overtake it.
\* (One that is shown as ended may be out of date, for then nothing is fetched.)
CatchesUp ==
  <>[](\A j \in Jobs : shown[j].active => shown[j] = table[j])
-----------------------------------------------------------------------------
(* A statement of the source that the code does not keep on PostgreSQL *)

\* job.go:144 says that no event is left out however updates interleave.
NeverLeavesOut ==
  \A e \in log : e.seq <= last => e.seq \in got
=============================================================================
