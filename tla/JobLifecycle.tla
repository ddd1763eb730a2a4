---------------------------- MODULE JobLifecycle ----------------------------
(***************************************************************************)
(* What the job queue promises its clients: each job is a small state      *)
(* machine, it has at most one holder, and only its holder may end a run   *)
(* of it.  Leases, fencing tokens, heartbeats and crashes are details of   *)
(* how JobQueue keeps the promise.                                         *)
(***************************************************************************)
CONSTANTS
  Jobs,       \* the jobs that may be submitted
  Executors,  \* who may hold a job
  Nobody      \* no holder; not an executor

VARIABLES
  state,   \* Jobs -> the state a client sees
  holder   \* Jobs -> the executor whose outcome would be accepted

vars == <<state, holder>>

Runnable == {"queued", "retry_wait"}
InFlight == {"running", "cancel_requested"}
Outcome  == {"succeeded", "failed", "canceled", "unknown_provider_result"}

TypeOK ==
  /\ state \in [Jobs -> {"absent"} \cup Runnable \cup InFlight \cup Outcome]
  /\ holder \in [Jobs -> Executors \cup {Nobody}]

Init ==
  /\ state = [j \in Jobs |-> "absent"]
  /\ holder = [j \in Jobs |-> Nobody]

Submit(j) ==
  /\ state[j] = "absent"
  /\ state' = [state EXCEPT ![j] = "queued"]
  /\ UNCHANGED holder

\* A waiting job starts, or a running one changes hands; a job that was asked
\* to stop is only taken over to be stopped.
Acquire(j, e) ==
  /\ state[j] \in Runnable \cup InFlight
  /\ \A k \in Jobs : holder[k] # e
  /\ state' = [state EXCEPT ![j] = IF @ \in Runnable THEN "running" ELSE @]
  /\ holder' = [holder EXCEPT ![j] = e]

\* The holder ends the run: with an outcome, or waiting for another attempt.
\* The latter is out of the question once the job was asked to stop.
Finish(j, s) ==
  /\ holder[j] # Nobody
  /\ \/ state[j] \in InFlight /\ s \in Outcome
     \/ state[j] = "running" /\ s = "retry_wait"
  /\ state' = [state EXCEPT ![j] = s]
  /\ holder' = [holder EXCEPT ![j] = Nobody]

\* Holders vanish without an outcome; their jobs stay in flight.
Abandon ==
  /\ holder' \in [Jobs -> Executors \cup {Nobody}]
  /\ \A j \in Jobs : holder'[j] \in {holder[j], Nobody}
  /\ UNCHANGED state

RequestCancel(j) ==
  /\ state[j] \in Runnable \cup {"running"}
  /\ state' = [state EXCEPT ![j] =
                 IF @ = "running" THEN "cancel_requested" ELSE "canceled"]
  /\ UNCHANGED holder

Requeue(j) ==
  /\ state[j] \in {"failed", "unknown_provider_result"}
  /\ state' = [state EXCEPT ![j] = "queued"]
  /\ UNCHANGED holder

Next ==
  \/ \E j \in Jobs : Submit(j) \/ RequestCancel(j) \/ Requeue(j)
  \/ \E j \in Jobs, e \in Executors : Acquire(j, e)
  \/ \E j \in Jobs, s \in Outcome \cup {"retry_wait"} : Finish(j, s)
  \/ Abandon

Spec == Init /\ [][Next]_vars
=============================================================================
