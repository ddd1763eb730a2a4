----------------------------- MODULE ScriptDraft -----------------------------
(***************************************************************************)
(* A script_draft job (internal/app/scriptdraft.go): each page of a deck   *)
(* is read, rewritten by a language model, saved and recorded as a step of *)
(* the job, while its editor changes scripts, the lease may be lost to a   *)
(* second execution and a failed attempt is repeated.                      *)
(*                                                                         *)
(* The queue is the part of JobQueue that the handler sees: every claim    *)
(* counts an attempt and takes a new fencing token.  A page's save is one  *)
(* step here; Scripts takes it apart.                                      *)
(***************************************************************************)
EXTENDS Naturals, FiniteSets

CONSTANTS Pages,       \* the target pages that have a text to start from (others are skipped)
          Exes,        \* executions that may overlap
          Concurrency, \* pages in progress at a time within one execution
          Window,      \* maxScriptDraftRetryAttempts
          MaxByHand,   \* bound on the saves of users and the manual retries, together
          MaxFaults    \* bound on crashes, lost leases and store errors

ASSUME DraftAssumption ==
  /\ Concurrency \in Nat \ {0} /\ Window \in Nat \ {0}
  /\ MaxByHand \in Nat /\ MaxFaults \in Nat

VARIABLES job,     \* the jobs row
          exe,     \* exe[x]: an execution of the handler
          script,  \* script[p]: revision of a page's script, and whether its text is the source
                   \* itself ("degraded"), one fit to be spoken ("good"), or none
          step,    \* step[p]: the job_steps row of a page
          writes,  \* writes[p]: how often this job has saved the page
          adrift,  \* pages whose product no step, or no execution, knows of
          edits, requeues, faults  \* bounded events so far

vars == <<job, exe, script, step, writes, adrift, edits, requeues, faults>>

Drafts == {"good", "degraded"}
Errors == {"limited", "retryable", "permanent"}
Products == {"success", "degraded"}

\* a page of an execution; rev: the revision read, blind: Get found no script
Page(pc) == [pc |-> pc, rev |-> 0, blind |-> FALSE, res |-> "none"]

NoExe == [token |-> 0, attempt |-> 0, stop |-> FALSE, page |-> [p \in Pages |-> Page("done")], errs |-> {}]

NoScript == [rev |-> 0, text |-> "none"]

Init ==
  /\ job \in [state : {"waiting"}, attempt : {0}, token : {0}, held : {FALSE}, over : BOOLEAN]
  /\ exe = [x \in Exes |-> NoExe]
  /\ script \in [Pages -> {NoScript, [rev |-> 1, text |-> "good"]}]
  /\ step = [p \in Pages |-> "none"]
  /\ writes = [p \in Pages |-> 0]
  /\ adrift = {}
  /\ edits = 0 /\ requeues = 0 /\ faults = 0

Bounds == <<edits, requeues, faults>>

\* a page that has run to its marking; a page that holds a slot
InPage(x, p, pc) == exe[x].page[p].pc = pc
Busy(x) == {p \in Pages : exe[x].page[p].pc \notin {"todo", "done"}}
Running(x) == exe[x].token # 0

\* the fenced statements of an execution still find their row
Holds(x) == Running(x) /\ job.token = exe[x].token /\ job.state \in {"running", "stopping"}

Fault == faults < MaxFaults /\ faults' = faults + 1

(* ---- claims and attempts ---------------------------------------------------- *)

\* Mutant: only the good pages are kept from an earlier attempt
SkippedGood(listed) == IF listed THEN {p \in Pages : step[p] = "success"} ELSE {}

\* pages that an earlier attempt has produced are not done again
Skipped(listed) == IF listed THEN {p \in Pages : step[p] \in Products} ELSE {}

\* a waiting job, or a running one whose lease has lapsed
Claimable == job.state = "waiting" \/ (job.state = "running" /\ ~job.held)

\* when ListSteps fails the attempt does every page again
Claim(x) ==
  /\ ~Running(x) /\ Claimable
  /\ \E listed \in BOOLEAN :
       /\ IF listed THEN UNCHANGED faults ELSE Fault
       /\ adrift' = adrift \cup (Skipped(TRUE) \ Skipped(listed))
       /\ job' = [job EXCEPT !.state = "running", !.held = TRUE, !.attempt = @ + 1, !.token = @ + 1]
       /\ exe' = [exe EXCEPT ![x] =
            [NoExe EXCEPT !.token = job.token + 1, !.attempt = job.attempt + 1,
               !.page = [p \in Pages |-> Page(IF p \in Skipped(listed) THEN "done" ELSE "todo")]]]
  /\ UNCHANGED <<script, step, writes, edits, requeues>>

\* the document or the tenant's model cannot be had: the attempt fails before any page
ClaimFails ==
  /\ Claimable /\ Fault
  /\ job' = [job EXCEPT !.state = "failed", !.held = FALSE, !.attempt = @ + 1, !.token = @ + 1]
  /\ UNCHANGED <<exe, script, step, writes, adrift, edits, requeues>>

\* a job that was asked to stop and lost its worker is canceled by the next claim
ClaimCanceled ==
  /\ job.state = "stopping" /\ ~job.held
  /\ job' = [job EXCEPT !.state = "canceled", !.token = @ + 1]
  /\ UNCHANGED <<exe, script, step, writes, adrift, Bounds>>

\* Cancel; the heartbeat of the execution finds out
Cancel ==
  /\ job.state \in {"waiting", "running"}
  /\ job' = [job EXCEPT !.state = IF @ = "waiting" THEN "canceled" ELSE "stopping"]
  /\ UNCHANGED <<exe, script, step, writes, adrift, Bounds>>

Heartbeat(x) ==
  /\ Holds(x) /\ job.state = "stopping" /\ ~exe[x].stop
  /\ exe' = [exe EXCEPT ![x].stop = TRUE]
  /\ UNCHANGED <<job, script, step, writes, adrift, Bounds>>

\* the lease passes though the execution is at work; it goes on
LoseLease ==
  /\ job.state \in {"running", "stopping"} /\ job.held
  /\ Fault
  /\ job' = [job EXCEPT !.held = FALSE]
  /\ UNCHANGED <<exe, script, step, writes, adrift, edits, requeues>>

Unmarked(x) == {p \in Pages : InPage(x, p, "marking") /\ exe[x].page[p].res \in Drafts}

Crash(x) ==
  /\ Running(x)
  /\ Fault
  /\ exe' = [exe EXCEPT ![x] = NoExe]
  /\ job' = [job EXCEPT !.held = @ /\ ~Holds(x)]
  /\ adrift' = adrift \cup Unmarked(x)
  /\ UNCHANGED <<script, step, writes, edits, requeues>>

(* ---- one page ------------------------------------------------------------------ *)

AtPage(x, p, pg) == exe' = [exe EXCEPT ![x].page[p] = pg]

\* an error becomes a failed step, but not once the job has been told to stop
Failing(x, p, err) ==
  exe' = [exe EXCEPT ![x] =
    IF exe[x].stop THEN [exe[x] EXCEPT !.page[p] = Page("done")]
    ELSE [exe[x] EXCEPT !.page[p] = [Page("marking") EXCEPT !.res = err], !.errs = @ \cup {err}]]

\* ensureDraft leaves a script that has segments alone
Kept(p) == script[p].text # "none" /\ ~job.over

\* the script is read, and nothing shared is touched until draftTextDetail answers: a text that
\* passes the checks, at once or after one repair, the source itself when neither does, or
\* the first call's error
Compose(x, p) ==
  /\ InPage(x, p, "todo") /\ Cardinality(Busy(x)) < Concurrency
  /\ \/ exe[x].stop /\ AtPage(x, p, Page("done"))
     \/ /\ ~exe[x].stop /\ Kept(p)
        /\ AtPage(x, p, [Page("marking") EXCEPT !.res = "skipped"])
     \/ /\ ~exe[x].stop /\ ~Kept(p)
        /\ \/ \E d \in Drafts :
                AtPage(x, p, [pc |-> "writing", rev |-> script[p].rev, blind |-> script[p].text = "none", res |-> d])
           \/ \E err \in Errors : Failing(x, p, err)
  /\ UNCHANGED <<job, script, step, writes, adrift, Bounds>>

\* the revision given to Update; a page without script takes EnsureExists' at this point,
\* be it that of a text somebody has saved since
Expected(x, p) == IF exe[x].page[p].blind THEN script[p].rev ELSE exe[x].page[p].rev

\* a call made after the context was canceled fails
Write(x, p) ==
  /\ InPage(x, p, "writing")
  /\ IF Expected(x, p) = script[p].rev /\ ~exe[x].stop
       THEN /\ script' = [script EXCEPT ![p] = [rev |-> @.rev + 1, text |-> exe[x].page[p].res]]
            /\ writes' = [writes EXCEPT ![p] = @ + 1]
            /\ AtPage(x, p, [Page("marking") EXCEPT !.res = exe[x].page[p].res])
       ELSE Failing(x, p, "permanent") /\ UNCHANGED <<script, writes>>
  /\ UNCHANGED <<job, step, adrift, Bounds>>

\* Mutant: a degraded page is recorded as a success
StepOfAnyDraft(res) == CASE res \in Drafts -> "success"
                         [] res \in {"retryable", "permanent"} -> "failed"
                         [] OTHER -> res

\* pageStepState, and the failed step with its error (a rate limit's told from the others)
StepOf(res) == CASE res = "good" -> "success"
                 [] res \in {"retryable", "permanent"} -> "failed"
                 [] OTHER -> res

\* MarkStep; an error, the lost lease's among them, is ignored
Mark(x, p) ==
  /\ InPage(x, p, "marking")
  /\ \/ /\ Holds(x) /\ ~exe[x].stop
        /\ step' = [step EXCEPT ![p] = StepOf(exe[x].page[p].res)]
        /\ UNCHANGED <<adrift, faults>>
     \/ /\ IF Holds(x) /\ ~exe[x].stop THEN Fault ELSE UNCHANGED faults
        /\ adrift' = IF p \in Unmarked(x) THEN adrift \cup {p} ELSE adrift
        /\ UNCHANGED step
  /\ AtPage(x, p, Page("done"))
  /\ UNCHANGED <<job, script, writes, edits, requeues>>

(* ---- the end of an attempt ------------------------------------------------------ *)

\* Mutant: a rate limit lets the job succeed in every attempt
VerdictsEarly(x) ==
  LET last == exe[x].attempt >= Window
      hard == exe[x].errs \ {"limited"} IN
  IF exe[x].stop THEN {"canceled"}
  ELSE IF hard # {} THEN {IF e = "retryable" /\ ~last THEN "waiting" ELSE "failed" : e \in hard}
  ELSE {"succeeded"}

\* Handle returns the first error that is no rate limit, else a rate limit; retryable ones
\* are given up in the last attempt of the window, a rate limit as a success
Verdicts(x) ==
  LET last == exe[x].attempt >= Window
      hard == exe[x].errs \ {"limited"} IN
  IF exe[x].stop THEN {"canceled"}
  ELSE IF hard # {} THEN {IF e = "retryable" /\ ~last THEN "waiting" ELSE "failed" : e \in hard}
  ELSE {IF exe[x].errs # {} /\ ~last THEN "waiting" ELSE "succeeded"}

\* the worker commits the verdict under its fencing token; no retry for a job asked to stop
Finish(x) ==
  /\ Running(x)
  /\ \A p \in Pages : InPage(x, p, "done")
  /\ \E v \in Verdicts(x) :
       job' = IF Holds(x) /\ (v = "waiting" => job.state = "running")
                THEN [job EXCEPT !.state = v, !.held = FALSE]
                ELSE [job EXCEPT !.held = @ /\ ~Holds(x)]
  /\ exe' = [exe EXCEPT ![x] = NoExe]
  /\ UNCHANGED <<script, step, writes, adrift, Bounds>>

(* ---- users ---------------------------------------------------------------------- *)

\* the editor saves a text; the first one of a page, too, once another draft job has come as
\* far as EnsureExists
Edit(p) ==
  /\ edits + requeues < MaxByHand
  /\ script' = [script EXCEPT ![p] = [rev |-> @.rev + 1, text |-> "good"]]
  /\ edits' = edits + 1
  /\ UNCHANGED <<job, exe, step, writes, adrift, requeues, faults>>

RetryFailed ==
  /\ job.state = "failed" /\ edits + requeues < MaxByHand
  /\ job' = [job EXCEPT !.state = "waiting"]
  /\ requeues' = requeues + 1
  /\ UNCHANGED <<exe, script, step, writes, adrift, edits, faults>>

PageStep(x, p) == Compose(x, p) \/ Write(x, p) \/ Mark(x, p)

Next ==
  \/ \E x \in Exes : Claim(x) \/ Heartbeat(x) \/ Crash(x) \/ Finish(x) \/ \E p \in Pages : PageStep(x, p)
  \/ ClaimFails \/ ClaimCanceled \/ Cancel \/ LoseLease \/ RetryFailed
  \/ \E p \in Pages : Edit(p)

Spec == Init /\ [][Next]_vars

(* ---- properties ------------------------------------------------------------------ *)

\* A page is saved once by its job, and once more for each crash, lost lease or failed call
\* of the step store: no attempt and no manual retry pays for a page again.
WrittenOnce == \A p \in Pages : writes[p] <= 1 + faults

\* A succeeded job never passes off the source text as a draft: the page's step says
\* degraded, unless the execution that saved it was cut off before the step or a later one
\* could not read the steps.
DegradedReported ==
  job.state = "succeeded" =>
    \A p \in Pages : script[p].text = "degraded" =>
      step[p] = "degraded" \/ p \in adrift \/ \E x \in Exes : p \in Unmarked(x)

\* When a job has ended by itself every page has its step, and in a succeeded one a page
\* without product was skipped or hit the rate limit up to the end of the window.
Settled(p) ==
  /\ step[p] # "none"
  /\ job.state = "succeeded" =>
       step[p] \in Products \cup {"skipped"} \/ (step[p] = "limited" /\ job.attempt >= Window)

EveryPageSettled ==
  job.state \in {"succeeded", "failed"} /\ faults = 0 => \A p \in Pages : Settled(p)
=============================================================================
