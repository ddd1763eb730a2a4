-------------------------- MODULE ScriptDraftProofs --------------------------
(***************************************************************************)
(* Proofs about ScriptDraft for every number of pages, executions, edits,  *)
(* manual retries and faults.                                              *)
(*                                                                         *)
(* A page may be saved once for each execution that has it in hand, and    *)
(* once more if the job can still be claimed with the page open.  A fault  *)
(* raises the sum of both by one, and every other step keeps it or spends  *)
(* it on a save.                                                           *)
(***************************************************************************)
EXTENDS ScriptDraft, FiniteSetTheorems, TLAPS

JobStates == {"waiting", "running", "stopping", "failed", "succeeded", "canceled"}
Results == Drafts \cup Errors \cup {"skipped"}

PageRecord == [pc: {"todo", "writing", "marking", "done"}, rev: Nat, blind: BOOLEAN,
               res: Results \cup {"none"}]
ExeRecord == [token: Nat, attempt: Nat, stop: BOOLEAN, page: [Pages -> PageRecord],
              errs: SUBSET Errors]
JobRecord == [state: JobStates, attempt: Nat, token: Nat, held: BOOLEAN, over: BOOLEAN]
ScriptRecord == [rev: Nat, text: {"none"} \cup Drafts]

Steps == {"none", "skipped", "limited", "failed"} \cup Products

Typed ==
  /\ job \in JobRecord
  /\ exe \in [Exes -> ExeRecord]
  /\ script \in [Pages -> ScriptRecord]
  /\ step \in [Pages -> Steps]
  /\ writes \in [Pages -> Nat]
  /\ faults \in Nat

\* An execution has a token of its own, and the newest one the job's attempt.
Tokens ==
  /\ \A x \in Exes : exe[x].token <= job.token /\ (exe[x].token = 0 => exe[x] = NoExe)
  /\ \A x, y \in Exes : Running(x) /\ exe[x].token = exe[y].token => x = y
  /\ \A x \in Exes : Holds(x) => exe[x].attempt = job.attempt

\* The executions that may still save page p.
InHand(x, p) == exe[x].page[p].pc \in {"todo", "writing"}
Writers(p) == {x \in Exes : InHand(x, p)}

\* The execution that holds the job is through with p and leaves it open.
LeavesOpen(x, p) ==
  /\ ~exe[x].stop /\ ~InHand(x, p)
  /\ IF InPage(x, p, "marking") THEN exe[x].page[p].res \notin Drafts ELSE step[p] \notin Products

\* Without a further fault the job may be claimed with p open: after its
\* execution has ended, or if none has it; and beside one that lost its lease.
Led == \E x \in Exes : Holds(x)

Again(p) ==
  IF Led THEN \E x \in Exes : Holds(x) /\ LeavesOpen(x, p)
  ELSE job.state \in {"waiting", "failed", "running"} /\ step[p] \notin Products

Twice == Led /\ job.state = "running" /\ ~job.held

Spare(p) == (IF Again(p) THEN 1 ELSE 0) + (IF Twice THEN 1 ELSE 0)

Budget(p) ==
  IsFiniteSet(Writers(p)) /\ writes[p] + Cardinality(Writers(p)) + Spare(p) <= 1 + faults

PaidOnce == \A p \in Pages : Budget(p)

\* A degraded text is in the step, adrift, or about to be marked.
Reported ==
  \A p \in Pages : script[p].text = "degraded" =>
    \/ step[p] = "degraded" \/ p \in adrift
    \/ \E x \in Exes : InPage(x, p, "marking") /\ exe[x].page[p].res = "degraded"

\* A page that has its product is done again only if the steps were not read.
NotRedone ==
  \A x \in Exes, p \in Pages :
    Holds(x) /\ ~InPage(x, p, "done") /\ step[p] \in Products => p \in adrift

\* What an execution has made of a page that is done.
Accounted(x, p) ==
  \/ step[p] \in Products \cup {"skipped"}
  \/ step[p] = "limited" /\ "limited" \in exe[x].errs
  \/ step[p] = "failed" /\ exe[x].errs \ {"limited"} # {}

Told ==
  \A x \in Exes, p \in Pages :
    /\ InPage(x, p, "writing") => exe[x].page[p].res \in Drafts
    /\ InPage(x, p, "marking") => exe[x].page[p].res \in Drafts \cup {"skipped"} \cup exe[x].errs
    /\ faults = 0 /\ Holds(x) /\ ~exe[x].stop /\ InPage(x, p, "done") => Accounted(x, p)

IInv ==
  /\ Typed /\ Tokens /\ PaidOnce /\ Reported /\ NotRedone /\ Told
  /\ EveryPageSettled
-----------------------------------------------------------------------------
(* What a step of one page changes *)

\* Execution x moves page p, and may note an error.
Moves(x, p) ==
  /\ exe' \in [Exes -> ExeRecord]
  /\ \A y \in Exes \ {x} : exe'[y] = exe[y]
  /\ exe'[x].token = exe[x].token /\ exe'[x].attempt = exe[x].attempt
  /\ exe'[x].stop = exe[x].stop /\ exe[x].errs \subseteq exe'[x].errs
  /\ \A q \in Pages \ {p} : exe'[x].page[q] = exe[x].page[q]

Turned(x, p, pg, errs) ==
  exe' = [exe EXCEPT ![x] = [exe[x] EXCEPT !.page = [exe[x].page EXCEPT ![p] = pg],
                                           !.errs = errs]]

\* A page that is moved, and with it the errors.
LEMMA PageTurned ==
  ASSUME Typed, NEW x \in Exes, NEW p \in Pages, NEW pg \in PageRecord,
         NEW errs \in SUBSET Errors, exe[x].errs \subseteq errs, Turned(x, p, pg, errs)
  PROVE  Moves(x, p) /\ exe'[x].page[p] = pg /\ exe'[x].errs = errs
<1> DEFINE pages == [exe[x].page EXCEPT ![p] = pg]
           e == [exe[x] EXCEPT !.page = pages, !.errs = errs]
<1>1. exe[x] \in ExeRecord
  BY DEF Typed
<1>2. exe' = [exe EXCEPT ![x] = e]
  BY DEF Turned
<1>3. pages \in [Pages -> PageRecord] /\ pages[p] = pg
      /\ \A q \in Pages \ {p} : pages[q] = exe[x].page[q]
  BY <1>1 DEF ExeRecord
<1> HIDE DEF pages
<1>4. /\ e \in ExeRecord /\ e.page = pages /\ e.errs = errs
      /\ e.token = exe[x].token /\ e.attempt = exe[x].attempt /\ e.stop = exe[x].stop
  BY <1>1, <1>3 DEF ExeRecord
<1> HIDE DEF e
<1>5. exe'[x] = e /\ exe' \in [Exes -> ExeRecord] /\ \A y \in Exes \ {x} : exe'[y] = exe[y]
  BY <1>2, <1>4 DEF Typed
<1> QED
  BY <1>3, <1>4, <1>5 DEF Moves

\* AtPage, the change of a page that notes no error.
LEMMA AtPageTurns ==
  ASSUME Typed, NEW x \in Exes, NEW p \in Pages, NEW pg \in PageRecord, AtPage(x, p, pg)
  PROVE  Moves(x, p) /\ exe'[x].page[p] = pg /\ exe'[x].errs = exe[x].errs
<1>1. exe[x] \in ExeRecord
  BY DEF Typed
<1>2. exe[x].errs \in SUBSET Errors
  BY <1>1 DEF ExeRecord
<1> DEFINE pages == [exe[x].page EXCEPT ![p] = pg]
<1>3. [exe[x] EXCEPT !.page = pages] = [exe[x] EXCEPT !.page = pages, !.errs = exe[x].errs]
  BY <1>1 DEF ExeRecord
<1>4. exe' = [exe EXCEPT ![x] = [exe[x] EXCEPT !.page = pages]]
  BY DEF AtPage
<1>5. Turned(x, p, pg, exe[x].errs)
  BY <1>3, <1>4 DEF Turned
<1> QED
  BY <1>2, <1>5, PageTurned

\* The pages that a step may leave behind.
LEMMA PageTypes ==
  /\ Page("done") \in PageRecord /\ Page("done").pc = "done"
  /\ Page("todo") \in PageRecord /\ Page("todo").pc = "todo"
  /\ \A r \in Results : LET pg == [Page("marking") EXCEPT !.res = r]
                        IN  pg \in PageRecord /\ pg.pc = "marking" /\ pg.res = r
BY DEF Page, PageRecord, Results

\* A page that fails is marked with its error, or left once the job is to stop.
LEMMA PageFails ==
  ASSUME Typed, NEW x \in Exes, NEW p \in Pages, NEW err \in Errors, Failing(x, p, err)
  PROVE  /\ Moves(x, p)
         /\ \/ exe[x].stop /\ exe'[x].page[p].pc = "done"
            \/ /\ ~exe[x].stop /\ exe'[x].page[p].pc = "marking"
               /\ exe'[x].page[p].res = err /\ err \in exe'[x].errs
<1>1. exe[x] \in ExeRecord /\ exe[x].errs \in SUBSET Errors
  BY DEF Typed, ExeRecord
<1>2. CASE exe[x].stop
  <2>1. AtPage(x, p, Page("done"))
    BY <1>2 DEF Failing, AtPage
  <2> QED
    BY <1>2, <2>1, PageTypes, AtPageTurns
<1>3. CASE ~exe[x].stop
  <2> DEFINE pg == [Page("marking") EXCEPT !.res = err]
             errs == exe[x].errs \cup {err}
  <2>1. pg \in PageRecord /\ pg.pc = "marking" /\ pg.res = err
    BY PageTypes DEF Results
  <2>2. Turned(x, p, pg, errs)
    BY <1>3 DEF Failing, Turned
  <2>3. errs \in SUBSET Errors /\ exe[x].errs \subseteq errs /\ err \in errs
    BY <1>1
  <2> HIDE DEF pg, errs
  <2>4. Moves(x, p) /\ exe'[x].page[p] = pg /\ exe'[x].errs = errs
    BY <2>1, <2>2, <2>3, PageTurned
  <2> QED
    BY <1>3, <2>1, <2>3, <2>4
<1> QED
  BY <1>2, <1>3

\* What Compose leaves: a draft, for a page that may be saved, or a page to be marked.
LEMMA ComposeTurns ==
  ASSUME Typed, NEW x \in Exes, NEW p \in Pages, Compose(x, p)
  PROVE  /\ Moves(x, p)
         /\ \/ exe'[x].page[p].pc = "done" /\ exe[x].stop
            \/ /\ exe'[x].page[p].pc = "marking"
               /\ exe'[x].page[p].res \in {"skipped"} \cup exe'[x].errs
            \/ /\ exe'[x].page[p].pc = "writing" /\ exe'[x].page[p].res \in Drafts
               /\ ~job.over => script[p].text = "none"
<1>1. CASE exe[x].stop /\ AtPage(x, p, Page("done"))
  BY <1>1, PageTypes, AtPageTurns
<1>2. CASE AtPage(x, p, [Page("marking") EXCEPT !.res = "skipped"])
  <2> DEFINE pg == [Page("marking") EXCEPT !.res = "skipped"]
  <2>1. pg \in PageRecord /\ pg.pc = "marking" /\ pg.res = "skipped"
    BY PageTypes DEF Results
  <2>2. AtPage(x, p, pg)
    BY <1>2
  <2> HIDE DEF pg
  <2> QED
    BY <2>1, <2>2, AtPageTurns
<1>3. CASE /\ ~Kept(p)
           /\ \E d \in Drafts :
                AtPage(x, p, [pc |-> "writing", rev |-> script[p].rev,
                              blind |-> script[p].text = "none", res |-> d])
  <2>1. PICK d \in Drafts :
          AtPage(x, p, [pc |-> "writing", rev |-> script[p].rev,
                        blind |-> script[p].text = "none", res |-> d])
    BY <1>3
  <2> DEFINE pg == [pc |-> "writing", rev |-> script[p].rev,
                    blind |-> script[p].text = "none", res |-> d]
  <2>2. script[p].rev \in Nat
    BY DEF Typed, ScriptRecord
  <2>3. pg \in PageRecord /\ pg.pc = "writing" /\ pg.res \in Drafts
    BY <2>2 DEF PageRecord, Results
  <2>4. AtPage(x, p, pg)
    BY <2>1
  <2> HIDE DEF pg
  <2>5. Moves(x, p) /\ exe'[x].page[p] = pg
    BY <2>3, <2>4, AtPageTurns
  <2>6. ~job.over => script[p].text = "none"
    BY <1>3 DEF Kept
  <2> QED
    BY <2>3, <2>5, <2>6
<1>4. CASE \E err \in Errors : Failing(x, p, err)
  BY <1>4, PageFails
<1> QED
  BY <1>1, <1>2, <1>3, <1>4 DEF Compose

\* What Write leaves: the draft in the script and to be marked, or an error.
LEMMA WriteTurns ==
  ASSUME Typed, NEW x \in Exes, NEW p \in Pages, Write(x, p)
  PROVE  /\ Moves(x, p)
         /\ \/ /\ exe'[x].page[p].pc = "marking" /\ exe'[x].page[p].res = exe[x].page[p].res
               /\ writes' = [writes EXCEPT ![p] = @ + 1]
               /\ script' = [script EXCEPT ![p] = [rev |-> @.rev + 1, text |-> exe[x].page[p].res]]
            \/ /\ UNCHANGED <<script, writes>>
               /\ \/ exe'[x].page[p].pc = "done" /\ exe[x].stop
                  \/ exe'[x].page[p].pc = "marking" /\ exe'[x].page[p].res \in exe'[x].errs
<1>1. CASE Failing(x, p, "permanent") /\ UNCHANGED <<script, writes>>
  BY <1>1, PageFails DEF Errors
<1>2. CASE /\ script' = [script EXCEPT ![p] = [rev |-> @.rev + 1, text |-> exe[x].page[p].res]]
           /\ writes' = [writes EXCEPT ![p] = @ + 1]
           /\ AtPage(x, p, [Page("marking") EXCEPT !.res = exe[x].page[p].res])
  <2> DEFINE r == exe[x].page[p].res
             pg == [Page("marking") EXCEPT !.res = r]
  <2>0. exe[x].page[p] \in PageRecord
    BY DEF Typed, ExeRecord
  <2>1. pg \in PageRecord /\ pg.pc = "marking" /\ pg.res = r
    BY <2>0 DEF Page, PageRecord
  <2>2. AtPage(x, p, pg)
    BY <1>2
  <2> HIDE DEF pg
  <2>3. Moves(x, p) /\ exe'[x].page[p] = pg
    BY <2>1, <2>2, AtPageTurns
  <2> QED
    BY <1>2, <2>1, <2>3
<1> QED
  BY <1>1, <1>2 DEF Write

\* Mark records what became of the page, or the page may go adrift.
LEMMA MarkTurns ==
  ASSUME Typed, NEW x \in Exes, NEW p \in Pages, Mark(x, p)
  PROVE  Moves(x, p) /\ exe'[x].page[p].pc = "done" /\ exe'[x].errs = exe[x].errs
<1>1. AtPage(x, p, Page("done"))
  BY DEF Mark
<1> QED
  BY <1>1, PageTypes, AtPageTurns
-----------------------------------------------------------------------------
(* What the other steps change *)

\* An execution that has not begun, or is over, has no page to do.
LEMMA NoExeType ==
  /\ NoExe \in ExeRecord /\ NoExe.token = 0 /\ NoExe.stop = FALSE
  /\ \A p \in Pages : NoExe.page[p].pc = "done"
<1>1. [p \in Pages |-> Page("done")] \in [Pages -> PageRecord]
  BY PageTypes
<1> QED
  BY <1>1, PageTypes DEF NoExe, ExeRecord

\* An execution that is gone.
Emptied(x) ==
  /\ exe' \in [Exes -> ExeRecord]
  /\ \A y \in Exes \ {x} : exe'[y] = exe[y]
  /\ exe'[x] = NoExe

\* Crash and Finish leave nothing of an execution.
LEMMA Empties ==
  ASSUME Typed, NEW x \in Exes, exe' = [exe EXCEPT ![x] = NoExe]
  PROVE  Emptied(x)
BY NoExeType DEF Typed, Emptied

\* A claim gives the job to x: the pages an earlier attempt has produced are done, unless
\* the steps could not be read.
LEMMA ClaimFacts ==
  ASSUME Typed, NEW x \in Exes, Claim(x)
  PROVE  /\ exe' \in [Exes -> ExeRecord] /\ \A y \in Exes \ {x} : exe'[y] = exe[y]
         /\ exe'[x].token = job.token + 1 /\ exe'[x].attempt = job.attempt + 1
         /\ exe'[x].stop = FALSE
         /\ job' \in JobRecord /\ job'.state = "running" /\ job'.held = TRUE
         /\ job'.attempt = job.attempt + 1 /\ job'.token = job.token + 1 /\ job'.over = job.over
         /\ \E listed \in BOOLEAN :
              /\ IF listed THEN faults' = faults ELSE faults' = faults + 1
              /\ adrift' = adrift \cup (Skipped(TRUE) \ Skipped(listed))
              /\ \A p \in Pages :
                   exe'[x].page[p].pc = IF p \in Skipped(listed) THEN "done" ELSE "todo"
<1>1. PICK listed \in BOOLEAN :
        /\ IF listed THEN UNCHANGED faults ELSE Fault
        /\ adrift' = adrift \cup (Skipped(TRUE) \ Skipped(listed))
        /\ job' = [job EXCEPT !.state = "running", !.held = TRUE, !.attempt = @ + 1, !.token = @ + 1]
        /\ exe' = [exe EXCEPT ![x] =
             [NoExe EXCEPT !.token = job.token + 1, !.attempt = job.attempt + 1,
                !.page = [p \in Pages |-> Page(IF p \in Skipped(listed) THEN "done" ELSE "todo")]]]
  BY DEF Claim
<1>2. job \in JobRecord /\ job.token + 1 \in Nat /\ job.attempt + 1 \in Nat
  BY DEF Typed, JobRecord
<1>3. /\ job'.state = "running" /\ job'.held = TRUE
      /\ job'.attempt = job.attempt + 1 /\ job'.token = job.token + 1 /\ job'.over = job.over
  BY <1>1, <1>2 DEF JobRecord
<1>a. job' \in JobRecord
  BY <1>1, <1>2 DEF JobRecord, JobStates
<1> DEFINE pages == [p \in Pages |-> Page(IF p \in Skipped(listed) THEN "done" ELSE "todo")]
           e == [NoExe EXCEPT !.token = job.token + 1, !.attempt = job.attempt + 1, !.page = pages]
<1>4. /\ pages \in [Pages -> PageRecord]
      /\ \A p \in Pages : pages[p].pc = IF p \in Skipped(listed) THEN "done" ELSE "todo"
  BY PageTypes
<1>5. exe' = [exe EXCEPT ![x] = e]
  BY <1>1
<1> HIDE DEF pages
<1>6. /\ e \in ExeRecord /\ e.token = job.token + 1 /\ e.attempt = job.attempt + 1
      /\ e.stop = FALSE /\ e.page = pages
  <2>1. NoExe \in ExeRecord /\ NoExe.stop = FALSE
    BY NoExeType
  <2> QED
    BY <1>2, <1>4, <2>1 DEF ExeRecord
<1> HIDE DEF e
<1>7. exe' \in [Exes -> ExeRecord] /\ exe'[x] = e /\ \A y \in Exes \ {x} : exe'[y] = exe[y]
  BY <1>5, <1>6 DEF Typed
<1>8. IF listed THEN faults' = faults ELSE faults' = faults + 1
  BY <1>1 DEF Fault
<1> QED
  BY <1>1, <1>a, <1>3, <1>4, <1>6, <1>7, <1>8

\* The heartbeat tells x to stop.
LEMMA HeartbeatFacts ==
  ASSUME Typed, NEW x \in Exes, Heartbeat(x)
  PROVE  /\ exe' \in [Exes -> ExeRecord] /\ \A y \in Exes \ {x} : exe'[y] = exe[y]
         /\ exe'[x].token = exe[x].token /\ exe'[x].attempt = exe[x].attempt
         /\ exe'[x].stop = TRUE /\ exe'[x].page = exe[x].page /\ exe'[x].errs = exe[x].errs
<1>1. exe[x] \in ExeRecord
  BY DEF Typed
<1> DEFINE e == [exe[x] EXCEPT !.stop = TRUE]
<1>2. /\ e \in ExeRecord /\ e.token = exe[x].token /\ e.attempt = exe[x].attempt
      /\ e.stop = TRUE /\ e.page = exe[x].page /\ e.errs = exe[x].errs
  BY <1>1 DEF ExeRecord
<1>3. exe' = [exe EXCEPT ![x] = e]
  BY DEF Heartbeat
<1> HIDE DEF e
<1> QED
  BY <1>2, <1>3 DEF Typed

\* The steps that leave every execution as it is.
Aside ==
  \/ ClaimFails \/ ClaimCanceled \/ Cancel \/ LoseLease \/ RetryFailed
  \/ \E p \in Pages : Edit(p)

\* The job after such a step.
LEMMA AsideFacts ==
  ASSUME Typed, Aside
  PROVE  /\ job' \in JobRecord /\ job'.over = job.over /\ job'.token >= job.token
         /\ UNCHANGED <<exe, step, writes, adrift>>
         /\ faults' \in Nat /\ faults' >= faults
         /\ job'.state \in {"running", "stopping"} =>
              /\ job'.token = job.token /\ job'.attempt = job.attempt
              /\ job.state \in {"running", "stopping"}
         /\ job'.state \in {"succeeded", "failed"} /\ faults' = 0 =>
              job'.state = job.state /\ job'.attempt = job.attempt
<1>1. /\ job \in JobRecord /\ job.token \in Nat /\ job.attempt \in Nat /\ faults \in Nat
      /\ job.token + 1 \in Nat /\ job.attempt + 1 \in Nat /\ faults + 1 \in Nat
      /\ job.state \in JobStates /\ job.held \in BOOLEAN /\ job.over \in BOOLEAN
  BY DEF Typed, JobRecord
<1>2. CASE ClaimFails
  <2>1. job' \in JobRecord
    BY <1>1, <1>2 DEF ClaimFails, JobRecord, JobStates
  <2>2. /\ job'.state = "failed" /\ job'.over = job.over /\ job'.token = job.token + 1
        /\ faults' = faults + 1 /\ UNCHANGED <<exe, step, writes, adrift>>
    BY <1>1, <1>2 DEF ClaimFails, Fault, JobRecord
  <2> QED
    BY <1>1, <2>1, <2>2
<1>3. CASE ClaimCanceled
  <2>1. job' \in JobRecord
    BY <1>1, <1>3 DEF ClaimCanceled, JobRecord, JobStates
  <2>2. /\ job'.state = "canceled" /\ job'.over = job.over /\ job'.token = job.token + 1
        /\ faults' = faults /\ UNCHANGED <<exe, step, writes, adrift>>
    BY <1>1, <1>3 DEF ClaimCanceled, Bounds, JobRecord
  <2> QED
    BY <1>1, <2>1, <2>2
<1>4. CASE Cancel
  <2>1. job' \in JobRecord
    BY <1>1, <1>4 DEF Cancel, JobRecord, JobStates
  <2>2. /\ job'.state = IF job.state = "waiting" THEN "canceled" ELSE "stopping"
        /\ job'.over = job.over /\ job'.token = job.token /\ job'.attempt = job.attempt
        /\ job.state \in {"waiting", "running"}
        /\ faults' = faults /\ UNCHANGED <<exe, step, writes, adrift>>
    BY <1>1, <1>4 DEF Cancel, Bounds, JobRecord
  <2> QED
    BY <1>1, <2>1, <2>2
<1>5. CASE LoseLease
  <2>1. job' \in JobRecord
    BY <1>1, <1>5 DEF LoseLease, JobRecord
  <2>2. /\ job'.state = job.state /\ job'.state \in {"running", "stopping"}
        /\ job'.over = job.over /\ job'.token = job.token /\ job'.attempt = job.attempt
        /\ faults' = faults + 1 /\ UNCHANGED <<exe, step, writes, adrift>>
    BY <1>1, <1>5 DEF LoseLease, Fault, JobRecord
  <2> QED
    BY <1>1, <2>1, <2>2
<1>6. CASE RetryFailed
  BY <1>1, <1>6 DEF RetryFailed, JobRecord, JobStates
<1>7. CASE \E p \in Pages : Edit(p)
  BY <1>1, <1>7 DEF Edit
<1> QED
  BY <1>2, <1>3, <1>4, <1>5, <1>6, <1>7 DEF Aside

\* An execution that ends, or crashes, and what becomes of the job.
LEMMA EndFacts ==
  ASSUME Typed, NEW x \in Exes, Crash(x) \/ Finish(x)
  PROVE  /\ Emptied(x) /\ UNCHANGED <<script, step, writes>>
         /\ job' \in JobRecord /\ job'.over = job.over /\ job'.token = job.token
         /\ job'.attempt = job.attempt /\ faults' \in Nat /\ faults' >= faults
         /\ adrift \subseteq adrift'
         /\ job'.state # job.state =>
              Finish(x) /\ Holds(x) /\ job'.state \in {"waiting", "failed", "succeeded", "canceled"}
         /\ ~Holds(x) => job' = job
<1>1. /\ job \in JobRecord /\ job.token \in Nat /\ job.attempt \in Nat /\ faults \in Nat
      /\ job.token + 1 \in Nat /\ job.attempt + 1 \in Nat /\ faults + 1 \in Nat
      /\ job.state \in JobStates /\ job.held \in BOOLEAN /\ job.over \in BOOLEAN
  BY DEF Typed, JobRecord
<1>2. Emptied(x)
  BY Empties DEF Crash, Finish
<1>3. [job EXCEPT !.held = @ /\ ~Holds(x)] \in JobRecord
  BY <1>1 DEF JobRecord
<1>4. ~Holds(x) => [job EXCEPT !.held = @ /\ ~Holds(x)] = job
  BY <1>1 DEF JobRecord
<1>5. CASE Crash(x)
  BY <1>1, <1>2, <1>3, <1>4, <1>5 DEF Crash, Fault, JobRecord
<1>6. CASE Finish(x)
  <2>1. PICK v \in Verdicts(x) :
          job' = IF Holds(x) /\ (v = "waiting" => job.state = "running")
                   THEN [job EXCEPT !.state = v, !.held = FALSE]
                   ELSE [job EXCEPT !.held = @ /\ ~Holds(x)]
    BY <1>6 DEF Finish
  <2>2. v \in {"waiting", "failed", "succeeded", "canceled"}
    BY DEF Verdicts
  <2>3. UNCHANGED <<script, step, writes, adrift, faults>>
    BY <1>6 DEF Finish, Bounds
  <2>4. CASE Holds(x) /\ (v = "waiting" => job.state = "running")
    <3>1. job' \in JobRecord
      BY <1>1, <2>1, <2>2, <2>4 DEF JobRecord, JobStates
    <3>2. /\ job'.state = v /\ job'.over = job.over /\ job'.token = job.token
          /\ job'.attempt = job.attempt
      BY <1>1, <2>1, <2>4 DEF JobRecord
    <3> QED
      BY <1>1, <1>2, <1>6, <2>2, <2>3, <2>4, <3>1, <3>2
  <2>5. CASE ~(Holds(x) /\ (v = "waiting" => job.state = "running"))
    <3>1. job' = [job EXCEPT !.held = @ /\ ~Holds(x)]
      BY <2>1, <2>5
    <3>2. /\ job'.state = job.state /\ job'.over = job.over /\ job'.token = job.token
          /\ job'.attempt = job.attempt
      BY <1>1, <3>1 DEF JobRecord
    <3> QED
      BY <1>1, <1>2, <1>3, <1>4, <2>3, <3>1, <3>2
  <2> QED
    BY <2>4, <2>5
<1> QED
  BY <1>5, <1>6
-----------------------------------------------------------------------------
(* Types *)

\* The step that a result is recorded as.
LEMMA StepOfResult ==
  ASSUME NEW r \in Results
  PROVE  /\ StepOf(r) \in Steps \ {"none"}
         /\ StepOf(r) \in Products <=> r \in Drafts
         /\ r \in {"degraded", "skipped", "limited"} => StepOf(r) = r
         /\ r \in {"retryable", "permanent"} => StepOf(r) = "failed"
BY DEF StepOf, Results, Steps, Drafts, Errors, Products

\* A page to be marked has a result.
LEMMA MarkingHasResult ==
  ASSUME Typed, Told, NEW x \in Exes, NEW p \in Pages, InPage(x, p, "marking")
  PROVE  exe[x].page[p].res \in Results
<1>1. exe[x].errs \subseteq Errors
  BY DEF Typed, ExeRecord
<1>2. exe[x].page[p].res \in Drafts \cup {"skipped"} \cup exe[x].errs
  BY DEF Told
<1> QED
  BY <1>1, <1>2 DEF Results

\* A step of page q leaves the other pages and the job alone.
LEMMA PageFacts ==
  ASSUME Typed, Told, NEW x \in Exes, NEW q \in Pages, PageStep(x, q)
  PROVE  /\ Moves(x, q) /\ job' = job /\ exe[x].page[q].pc # "done"
         /\ script' \in [Pages -> ScriptRecord] /\ step' \in [Pages -> Steps]
         /\ writes' \in [Pages -> Nat] /\ faults' \in Nat /\ faults' >= faults
         /\ adrift \subseteq adrift'
         /\ \A p \in Pages \ {q} :
              script'[p] = script[p] /\ step'[p] = step[p] /\ writes'[p] = writes[p]
<1> USE DEF Typed
<1>1. CASE Compose(x, q)
  <2>1. Moves(x, q)
    BY <1>1, ComposeTurns
  <2> QED
    BY <1>1, <2>1 DEF Compose, InPage, Bounds
<1>2. CASE Write(x, q)
  <2>1. Moves(x, q)
    BY <1>2, WriteTurns
  <2>2. /\ UNCHANGED <<job, step, adrift, faults>> /\ exe[x].page[q].pc # "done"
        /\ exe[x].page[q].res \in Drafts
    BY <1>2 DEF Write, Bounds, InPage, Told
  <2>3. CASE UNCHANGED <<script, writes>>
    BY <2>1, <2>2, <2>3
  <2>4. CASE /\ writes' = [writes EXCEPT ![q] = @ + 1]
             /\ script' = [script EXCEPT ![q] = [rev |-> @.rev + 1, text |-> exe[x].page[q].res]]
    <3>1. writes[q] + 1 \in Nat /\ script[q].rev + 1 \in Nat
      BY DEF ScriptRecord
    <3>2. [rev |-> script[q].rev + 1, text |-> exe[x].page[q].res] \in ScriptRecord
      BY <2>2, <3>1 DEF ScriptRecord
    <3> QED
      BY <2>1, <2>2, <2>4, <3>1, <3>2
  <2> QED
    BY <1>2, <2>3, <2>4, WriteTurns
<1>3. CASE Mark(x, q)
  <2>1. Moves(x, q)
    BY <1>3, MarkTurns
  <2>2. /\ UNCHANGED <<job, script, writes>> /\ exe[x].page[q].pc # "done"
        /\ faults' \in {faults, faults + 1} /\ adrift \subseteq adrift'
        /\ InPage(x, q, "marking")
    BY <1>3 DEF Mark, Fault, InPage
  <2>3. faults' \in Nat /\ faults' >= faults
    BY <2>2
  <2>4. StepOf(exe[x].page[q].res) \in Steps
    BY <2>2, MarkingHasResult, StepOfResult
  <2>5. step' = step \/ step' = [step EXCEPT ![q] = StepOf(exe[x].page[q].res)]
    BY <1>3 DEF Mark
  <2> QED
    BY <2>1, <2>2, <2>3, <2>4, <2>5
<1> QED
  BY <1>1, <1>2, <1>3 DEF PageStep

\* The steps, by what they change.
LEMMA NextSteps ==
  ASSUME [Next]_vars
  PROVE  \/ \E x \in Exes : Claim(x) \/ Heartbeat(x) \/ Crash(x) \/ Finish(x)
         \/ \E x \in Exes, p \in Pages : PageStep(x, p)
         \/ Aside
         \/ UNCHANGED vars
BY DEF Next, Aside

\* Types are kept by every step.
LEMMA TypedStep ==
  ASSUME Typed, Told, [Next]_vars
  PROVE  Typed'
<1>0. faults \in Nat /\ faults + 1 \in Nat
  BY DEF Typed
<1>1. ASSUME NEW x \in Exes, Claim(x)
      PROVE  Typed'
  <2>1. exe' \in [Exes -> ExeRecord] /\ job' \in JobRecord /\ faults' \in {faults, faults + 1}
    BY <1>1, ClaimFacts
  <2> QED
    BY <1>0, <1>1, <2>1 DEF Claim, Typed
<1>2. ASSUME NEW x \in Exes, Heartbeat(x)
      PROVE  Typed'
  BY <1>2, HeartbeatFacts DEF Heartbeat, Bounds, Typed
<1>3. ASSUME NEW x \in Exes, Crash(x) \/ Finish(x)
      PROVE  Typed'
  BY <1>3, EndFacts DEF Emptied, Typed
<1>4. ASSUME NEW x \in Exes, NEW p \in Pages, PageStep(x, p)
      PROVE  Typed'
  <2>1. job' = job /\ exe' \in [Exes -> ExeRecord]
    BY <1>4, PageFacts DEF Moves
  <2> QED
    BY <1>4, <2>1, PageFacts DEF Typed
<1>5. CASE Aside
  <2>1. script' \in [Pages -> ScriptRecord]
    <3>1. ASSUME NEW p \in Pages, Edit(p)
          PROVE  script' \in [Pages -> ScriptRecord]
      <4>1. script \in [Pages -> ScriptRecord] /\ script[p].rev + 1 \in Nat
        BY DEF Typed, ScriptRecord
      <4>2. [rev |-> script[p].rev + 1, text |-> "good"] \in ScriptRecord
        BY <4>1 DEF ScriptRecord, Drafts
      <4> QED
        BY <3>1, <4>1, <4>2 DEF Edit
    <3> QED
      BY <1>5, <3>1
      DEF Aside, ClaimFails, ClaimCanceled, Cancel, LoseLease, RetryFailed, Typed
  <2> QED
    BY <1>5, <2>1, AsideFacts DEF Typed
<1>6. CASE UNCHANGED vars
  BY <1>6 DEF vars, Typed
<1> QED
  BY <1>1, <1>2, <1>3, <1>4, <1>5, <1>6, NextSteps
-----------------------------------------------------------------------------
(* Tokens *)

\* One execution at most holds the job.
LEMMA OneHolder ==
  ASSUME Tokens, NEW x \in Exes, NEW y \in Exes, Holds(x), Holds(y)
  PROVE  x = y
BY DEF Tokens, Holds

\* An execution that is not running has no page to do.
LEMMA NotRunning ==
  ASSUME Tokens, NEW x \in Exes, ~Running(x)
  PROVE  exe[x] = NoExe /\ \A p \in Pages : exe[x].page[p].pc = "done" /\ ~InHand(x, p)
BY NoExeType DEF Tokens, Running, InHand

\* The executions go on or end, and the job keeps its token as long as it is in progress.
GoesOn ==
  /\ job'.token >= job.token /\ job'.token \in Nat
  /\ job'.state \in {"running", "stopping"} =>
       /\ job'.token = job.token /\ job'.attempt = job.attempt
       /\ job.state \in {"running", "stopping"}
  /\ \A y \in Exes :
       \/ exe'[y] = NoExe
       \/ /\ exe'[y].token = exe[y].token /\ exe'[y].attempt = exe[y].attempt
          /\ exe[y].token = 0 => exe'[y] = exe[y]

\* Then no execution gets hold of the job, and the tokens stay apart.
LEMMA TokensGoOn ==
  ASSUME Typed, Tokens, GoesOn
  PROVE  Tokens' /\ \A y \in Exes : Holds(y)' => Holds(y) /\ exe'[y].token = exe[y].token
<1>1. NoExe.token = 0 /\ job.token \in Nat /\ \A y \in Exes : exe[y].token \in Nat
  BY NoExeType DEF Typed, JobRecord, ExeRecord
<1>2. \A y \in Exes : Holds(y)' => Holds(y) /\ exe'[y].token = exe[y].token
                                  /\ exe'[y].attempt = exe[y].attempt
  BY <1>1 DEF GoesOn, Holds, Running
<1>3. \A y \in Exes : exe'[y].token <= job'.token /\ (exe'[y].token = 0 => exe'[y] = NoExe)
  BY <1>1 DEF GoesOn, Tokens
<1>4. \A x, y \in Exes : exe'[x].token # 0 /\ exe'[x].token = exe'[y].token => x = y
  BY <1>1 DEF GoesOn, Tokens, Running
<1>5. \A x \in Exes : Holds(x)' => exe'[x].attempt = job'.attempt
  <2> SUFFICES ASSUME NEW x \in Exes, Holds(x)'
               PROVE  exe'[x].attempt = job'.attempt
    OBVIOUS
  <2>1. Holds(x) /\ exe'[x].attempt = exe[x].attempt
    BY <1>2
  <2>2. job'.attempt = job.attempt
    BY DEF Holds, GoesOn
  <2> QED
    BY <2>1, <2>2 DEF Tokens
<1> QED
  BY <1>2, <1>3, <1>4, <1>5 DEF Tokens, Running

\* Every step but a claim lets the executions go on.
LEMMA OthersGoOn ==
  ASSUME Typed, Told, Tokens, [Next]_vars, ~ \E x \in Exes : Claim(x)
  PROVE  GoesOn
<1>0. job.token \in Nat /\ job \in JobRecord
  BY DEF Typed, JobRecord
<1>1. ASSUME NEW x \in Exes, Heartbeat(x)
      PROVE  GoesOn
  <2>1. job' = job /\ exe[x].token # 0
    BY <1>1 DEF Heartbeat, Holds, Running
  <2>2. /\ \A y \in Exes \ {x} : exe'[y] = exe[y]
        /\ exe'[x].token = exe[x].token /\ exe'[x].attempt = exe[x].attempt
    BY <1>1, HeartbeatFacts
  <2> QED
    BY <1>0, <2>1, <2>2 DEF GoesOn
<1>2. ASSUME NEW x \in Exes, Crash(x) \/ Finish(x)
      PROVE  GoesOn
  <2>1. job'.state # job.state => job'.state \notin {"running", "stopping"}
    BY <1>2, EndFacts
  <2>2. job'.token = job.token /\ job'.attempt = job.attempt
    BY <1>2, EndFacts
  <2>3. Emptied(x)
    BY <1>2, EndFacts
  <2>4. \A y \in Exes : exe'[y] = NoExe \/ exe'[y] = exe[y]
    BY <2>3 DEF Emptied
  <2> QED
    BY <1>0, <2>1, <2>2, <2>4 DEF GoesOn
<1>3. ASSUME NEW x \in Exes, NEW p \in Pages, PageStep(x, p)
      PROVE  GoesOn
  <2>1. job' = job /\ Moves(x, p) /\ exe[x].page[p].pc # "done"
    BY <1>3, PageFacts
  <2>2. exe[x].token # 0
    BY <2>1, NotRunning DEF Running
  <2> QED
    BY <1>0, <2>1, <2>2 DEF GoesOn, Moves
<1>4. CASE Aside
  <2>1. job' \in JobRecord /\ exe' = exe
    BY <1>4, AsideFacts
  <2>2. job'.token \in Nat
    BY <2>1 DEF JobRecord
  <2> QED
    BY <1>4, <2>1, <2>2, AsideFacts DEF GoesOn
<1>5. CASE UNCHANGED vars
  BY <1>0, <1>5 DEF vars, GoesOn
<1> QED
  BY <1>1, <1>2, <1>3, <1>4, <1>5, NextSteps

\* After a claim the job is held by the execution that has made it, and by no other.
LEMMA ClaimTokens ==
  ASSUME Typed, Tokens, NEW x \in Exes, Claim(x)
  PROVE  Tokens' /\ Holds(x)' /\ \A y \in Exes \ {x} : ~Holds(y)'
<1>1. /\ job.token \in Nat /\ \A y \in Exes : exe[y].token \in Nat /\ exe[y].token <= job.token
  BY DEF Typed, JobRecord, ExeRecord, Tokens
<1>2. /\ \A y \in Exes \ {x} : exe'[y] = exe[y]
      /\ exe'[x].token = job.token + 1 /\ exe'[x].attempt = job.attempt + 1
      /\ job'.state = "running" /\ job'.attempt = job.attempt + 1 /\ job'.token = job.token + 1
  BY ClaimFacts
<1>3. Holds(x)' /\ \A y \in Exes \ {x} : ~Holds(y)'
  BY <1>1, <1>2 DEF Holds, Running
<1>4. \A y \in Exes : exe'[y].token <= job'.token /\ (exe'[y].token = 0 => exe'[y] = NoExe)
  BY <1>1, <1>2 DEF Tokens
<1>5. \A y, z \in Exes : exe'[y].token # 0 /\ exe'[y].token = exe'[z].token => y = z
  BY <1>1, <1>2 DEF Tokens, Running
<1>6. \A y \in Exes : Holds(y)' => exe'[y].attempt = job'.attempt
  BY <1>2, <1>3
<1> QED
  BY <1>3, <1>4, <1>5, <1>6 DEF Tokens, Running

\* So the tokens stay apart in every step.
LEMMA TokensStep ==
  ASSUME Typed, Told, Tokens, [Next]_vars
  PROVE  Tokens'
BY ClaimTokens, OthersGoOn, TokensGoOn
-----------------------------------------------------------------------------
(* The budget of a page *)

\* The numbers of a budget.
LEMMA Counts ==
  ASSUME Typed, NEW p \in Pages, Budget(p)
  PROVE  /\ IsFiniteSet(Writers(p)) /\ Cardinality(Writers(p)) \in Nat
         /\ writes[p] \in Nat /\ faults \in Nat /\ Spare(p) \in 0 .. 2
         /\ writes[p] + Cardinality(Writers(p)) + Spare(p) <= 1 + faults
BY FS_CardinalityType DEF Budget, Typed, Spare

\* A step that opens nothing spends nothing.
LEMMA Cheaper ==
  ASSUME Typed, Typed', NEW p \in Pages, Budget(p), Writers(p)' \subseteq Writers(p),
         writes'[p] = writes[p], faults' >= faults, Again(p)' => Again(p), Twice' => Twice
  PROVE  Budget(p)'
<1>1. IsFiniteSet(Writers(p)') /\ Cardinality(Writers(p)') <= Cardinality(Writers(p))
  BY Counts, FS_Subset
<1>2. Cardinality(Writers(p)') \in Nat
  BY <1>1, FS_CardinalityType
<1>3. Spare(p)' \in 0 .. 2 /\ Spare(p)' <= Spare(p)
  BY DEF Spare
<1>4. faults' \in Nat /\ writes'[p] \in Nat
  BY DEF Typed
<1>5. writes'[p] + Cardinality(Writers(p)') + Spare(p)' <= 1 + faults'
  BY <1>1, <1>2, <1>3, <1>4, Counts
<1> QED
  BY <1>1, <1>5 DEF Budget

\* A fault pays for one chance more.
LEMMA Faulty ==
  ASSUME Typed, Typed', NEW p \in Pages, Budget(p), Writers(p)' \subseteq Writers(p),
         writes'[p] = writes[p], faults' = faults + 1,
         (Again(p)' => Again(p)) \/ (Twice' => Twice)
  PROVE  Budget(p)'
<1>1. IsFiniteSet(Writers(p)') /\ Cardinality(Writers(p)') <= Cardinality(Writers(p))
  BY Counts, FS_Subset
<1>2. Cardinality(Writers(p)') \in Nat
  BY <1>1, FS_CardinalityType
<1>3. Spare(p)' \in 0 .. 2 /\ Spare(p)' <= Spare(p) + 1
  BY DEF Spare
<1>4. faults' \in Nat /\ writes'[p] \in Nat
  BY DEF Typed
<1>5. writes'[p] + Cardinality(Writers(p)') + Spare(p)' <= 1 + faults'
  BY <1>1, <1>2, <1>3, <1>4, Counts
<1> QED
  BY <1>1, <1>5 DEF Budget

\* An execution that is through with the page pays for a save, or for a claim that may follow.
LEMMA Spent ==
  ASSUME Typed, Typed', NEW p \in Pages, Budget(p), NEW x \in Writers(p),
         Writers(p)' \subseteq Writers(p) \ {x}, faults' >= faults, Twice' => Twice,
         writes'[p] = writes[p] \/ (writes'[p] = writes[p] + 1 /\ (Again(p)' => Again(p)))
  PROVE  Budget(p)'
<1>1. /\ IsFiniteSet(Writers(p) \ {x})
      /\ Cardinality(Writers(p) \ {x}) = Cardinality(Writers(p)) - 1
  BY Counts, FS_RemoveElement
<1>2. /\ IsFiniteSet(Writers(p)') /\ Cardinality(Writers(p)') \in Nat
      /\ Cardinality(Writers(p)') <= Cardinality(Writers(p) \ {x})
  BY <1>1, FS_Subset, FS_CardinalityType
<1>3. /\ Spare(p)' \in 0 .. 2 /\ Spare(p)' <= Spare(p) + 1
      /\ (Again(p)' => Again(p)) => Spare(p)' <= Spare(p)
  BY DEF Spare
<1>4. faults' \in Nat /\ writes'[p] \in Nat
  BY DEF Typed
<1>5. writes'[p] + Cardinality(Writers(p)') + Spare(p)' <= 1 + faults'
  BY <1>1, <1>2, <1>3, <1>4, Counts
<1> QED
  BY <1>2, <1>5 DEF Budget

\* A claim uses up the chance there was, if x is to do the page again.
LEMMA ClaimBudget ==
  ASSUME Typed, Typed', Tokens, NEW p \in Pages, Budget(p), NEW x \in Exes, Claim(x)
  PROVE  Budget(p)'
<1>1. Holds(x)' /\ \A y \in Exes \ {x} : ~Holds(y)'
  BY ClaimTokens
<1>2. /\ exe' \in [Exes -> ExeRecord] /\ \A y \in Exes \ {x} : exe'[y] = exe[y]
      /\ job'.state = "running" /\ job'.held = TRUE
  BY ClaimFacts
<1>3. UNCHANGED <<step, writes>>
  BY DEF Claim
<1>4. PICK listed \in BOOLEAN :
        /\ IF listed THEN faults' = faults ELSE faults' = faults + 1
        /\ exe'[x].page[p].pc = IF p \in Skipped(listed) THEN "done" ELSE "todo"
  BY ClaimFacts
<1>5. ~Twice'
  BY <1>2 DEF Twice
<1>6. ~Again(p)'
  <2>1. Led'
    BY <1>1 DEF Led
  <2>2. ~LeavesOpen(x, p)'
    <3>1. CASE p \in Skipped(listed)
      <4>1. step'[p] \in Products /\ exe'[x].page[p].pc = "done"
        BY <1>3, <1>4, <3>1 DEF Skipped
      <4> QED
        BY <4>1 DEF LeavesOpen, InPage
    <3>2. CASE p \notin Skipped(listed)
      <4>1. InHand(x, p)'
        BY <1>4, <3>2 DEF InHand
      <4> QED
        BY <4>1 DEF LeavesOpen
    <3> QED
      BY <3>1, <3>2
  <2> QED
    BY <1>1, <2>1, <2>2 DEF Again
<1>7. CASE p \in Skipped(listed)
  <2>1. Writers(p)' \subseteq Writers(p)
    BY <1>2, <1>4, <1>7 DEF Writers, InHand
  <2>2. faults' >= faults /\ writes'[p] = writes[p]
    BY <1>3, <1>4, Counts
  <2> QED
    BY <1>5, <1>6, <2>1, <2>2, Cheaper
<1>8. CASE p \notin Skipped(listed)
  <2>1. Writers(p)' \subseteq Writers(p) \cup {x}
    BY <1>2 DEF Writers, InHand
  <2>2. /\ IsFiniteSet(Writers(p) \cup {x})
        /\ Cardinality(Writers(p) \cup {x}) <= Cardinality(Writers(p)) + 1
    <3>1. /\ IsFiniteSet(Writers(p) \cup {x})
          /\ Cardinality(Writers(p) \cup {x})
               = IF x \in Writers(p) THEN Cardinality(Writers(p)) ELSE Cardinality(Writers(p)) + 1
      BY Counts, FS_AddElement
    <3> QED
      BY <3>1, Counts
  <2>3. /\ IsFiniteSet(Writers(p)') /\ Cardinality(Writers(p)') \in Nat
        /\ Cardinality(Writers(p)') <= Cardinality(Writers(p)) + 1
    <3>1. IsFiniteSet(Writers(p)') /\ Cardinality(Writers(p)') <= Cardinality(Writers(p) \cup {x})
      BY <2>1, <2>2, FS_Subset
    <3>2. Cardinality(Writers(p)') \in Nat /\ Cardinality(Writers(p) \cup {x}) \in Nat
      BY <2>2, <3>1, FS_CardinalityType
    <3> QED
      BY <2>2, <3>1, <3>2, Counts
  <2>4. Spare(p)' = 0
    BY <1>5, <1>6 DEF Spare
  <2>5. listed => Spare(p) >= 1
    <3> SUFFICES ASSUME listed
                 PROVE  Again(p) \/ Twice
      BY DEF Spare
    <3>1. step[p] \notin Products
      BY <1>8 DEF Skipped
    <3>2. job.state = "waiting" \/ (job.state = "running" /\ ~job.held)
      BY DEF Claim, Claimable
    <3>3. CASE Led
      BY <3>2, <3>3 DEF Led, Holds, Twice
    <3>4. CASE ~Led
      BY <3>1, <3>2, <3>4 DEF Again
    <3> QED
      BY <3>3, <3>4
  <2>6. writes'[p] + Cardinality(Writers(p)') + Spare(p)' <= 1 + faults'
    BY <1>3, <1>4, <2>3, <2>4, <2>5, Counts
  <2> QED
    BY <2>3, <2>6 DEF Budget
<1> QED
  BY <1>7, <1>8
-----------------------------------------------------------------------------
\* What a page owes does not depend on a step of another page.
LEMMA OtherPage ==
  ASSUME Typed, Typed', Told, NEW p \in Pages, Budget(p),
         NEW x \in Exes, NEW q \in Pages \ {p}, PageStep(x, q)
  PROVE  Budget(p)'
<1>1. /\ Moves(x, q) /\ job' = job /\ faults' >= faults
      /\ step'[p] = step[p] /\ writes'[p] = writes[p]
  BY PageFacts
<1>2. \A y \in Exes : /\ exe'[y].page[p] = exe[y].page[p]
                      /\ exe'[y].token = exe[y].token /\ exe'[y].stop = exe[y].stop
  BY <1>1 DEF Moves
<1>3. Writers(p)' \subseteq Writers(p)
  BY <1>2 DEF Writers, InHand
<1>4. \A y \in Exes : Holds(y)' <=> Holds(y)
  BY <1>1, <1>2 DEF Holds, Running
<1>5. \A y \in Exes : LeavesOpen(y, p)' <=> LeavesOpen(y, p)
  BY <1>1, <1>2 DEF LeavesOpen, InHand, InPage
<1>6. (Led' <=> Led) /\ (Again(p)' => Again(p)) /\ (Twice' => Twice)
  BY <1>1, <1>4, <1>5 DEF Led, Again, Twice
<1> QED
  BY <1>1, <1>3, <1>6, Cheaper

\* Neither a step of a page gives or takes the job.
LEMMA SameHolder ==
  ASSUME Typed, Told, NEW x \in Exes, NEW p \in Pages, PageStep(x, p)
  PROVE  /\ \A y \in Exes : Holds(y)' <=> Holds(y)
         /\ Led' <=> Led
         /\ Twice' => Twice
<1>1. Moves(x, p) /\ job' = job
  BY PageFacts
<1>2. \A y \in Exes : Holds(y)' <=> Holds(y)
  BY <1>1 DEF Moves, Holds, Running
<1> QED
  BY <1>1, <1>2 DEF Led, Twice

\* The chance of another claim, when the step of page p by x gives none.
LEMMA SameChance ==
  ASSUME Typed, Told, NEW x \in Exes, NEW p \in Pages, PageStep(x, p),
         step'[p] = step[p], Holds(x) /\ LeavesOpen(x, p)' => LeavesOpen(x, p)
  PROVE  Again(p)' => Again(p)
<1>1. Moves(x, p) /\ job' = job
  BY PageFacts
<1>2. \A y \in Exes \ {x} : LeavesOpen(y, p)' <=> LeavesOpen(y, p)
  BY <1>1 DEF Moves, LeavesOpen, InHand, InPage
<1> QED
  BY <1>1, <1>2, SameHolder DEF Again

\* One lemma for each step of the page: Compose keeps the page in hand, or lets it go.
LEMMA ComposeBudget ==
  ASSUME Typed, Typed', Told, NEW p \in Pages, Budget(p), NEW x \in Exes, Compose(x, p)
  PROVE  Budget(p)'
<1>1. PageStep(x, p) /\ UNCHANGED <<step, writes, faults>> /\ x \in Writers(p)
  BY DEF PageStep, Compose, Bounds, Writers, InHand, InPage
<1>2. Moves(x, p) /\ exe'[x].page[p].pc \in {"done", "marking", "writing"}
  BY ComposeTurns
<1>3. Twice' => Twice
  BY <1>1, SameHolder
<1>4. faults' >= faults
  BY <1>1, Counts
<1>5. CASE exe'[x].page[p].pc = "writing"
  <2>1. Writers(p)' \subseteq Writers(p)
    BY <1>1, <1>2 DEF Moves, Writers, InHand
  <2>2. ~LeavesOpen(x, p)'
    BY <1>5 DEF LeavesOpen, InHand
  <2> QED
    BY <1>1, <1>3, <1>4, <2>1, <2>2, SameChance, Cheaper
<1>6. CASE exe'[x].page[p].pc # "writing"
  <2>1. Writers(p)' \subseteq Writers(p) \ {x}
    BY <1>2, <1>6 DEF Moves, Writers, InHand
  <2> QED
    BY <1>1, <1>3, <1>4, <2>1, Spent
<1> QED
  BY <1>5, <1>6

\* Write spends the execution's chance, on a save or not at all.
LEMMA WriteBudget ==
  ASSUME Typed, Typed', Told, NEW p \in Pages, Budget(p), NEW x \in Exes, Write(x, p)
  PROVE  Budget(p)'
<1>1. /\ PageStep(x, p) /\ UNCHANGED <<step, faults>> /\ x \in Writers(p)
      /\ exe[x].page[p].res \in Drafts
  BY DEF PageStep, Write, Bounds, Writers, InHand, InPage, Told
<1>2. Moves(x, p) /\ exe'[x].page[p].pc \in {"done", "marking"}
  BY WriteTurns
<1>3. Twice' => Twice
  BY <1>1, SameHolder
<1>4. faults' >= faults
  BY <1>1, Counts
<1>5. Writers(p)' \subseteq Writers(p) \ {x}
  BY <1>2 DEF Moves, Writers, InHand
<1>6. CASE UNCHANGED writes
  BY <1>1, <1>3, <1>4, <1>5, <1>6, Spent
<1>7. CASE /\ exe'[x].page[p].pc = "marking" /\ exe'[x].page[p].res = exe[x].page[p].res
           /\ writes' = [writes EXCEPT ![p] = @ + 1]
  <2>1. ~LeavesOpen(x, p)'
    BY <1>1, <1>7 DEF LeavesOpen, InPage
  <2>2. Again(p)' => Again(p)
    BY <1>1, <2>1, SameChance
  <2>3. writes'[p] = writes[p] + 1
    BY <1>7 DEF Typed
  <2> QED
    BY <1>1, <1>3, <1>4, <1>5, <2>2, <2>3, Spent
<1> QED
  BY <1>6, <1>7, WriteTurns

\* Mark leaves the page open only if it was so before, or by a fault.
LEMMA MarkBudget ==
  ASSUME Typed, Typed', Told, Tokens, NEW p \in Pages, Budget(p), NEW x \in Exes, Mark(x, p)
  PROVE  Budget(p)'
<1>1. PageStep(x, p) /\ UNCHANGED <<writes>> /\ InPage(x, p, "marking")
  BY DEF PageStep, Mark
<1>2. Moves(x, p) /\ exe'[x].page[p].pc = "done" /\ job' = job
  BY <1>1, MarkTurns, PageFacts
<1>3. Twice' => Twice
  BY <1>1, SameHolder
<1>4. Writers(p)' \subseteq Writers(p)
  BY <1>2 DEF Moves, Writers, InHand
<1>5. CASE Holds(x) /\ ~exe[x].stop /\ step' = [step EXCEPT ![p] = StepOf(exe[x].page[p].res)]
           /\ UNCHANGED faults
  <2>1. step'[p] \in Products <=> exe[x].page[p].res \in Drafts
    BY <1>1, <1>5, MarkingHasResult, StepOfResult DEF Typed
  <2>2. \A y \in Exes : Holds(y)' => y = x
    BY <1>1, <1>5, SameHolder, OneHolder
  <2>3. LeavesOpen(x, p)' => LeavesOpen(x, p)
    <3>1. LeavesOpen(x, p)' => step'[p] \notin Products
      BY <1>2 DEF LeavesOpen, InPage
    <3>2. exe[x].page[p].res \notin Drafts => LeavesOpen(x, p)
      BY <1>1, <1>5 DEF LeavesOpen, InPage, InHand
    <3> QED
      BY <2>1, <3>1, <3>2
  <2>4. Led /\ Led'
    BY <1>1, <1>5, SameHolder DEF Led
  <2>5. Again(p)' => Again(p)
    BY <1>5, <2>2, <2>3, <2>4 DEF Again
  <2>6. faults' >= faults /\ writes'[p] = writes[p]
    BY <1>1, <1>5, Counts
  <2> QED
    BY <1>3, <1>4, <2>5, <2>6, Cheaper
<1>6. CASE Holds(x) /\ ~exe[x].stop /\ Fault
  BY <1>1, <1>3, <1>4, <1>6, Faulty DEF Fault
<1>7. CASE ~(Holds(x) /\ ~exe[x].stop) /\ UNCHANGED <<step, faults>>
  <2>1. Holds(x) => ~LeavesOpen(x, p)'
    BY <1>2, <1>7 DEF Moves, LeavesOpen
  <2>2. faults' >= faults
    BY <1>7, Counts
  <2> QED
    BY <1>1, <1>3, <1>4, <1>7, <2>1, <2>2, SameChance, Cheaper
<1> QED
  BY <1>5, <1>6, <1>7 DEF Mark
-----------------------------------------------------------------------------
\* One lemma for each other step of an execution.
LEMMA HeartbeatBudget ==
  ASSUME Typed, Typed', NEW p \in Pages, Budget(p), NEW x \in Exes, Heartbeat(x)
  PROVE  Budget(p)'
<1>1. UNCHANGED <<job, step, writes, faults>>
  BY DEF Heartbeat, Bounds
<1>2. /\ \A y \in Exes \ {x} : exe'[y] = exe[y]
      /\ exe'[x].token = exe[x].token /\ exe'[x].stop = TRUE /\ exe'[x].page = exe[x].page
  BY HeartbeatFacts
<1>3. Writers(p)' \subseteq Writers(p)
  BY <1>2 DEF Writers, InHand
<1>4. \A y \in Exes : Holds(y)' <=> Holds(y)
  BY <1>1, <1>2 DEF Holds, Running
<1>5. \A y \in Exes : LeavesOpen(y, p)' => LeavesOpen(y, p)
  BY <1>1, <1>2 DEF LeavesOpen, InHand, InPage
<1>6. (Again(p)' => Again(p)) /\ (Twice' => Twice)
  BY <1>1, <1>4, <1>5 DEF Led, Again, Twice
<1>7. faults' >= faults /\ writes'[p] = writes[p]
  BY <1>1, Counts
<1> QED
  BY <1>3, <1>6, <1>7, Cheaper

\* What the end of x leaves of the others.
LEMMA EndedOthers ==
  ASSUME Typed, Tokens, NEW p \in Pages, NEW x \in Exes, Crash(x) \/ Finish(x)
  PROVE  /\ Writers(p)' \subseteq Writers(p)
         /\ Holds(x) => ~Led'
         /\ ~Holds(x) => (Again(p)' => Again(p)) /\ (Twice' => Twice)
<1>1. Emptied(x) /\ step' = step /\ (~Holds(x) => job' = job)
  BY EndFacts
<1>2. /\ \A y \in Exes \ {x} : exe'[y] = exe[y]
      /\ exe'[x].token = 0 /\ ~InHand(x, p)'
  BY <1>1, NoExeType DEF Emptied, InHand
<1>3. Writers(p)' \subseteq Writers(p)
  BY <1>2 DEF Writers, InHand
<1>4. job'.token = job.token /\ (job'.state # job.state => job'.state \notin {"running", "stopping"})
  BY EndFacts
<1>5. \A y \in Exes : Holds(y)' => y # x /\ Holds(y)
  BY <1>2, <1>4 DEF Holds, Running
<1>6. Holds(x) => ~Led'
  BY <1>5, OneHolder DEF Led
<1>7. ASSUME ~Holds(x)
      PROVE  (Again(p)' => Again(p)) /\ (Twice' => Twice)
  <2>1. job' = job
    BY <1>1, <1>7
  <2>2. \A y \in Exes : Holds(y)' <=> Holds(y)
    BY <1>2, <1>5, <1>7, <2>1 DEF Holds, Running
  <2>3. \A y \in Exes \ {x} : LeavesOpen(y, p)' <=> LeavesOpen(y, p)
    BY <1>1, <1>2 DEF LeavesOpen, InHand, InPage
  <2> QED
    BY <1>1, <1>7, <2>1, <2>2, <2>3 DEF Led, Again, Twice
<1> QED
  BY <1>3, <1>6, <1>7

\* A crash is a fault, which pays for the claim that may follow.
LEMMA CrashBudget ==
  ASSUME Typed, Typed', Tokens, NEW p \in Pages, Budget(p), NEW x \in Exes, Crash(x)
  PROVE  Budget(p)'
<1>1. faults' = faults + 1 /\ writes' = writes
  BY DEF Crash, Fault
<1>2. Twice' => Twice
  BY EndedOthers DEF Twice
<1> QED
  BY <1>1, <1>2, EndedOthers, Faulty

\* An attempt that ends leaves the job to another one only if it has left the page open.
LEMMA FinishBudget ==
  ASSUME Typed, Typed', Tokens, NEW p \in Pages, Budget(p), NEW x \in Exes, Finish(x)
  PROVE  Budget(p)'
<1>1. UNCHANGED <<step, writes, faults>> /\ InPage(x, p, "done")
  BY DEF Finish, Bounds
<1>2. faults' >= faults /\ writes'[p] = writes[p]
  BY <1>1, Counts
<1>3. Twice' => Twice
  BY EndedOthers DEF Twice
<1>4. Again(p)' => Again(p)
  <2>1. CASE ~Holds(x)
    BY <2>1, EndedOthers
  <2>2. CASE Holds(x)
    <3>1. ~Led' /\ Led
      BY <2>2, EndedOthers DEF Led
    <3> SUFFICES ASSUME job'.state \in {"waiting", "failed", "running"}, step'[p] \notin Products
                 PROVE  LeavesOpen(x, p)
      BY <2>2, <3>1 DEF Again
    <3>2. step[p] \notin Products
      BY <1>1
    <3>3. ~exe[x].stop
      <4>1. PICK v \in Verdicts(x) :
              job' = IF Holds(x) /\ (v = "waiting" => job.state = "running")
                       THEN [job EXCEPT !.state = v, !.held = FALSE]
                       ELSE [job EXCEPT !.held = @ /\ ~Holds(x)]
        BY DEF Finish
      <4>2. ASSUME exe[x].stop
            PROVE  FALSE
        <5>1. v = "canceled"
          BY <4>2 DEF Verdicts
        <5>2. job'.state = "canceled"
          BY <2>2, <4>1, <5>1 DEF Typed, JobRecord
        <5> QED
          BY <5>2
      <4> QED
        BY <4>2
    <3> QED
      BY <1>1, <3>2, <3>3 DEF LeavesOpen, InHand, InPage
  <2> QED
    BY <2>1, <2>2
<1> QED
  BY <1>2, <1>3, <1>4, EndedOthers, Cheaper

\* Without the executions only a fault makes the page open again.
LEMMA AsideBudget ==
  ASSUME Typed, Typed', NEW p \in Pages, Budget(p), Aside
  PROVE  Budget(p)'
<1>0. /\ job \in JobRecord /\ UNCHANGED <<exe, step, writes>> /\ faults' >= faults
      /\ writes'[p] = writes[p]
  BY AsideFacts DEF Typed
<1>1. Writers(p)' \subseteq Writers(p)
  BY <1>0 DEF Writers, InHand
<1>2. \A y \in Exes : LeavesOpen(y, p)' <=> LeavesOpen(y, p)
  BY <1>0 DEF LeavesOpen, InHand, InPage
<1>3. CASE ClaimFails
  <2>1. job'.state = "failed" /\ faults' = faults + 1
    BY <1>0, <1>3 DEF ClaimFails, Fault, JobRecord
  <2>2. ~Twice'
    BY <2>1 DEF Twice
  <2> QED
    BY <1>0, <1>1, <2>1, <2>2, Faulty
<1>4. CASE LoseLease
  <2>1. /\ job'.state = job.state /\ job'.token = job.token /\ faults' = faults + 1
    BY <1>0, <1>4 DEF LoseLease, Fault, JobRecord
  <2>2. \A y \in Exes : Holds(y)' <=> Holds(y)
    BY <1>0, <2>1 DEF Holds, Running
  <2>3. Again(p)' => Again(p)
    BY <1>0, <1>2, <2>1, <2>2 DEF Led, Again
  <2> QED
    BY <1>0, <1>1, <2>1, <2>3, Faulty
<1>5. CASE ClaimCanceled
  <2>1. job'.state = "canceled"
    BY <1>0, <1>5 DEF ClaimCanceled, JobRecord
  <2>2. ~Twice' /\ ~Again(p)'
    BY <2>1 DEF Twice, Again, Led, Holds
  <2> QED
    BY <1>0, <1>1, <2>2, Cheaper
<1>6. CASE Cancel
  <2>1. /\ job'.state = IF job.state = "waiting" THEN "canceled" ELSE "stopping"
        /\ job'.token = job.token /\ job.state \in {"waiting", "running"}
    BY <1>0, <1>6 DEF Cancel, JobRecord
  <2>2. \A y \in Exes : Holds(y)' <=> Holds(y)
    BY <1>0, <2>1 DEF Holds, Running
  <2>3. ~Twice' /\ (Again(p)' => Again(p))
    BY <1>0, <1>2, <2>1, <2>2 DEF Twice, Again, Led
  <2> QED
    BY <1>0, <1>1, <2>3, Cheaper
<1>7. CASE RetryFailed
  <2>1. job'.state = "waiting" /\ job.state = "failed"
    BY <1>0, <1>7 DEF RetryFailed, JobRecord
  <2>2. ~Twice' /\ (Again(p)' => Again(p))
    BY <1>0, <2>1 DEF Twice, Again, Led, Holds
  <2> QED
    BY <1>0, <1>1, <2>2, Cheaper
<1>8. CASE \E q \in Pages : Edit(q)
  <2>1. job' = job
    BY <1>8 DEF Edit
  <2>2. \A y \in Exes : Holds(y)' <=> Holds(y)
    BY <1>0, <2>1 DEF Holds, Running
  <2>3. (Twice' => Twice) /\ (Again(p)' => Again(p))
    BY <1>0, <1>2, <2>1, <2>2 DEF Twice, Again, Led
  <2> QED
    BY <1>0, <1>1, <2>3, Cheaper
<1> QED
  BY <1>3, <1>4, <1>5, <1>6, <1>7, <1>8 DEF Aside

\* No step saves or opens a page beyond its budget.
LEMMA BudgetStep ==
  ASSUME Typed, Typed', Tokens, Told, PaidOnce, [Next]_vars
  PROVE  PaidOnce'
<1> SUFFICES ASSUME NEW p \in Pages, Budget(p)
             PROVE  Budget(p)'
  BY DEF PaidOnce
<1>1. ASSUME NEW x \in Exes, Claim(x) \/ Heartbeat(x) \/ Crash(x) \/ Finish(x)
      PROVE  Budget(p)'
  BY <1>1, ClaimBudget, HeartbeatBudget, CrashBudget, FinishBudget
<1>2. ASSUME NEW x \in Exes, NEW q \in Pages, PageStep(x, q)
      PROVE  Budget(p)'
  <2>1. CASE q = p
    BY <1>2, <2>1, ComposeBudget, WriteBudget, MarkBudget DEF PageStep
  <2>2. CASE q # p
    BY <1>2, <2>2, OtherPage
  <2> QED
    BY <2>1, <2>2
<1>3. CASE UNCHANGED vars
  BY <1>3
  DEF vars, Budget, Writers, InHand, Spare, Again, Twice, Led, Holds, Running, LeavesOpen, InPage
<1> QED
  BY <1>1, <1>2, <1>3, AsideBudget, NextSteps
-----------------------------------------------------------------------------
(* What is said of a page *)

\* Beside the executions only the user's save changes a script.
LEMMA AsideScript ==
  ASSUME Typed, Aside, NEW p \in Pages
  PROVE  script'[p] = script[p] \/ script'[p].text = "good"
<1>1. ASSUME NEW q \in Pages, Edit(q)
      PROVE  script'[p] = script[p] \/ script'[p].text = "good"
  BY <1>1 DEF Edit, Typed
<1> QED
  BY <1>1 DEF Aside, ClaimFails, ClaimCanceled, Cancel, LoseLease, RetryFailed

\* Mark changes a step only for the execution that holds the job.
LEMMA OnlyHolderMarks ==
  ASSUME NEW x \in Exes, NEW q \in Pages, PageStep(x, q), step' # step
  PROVE  Mark(x, q) /\ Holds(x)
BY DEF PageStep, Compose, Write, Mark

\* An execution about to mark page p with r.
Marks(x, p, r) == InPage(x, p, "marking") /\ exe[x].page[p].res = r

\* A degraded text is reported until another text takes its place.
LEMMA ReportedStep ==
  ASSUME Typed, Told, Tokens, NotRedone, Reported, [Next]_vars
  PROVE  Reported'
<1> SUFFICES ASSUME NEW p \in Pages, script'[p].text = "degraded"
             PROVE  \/ step'[p] = "degraded" \/ p \in adrift'
                    \/ \E x \in Exes : Marks(x, p, "degraded")'
  BY DEF Reported, Marks
<1> DEFINE Goal == \/ step'[p] = "degraded" \/ p \in adrift'
                   \/ \E x \in Exes : Marks(x, p, "degraded")'
<1>0. script'[p] = script[p] => \/ step[p] = "degraded" \/ p \in adrift
                                \/ \E x \in Exes : Marks(x, p, "degraded")
  BY DEF Reported, Marks
<1>1. ASSUME NEW x \in Exes, Claim(x)
      PROVE  Goal
  <2>1. UNCHANGED <<script, step>> /\ adrift \subseteq adrift' /\ ~Running(x)
    BY <1>1 DEF Claim
  <2>2. \A y \in Exes : Marks(y, p, "degraded") => Marks(y, p, "degraded")'
    <3>1. ~Marks(x, p, "degraded")
      BY <2>1, NotRunning DEF Marks, InPage
    <3>2. \A y \in Exes \ {x} : exe'[y] = exe[y]
      BY <1>1, ClaimFacts
    <3> QED
      BY <3>1, <3>2 DEF Marks, InPage
  <2> QED
    BY <1>0, <2>1, <2>2
<1>2. ASSUME NEW x \in Exes, Heartbeat(x)
      PROVE  Goal
  <2>1. \A y \in Exes : exe'[y].page = exe[y].page
    BY <1>2, HeartbeatFacts
  <2> QED
    BY <1>0, <1>2, <2>1 DEF Heartbeat, Marks, InPage
<1>3. ASSUME NEW x \in Exes, Crash(x) \/ Finish(x)
      PROVE  Goal
  <2>1. Emptied(x) /\ UNCHANGED <<script, step>> /\ adrift \subseteq adrift'
    BY <1>3, EndFacts
  <2>2. Marks(x, p, "degraded") => p \in adrift'
    BY <1>3 DEF Crash, Finish, Unmarked, Marks, InPage, Drafts
  <2>3. \A y \in Exes \ {x} : Marks(y, p, "degraded") => Marks(y, p, "degraded")'
    BY <2>1 DEF Emptied, Marks, InPage
  <2> QED
    BY <1>0, <2>1, <2>2, <2>3
<1>4. ASSUME NEW x \in Exes, NEW q \in Pages, PageStep(x, q)
      PROVE  Goal
  <2>1. Moves(x, q) /\ adrift \subseteq adrift'
    BY <1>4, PageFacts
  <2>2. \A y \in Exes \ {x} : Marks(y, p, "degraded") => Marks(y, p, "degraded")'
    BY <2>1 DEF Moves, Marks, InPage
  <2>3. CASE p # q
    <3>1. Marks(x, p, "degraded") => Marks(x, p, "degraded")'
      BY <2>1, <2>3 DEF Moves, Marks, InPage
    <3>2. script'[p] = script[p] /\ step'[p] = step[p]
      BY <1>4, <2>3, PageFacts
    <3> QED
      BY <1>0, <2>1, <2>2, <3>1, <3>2
  <2>4. CASE p = q /\ ~Mark(x, q)
    <3>1. ~Marks(x, p, "degraded") /\ step' = step
      BY <1>4, <2>4 DEF PageStep, Compose, Write, Marks, InPage
    <3>2. CASE script'[p] = script[p]
      BY <1>0, <2>1, <2>2, <3>1, <3>2
    <3>3. CASE script'[p] # script[p]
      <4>1. Write(x, p)
        BY <1>4, <2>4, <3>3 DEF PageStep, Compose
      <4>2. /\ exe'[x].page[p].pc = "marking" /\ exe'[x].page[p].res = exe[x].page[p].res
            /\ script' = [script EXCEPT ![p] = [rev |-> @.rev + 1, text |-> exe[x].page[p].res]]
        BY <3>3, <4>1, WriteTurns
      <4>3. Marks(x, p, "degraded")'
        BY <4>2 DEF Typed, Marks, InPage
      <4> QED
        BY <4>3
    <3> QED
      BY <3>2, <3>3
  <2>5. CASE p = q /\ Mark(x, p)
    <3>1. script' = script /\ InPage(x, p, "marking") /\ step \in [Pages -> Steps]
      BY <2>5 DEF Mark, Typed
    <3>2. CASE Holds(x) /\ step' = [step EXCEPT ![p] = StepOf(exe[x].page[p].res)]
      <4>1. step'[p] = StepOf(exe[x].page[p].res)
        BY <3>1, <3>2
      <4>2. Marks(x, p, "degraded") => step'[p] = "degraded"
        BY <4>1, StepOfResult DEF Marks, Results, Drafts
      <4>3. step[p] = "degraded" => p \in adrift
        BY <3>1, <3>2 DEF NotRedone, Products, InPage
      <4> QED
        BY <1>0, <2>1, <2>2, <3>1, <4>2, <4>3
    <3>3. CASE /\ adrift' = IF p \in Unmarked(x) THEN adrift \cup {p} ELSE adrift
               /\ step' = step
      <4>1. Marks(x, p, "degraded") => p \in adrift'
        BY <3>3 DEF Marks, Unmarked, Drafts
      <4> QED
        BY <1>0, <2>1, <2>2, <3>1, <3>3, <4>1
    <3> QED
      BY <2>5, <3>2, <3>3 DEF Mark
  <2> QED
    BY <2>3, <2>4, <2>5
<1>5. CASE Aside
  <2>1. UNCHANGED <<exe, step, adrift>> /\ script'[p] = script[p]
    BY <1>5, AsideFacts, AsideScript
  <2> QED
    BY <1>0, <2>1 DEF Marks, InPage
<1>6. CASE UNCHANGED vars
  BY <1>0, <1>6 DEF vars, Marks, InPage
<1> QED
  BY <1>1, <1>2, <1>3, <1>4, <1>5, <1>6, NextSteps

\* A claim alone puts a page to work again.
LEMMA NotRedoneStep ==
  ASSUME Typed, Told, Tokens, NotRedone, [Next]_vars
  PROVE  NotRedone'
<1> SUFFICES ASSUME NEW y \in Exes, NEW p \in Pages,
                    Holds(y)', ~InPage(y, p, "done")', step'[p] \in Products
             PROVE  p \in adrift'
  BY DEF NotRedone
<1>1. ASSUME NEW x \in Exes, Claim(x)
      PROVE  p \in adrift'
  <2>1. y = x /\ step' = step
    BY <1>1, ClaimTokens DEF Claim
  <2>2. PICK listed \in BOOLEAN :
          /\ adrift' = adrift \cup (Skipped(TRUE) \ Skipped(listed))
          /\ exe'[x].page[p].pc = IF p \in Skipped(listed) THEN "done" ELSE "todo"
    BY <1>1, ClaimFacts
  <2>3. p \notin Skipped(listed) /\ p \in Skipped(TRUE)
    BY <2>1, <2>2 DEF InPage, Skipped
  <2> QED
    BY <2>2, <2>3
<1>2. CASE ~ \E x \in Exes : Claim(x)
  <2>1. Holds(y) /\ exe'[y].token = exe[y].token /\ exe'[y].token # 0
    BY <1>2, OthersGoOn, TokensGoOn DEF Holds, Running
  <2>2. ASSUME adrift \subseteq adrift', step'[p] = step[p],
               InPage(y, p, "done") => InPage(y, p, "done")'
        PROVE  p \in adrift'
    BY <2>1, <2>2 DEF NotRedone
  <2>3. ASSUME NEW x \in Exes, Heartbeat(x)
        PROVE  p \in adrift'
    <3>1. exe'[y].page = exe[y].page /\ UNCHANGED <<step, adrift>>
      BY <2>3, HeartbeatFacts DEF Heartbeat
    <3> QED
      BY <2>2, <3>1 DEF InPage
  <2>4. ASSUME NEW x \in Exes, Crash(x) \/ Finish(x)
        PROVE  p \in adrift'
    <3>1. Emptied(x) /\ step' = step /\ adrift \subseteq adrift'
      BY <2>4, EndFacts
    <3>2. exe'[y] = exe[y]
      BY <2>1, <3>1, NoExeType DEF Emptied
    <3> QED
      BY <2>2, <3>1, <3>2 DEF InPage
  <2>5. ASSUME NEW x \in Exes, NEW q \in Pages, PageStep(x, q)
        PROVE  p \in adrift'
    <3>1. /\ Moves(x, q) /\ adrift \subseteq adrift' /\ exe[x].page[q].pc # "done"
          /\ p # q => step'[p] = step[p]
      BY <2>5, PageFacts
    <3>2. InPage(y, p, "done") => InPage(y, p, "done")'
      BY <3>1 DEF Moves, InPage
    <3>3. step'[p] = step[p]
      <4>1. SUFFICES ASSUME p = q, step' # step
                     PROVE  FALSE
        BY <3>1
      <4>2. Mark(x, p) /\ Holds(x)
        BY <2>5, <4>1, OnlyHolderMarks
      <4>3. y = x /\ InPage(x, p, "done")'
        BY <2>1, <4>2, OneHolder, MarkTurns DEF InPage
      <4> QED
        BY <4>3
    <3> QED
      BY <2>2, <3>1, <3>2, <3>3
  <2>6. CASE Aside
    BY <2>2, <2>6, AsideFacts DEF InPage
  <2>7. CASE UNCHANGED vars
    BY <2>2, <2>7 DEF vars, InPage
  <2> QED
    BY <1>2, <2>3, <2>4, <2>5, <2>6, <2>7, NextSteps
<1> QED
  BY <1>1, <1>2
-----------------------------------------------------------------------------
(* What an attempt knows of its pages *)

\* What is told of execution y and page p.
ToldOf(y, p) ==
  /\ InPage(y, p, "writing") => exe[y].page[p].res \in Drafts
  /\ InPage(y, p, "marking") => exe[y].page[p].res \in Drafts \cup {"skipped"} \cup exe[y].errs
  /\ faults = 0 /\ Holds(y) /\ ~exe[y].stop /\ InPage(y, p, "done") => Accounted(y, p)

\* An execution that keeps the page, and its errors, stays true to it.
LEMMA ToldKept ==
  ASSUME Typed, Told, NEW y \in Exes, NEW p \in Pages, Holds(y)' => Holds(y), faults' >= faults,
         faults' \in Nat, exe'[y].page[p] = exe[y].page[p], exe[y].errs \subseteq exe'[y].errs,
         exe[y].stop => exe'[y].stop, Holds(y) => step'[p] = step[p]
  PROVE  ToldOf(y, p)'
<1>1. ToldOf(y, p)
  BY DEF Told, ToldOf
<1>2. faults' = 0 => faults = 0
  BY DEF Typed
<1>3. Holds(y) /\ Accounted(y, p) => Accounted(y, p)'
  BY DEF Accounted
<1> QED
  BY <1>1, <1>2, <1>3 DEF ToldOf, InPage

\* The page that execution x is at.
LEMMA ToldHere ==
  ASSUME Typed, Told, NEW x \in Exes, NEW p \in Pages, PageStep(x, p), Holds(x)' => Holds(x)
  PROVE  ToldOf(x, p)'
<1>0. exe'[x].stop = exe[x].stop /\ faults \in Nat
  BY PageFacts DEF Moves, Typed
<1>1. CASE Compose(x, p)
  BY <1>0, <1>1, ComposeTurns DEF ToldOf, InPage
<1>2. CASE Write(x, p)
  <2>1. exe[x].page[p].res \in Drafts
    BY <1>2 DEF Write, Told
  <2> QED
    BY <1>0, <1>2, <2>1, WriteTurns DEF ToldOf, InPage
<1>3. CASE Mark(x, p)
  <2>1. exe'[x].page[p].pc = "done" /\ exe'[x].errs = exe[x].errs
    BY <1>3, MarkTurns
  <2>2. ASSUME faults' = 0, Holds(x), ~exe[x].stop
        PROVE  Accounted(x, p)'
    <3>1. step' = [step EXCEPT ![p] = StepOf(exe[x].page[p].res)]
      BY <1>0, <1>3, <2>2 DEF Mark, Fault
    <3>2. InPage(x, p, "marking")
      BY <1>3 DEF Mark
    <3> DEFINE r == exe[x].page[p].res
    <3>3. r \in Results /\ r \in Drafts \cup {"skipped"} \cup exe[x].errs
      BY <3>2, MarkingHasResult DEF Told
    <3>4. step'[p] = StepOf(r)
      BY <3>1 DEF Typed
    <3> HIDE DEF r
    <3>5. CASE r \in Drafts \cup {"skipped"}
      <4>1. step'[p] \in Products \cup {"skipped"}
        BY <3>3, <3>4, <3>5, StepOfResult
      <4> QED
        BY <4>1 DEF Accounted
    <3>6. CASE r = "limited"
      BY <2>1, <3>3, <3>4, <3>6, StepOfResult DEF Accounted, Drafts
    <3>7. CASE r \in {"retryable", "permanent"}
      <4>1. step'[p] = "failed"
        BY <3>3, <3>4, <3>7, StepOfResult
      <4>2. r \in exe'[x].errs \ {"limited"}
        BY <2>1, <3>3, <3>7 DEF Drafts
      <4> QED
        BY <4>1, <4>2 DEF Accounted
    <3> QED
      BY <3>3, <3>5, <3>6, <3>7 DEF Results, Errors
  <2> QED
    BY <1>0, <2>1, <2>2 DEF ToldOf, InPage
<1> QED
  BY <1>1, <1>2, <1>3 DEF PageStep

\* Every execution stays true to its pages.
LEMMA ToldStep ==
  ASSUME Typed, Typed', Told, Tokens, [Next]_vars
  PROVE  Told'
<1> SUFFICES ASSUME NEW y \in Exes, NEW p \in Pages
             PROVE  ToldOf(y, p)'
  BY DEF Told, ToldOf
<1>0. faults \in Nat /\ faults' \in Nat
  BY DEF Typed
<1>1. ASSUME NEW x \in Exes, Claim(x)
      PROVE  ToldOf(y, p)'
  <2>1. PICK listed \in BOOLEAN :
          /\ IF listed THEN faults' = faults ELSE faults' = faults + 1
          /\ exe'[x].page[p].pc = IF p \in Skipped(listed) THEN "done" ELSE "todo"
    BY <1>1, ClaimFacts
  <2>2. step' = step /\ \A z \in Exes \ {x} : exe'[z] = exe[z] /\ ~Holds(z)'
    BY <1>1, ClaimFacts, ClaimTokens DEF Claim
  <2>3. CASE y = x
    <3>1. faults' = 0 => listed
      BY <1>0, <2>1
    <3>2. listed /\ exe'[x].page[p].pc = "done" => step'[p] \in Products
      BY <2>1, <2>2 DEF Skipped
    <3> QED
      BY <2>1, <2>3, <3>1, <3>2 DEF ToldOf, InPage, Accounted
  <2>4. CASE y # x
    BY <2>2, <2>4 DEF ToldOf, Told, InPage
  <2> QED
    BY <2>3, <2>4
<1>2. CASE ~ \E x \in Exes : Claim(x)
  <2>1. Holds(y)' => Holds(y) /\ exe'[y].token = exe[y].token
    BY <1>2, OthersGoOn, TokensGoOn
  <2>2. ASSUME NEW x \in Exes, Heartbeat(x)
        PROVE  ToldOf(y, p)'
    <3>1. UNCHANGED <<step, faults>>
      BY <2>2 DEF Heartbeat, Bounds
    <3>2. exe'[y].page = exe[y].page /\ exe'[y].errs = exe[y].errs /\ (exe[y].stop => exe'[y].stop)
      BY <2>2, HeartbeatFacts
    <3> QED
      BY <1>0, <2>1, <3>1, <3>2, ToldKept
  <2>3. ASSUME NEW x \in Exes, Crash(x) \/ Finish(x)
        PROVE  ToldOf(y, p)'
    <3>1. Emptied(x) /\ step' = step /\ faults' >= faults
      BY <2>3, EndFacts
    <3>2. CASE y = x
      BY <3>1, <3>2, NoExeType DEF Emptied, ToldOf, InPage, Holds, Running
    <3>3. CASE y # x
      <4>1. exe'[y] = exe[y]
        BY <3>1, <3>3 DEF Emptied
      <4> QED
        BY <1>0, <2>1, <3>1, <4>1, ToldKept
    <3> QED
      BY <3>2, <3>3
  <2>4. ASSUME NEW x \in Exes, NEW q \in Pages, PageStep(x, q)
        PROVE  ToldOf(y, p)'
    <3>1. Moves(x, q) /\ faults' >= faults /\ (p # q => step'[p] = step[p])
      BY <2>4, PageFacts
    <3>2. CASE y = x /\ p = q
      BY <2>1, <2>4, <3>2, ToldHere
    <3>3. CASE y # x \/ p # q
      <4>1. /\ exe'[y].page[p] = exe[y].page[p] /\ exe[y].errs \subseteq exe'[y].errs
            /\ exe'[y].stop = exe[y].stop
        BY <3>1, <3>3 DEF Moves
      <4>2. Holds(y) => step'[p] = step[p]
        <5>1. CASE y # x /\ Holds(y)
          BY <2>4, <5>1, OnlyHolderMarks, OneHolder
        <5> QED
          BY <3>1, <3>3, <5>1
      <4> QED
        BY <1>0, <2>1, <3>1, <4>1, <4>2, ToldKept
    <3> QED
      BY <3>2, <3>3
  <2>5. CASE Aside
    <3>1. UNCHANGED <<exe, step>> /\ faults' >= faults
      BY <2>5, AsideFacts
    <3> QED
      BY <1>0, <2>1, <3>1, ToldKept
  <2>6. CASE UNCHANGED vars
    <3>1. UNCHANGED <<exe, step, faults>>
      BY <2>6 DEF vars
    <3> QED
      BY <1>0, <2>1, <3>1, ToldKept
  <2> QED
    BY <1>2, <2>2, <2>3, <2>4, <2>5, <2>6, NextSteps
<1> QED
  BY <1>1, <1>2

\* The verdict of an attempt that ends by itself is true to what it knows of the pages.
LEMMA FinishSettles ==
  ASSUME Typed, Told, Tokens, NEW x \in Exes, Finish(x), Holds(x), faults = 0,
         job'.state \in {"succeeded", "failed"}, NEW p \in Pages
  PROVE  Settled(p)'
<1>1. PICK v \in Verdicts(x) :
        job' = IF Holds(x) /\ (v = "waiting" => job.state = "running")
                 THEN [job EXCEPT !.state = v, !.held = FALSE]
                 ELSE [job EXCEPT !.held = @ /\ ~Holds(x)]
  BY DEF Finish
<1>2. job \in JobRecord /\ job.state \in {"running", "stopping"}
  BY DEF Typed, Holds
<1>3. v = job'.state /\ job'.attempt = job.attempt
  BY <1>1, <1>2 DEF JobRecord
<1>4. ~exe[x].stop
  BY <1>3 DEF Verdicts
<1>5. Accounted(x, p)
  <2>1. InPage(x, p, "done")
    BY DEF Finish
  <2> QED
    BY <1>4, <2>1 DEF Told
<1>6. step'[p] = step[p] /\ step[p] # "none"
  BY <1>5 DEF Finish, Accounted, Products
<1>7. ASSUME job'.state = "succeeded"
      PROVE  step[p] \in Products \cup {"skipped"} \/ (step[p] = "limited" /\ job'.attempt >= Window)
  <2>1. exe[x].errs \ {"limited"} = {} /\ (exe[x].errs = {} \/ exe[x].attempt >= Window)
    BY <1>3, <1>4, <1>7 DEF Verdicts
  <2>2. exe[x].attempt = job.attempt
    BY DEF Tokens
  <2>3. CASE step[p] = "failed" /\ exe[x].errs \ {"limited"} # {}
    BY <2>1, <2>3
  <2>4. CASE step[p] = "limited" /\ "limited" \in exe[x].errs
    BY <1>3, <2>1, <2>2, <2>4
  <2> QED
    BY <1>5, <2>3, <2>4 DEF Accounted
<1> QED
  BY <1>6, <1>7 DEF Settled

\* Only Finish ends an attempt by itself, and nothing changes a step after it.
LEMMA SettledStep ==
  ASSUME Typed, Typed', Told, Tokens, EveryPageSettled, [Next]_vars
  PROVE  EveryPageSettled'
<1> SUFFICES ASSUME job'.state \in {"succeeded", "failed"}, faults' = 0, NEW p \in Pages
             PROVE  Settled(p)'
  BY DEF EveryPageSettled
<1>0. faults \in Nat
  BY DEF Typed
<1>1. ASSUME faults' >= faults, job'.state = job.state, job'.attempt = job.attempt, step'[p] = step[p]
      PROVE  Settled(p)'
  BY <1>0, <1>1 DEF EveryPageSettled, Settled
<1>2. ASSUME NEW x \in Exes, Claim(x)
      PROVE  Settled(p)'
  BY <1>2, ClaimFacts
<1>3. ASSUME NEW x \in Exes, Heartbeat(x)
      PROVE  Settled(p)'
  BY <1>0, <1>1, <1>3 DEF Heartbeat, Bounds
<1>4. ASSUME NEW x \in Exes, Crash(x) \/ Finish(x)
      PROVE  Settled(p)'
  <2>1. step' = step /\ faults' >= faults /\ job'.attempt = job.attempt
    BY <1>4, EndFacts
  <2>2. CASE job'.state = job.state
    BY <1>1, <2>1, <2>2
  <2>3. CASE job'.state # job.state
    <3>1. Finish(x) /\ Holds(x)
      BY <1>4, <2>3, EndFacts
    <3>2. faults = 0
      BY <1>0, <2>1
    <3> QED
      BY <3>1, <3>2, FinishSettles
  <2> QED
    BY <2>2, <2>3
<1>5. ASSUME NEW x \in Exes, NEW q \in Pages, PageStep(x, q)
      PROVE  Settled(p)'
  <2>1. job' = job /\ faults' >= faults
    BY <1>5, PageFacts
  <2>2. ~Holds(x)
    BY <2>1 DEF Holds
  <2>3. step' = step
    BY <1>5, <2>2, OnlyHolderMarks
  <2> QED
    BY <1>1, <2>1, <2>3
<1>6. CASE Aside
  <2>1. /\ step' = step /\ faults' >= faults
        /\ job'.state = job.state /\ job'.attempt = job.attempt
    BY <1>6, AsideFacts
  <2> QED
    BY <1>1, <2>1
<1>7. CASE UNCHANGED vars
  BY <1>0, <1>1, <1>7 DEF vars
<1> QED
  BY <1>2, <1>3, <1>4, <1>5, <1>6, <1>7, NextSteps
-----------------------------------------------------------------------------
(* The invariant and what follows from it *)

\* The invariant holds at first, and in every step.
LEMMA InitInv ==
  ASSUME DraftAssumption, Init
  PROVE  IInv
<1>0. /\ job \in [state : {"waiting"}, attempt : {0}, token : {0}, held : {FALSE}, over : BOOLEAN]
      /\ exe = [x \in Exes |-> NoExe] /\ step = [p \in Pages |-> "none"]
      /\ writes = [p \in Pages |-> 0] /\ faults = 0
  BY DEF Init
<1>1. job.state = "waiting" /\ job.token = 0 /\ job \in JobRecord
  <2>1. "waiting" \in JobStates /\ 0 \in Nat
    BY DEF JobStates
  <2>2. job \in JobRecord
    BY <1>0, <2>1 DEF JobRecord
  <2> QED
    BY <1>0, <2>2
<1>2. \A x \in Exes : /\ exe[x] = NoExe /\ exe[x].token = 0 /\ ~Holds(x)
                      /\ \A p \in Pages : exe[x].page[p].pc = "done"
  BY <1>0, <1>1, NoExeType DEF Holds, Running
<1>3. Typed
  BY <1>0, <1>1, NoExeType DEF Init, Typed, ScriptRecord, NoScript, Drafts, Steps
<1>4. Tokens
  BY <1>0, <1>1, <1>2 DEF Tokens, Running
<1>5. ASSUME NEW p \in Pages
      PROVE  Budget(p)
  <2>1. Writers(p) = {}
    BY <1>2 DEF Writers, InHand
  <2>2. IsFiniteSet(Writers(p)) /\ Cardinality(Writers(p)) = 0
    BY <2>1, FS_EmptySet
  <2>3. ~Led
    BY <1>2 DEF Led
  <2>4. Spare(p) <= 1 /\ Spare(p) \in 0 .. 2
    BY <2>3 DEF Spare, Twice
  <2> QED
    BY <1>0, <2>2, <2>4 DEF Budget
<1>6. NotRedone /\ Told
  BY <1>2 DEF NotRedone, Told, InPage
<1>7. Reported /\ EveryPageSettled
  BY <1>0, <1>1 DEF Init, NoScript, Reported, EveryPageSettled
<1> QED
  BY <1>3, <1>4, <1>5, <1>6, <1>7 DEF IInv, PaidOnce

LEMMA NextInv ==
  ASSUME IInv, [Next]_vars
  PROVE  IInv'
<1>1. Typed /\ Tokens /\ PaidOnce /\ Reported /\ NotRedone /\ Told /\ EveryPageSettled
  BY DEF IInv
<1>2. Typed'
  BY <1>1, TypedStep
<1>3. Tokens' /\ PaidOnce'
  BY <1>1, <1>2, TokensStep, BudgetStep
<1>4. Reported' /\ NotRedone'
  BY <1>1, ReportedStep, NotRedoneStep
<1>5. Told' /\ EveryPageSettled'
  BY <1>1, <1>2, ToldStep, SettledStep
<1> QED
  BY <1>2, <1>3, <1>4, <1>5 DEF IInv

\* The budget, and what is said of every page, hold throughout.
THEOREM InvariantHolds == Spec => []IInv
<1>1. Init => IInv
  BY InitInv, DraftAssumption
<1>2. IInv /\ [Next]_vars => IInv'
  BY NextInv
<1> QED
  BY <1>1, <1>2, PTL DEF Spec

\* However often the job is claimed, retried and lost, and whichever executions overlap, a
\* page is saved (Write) once and once more for each fault.
THEOREM WrittenOnceCorrect == Spec => []WrittenOnce
<1>1. IInv => WrittenOnce
  <2> SUFFICES ASSUME IInv, NEW p \in Pages
               PROVE  writes[p] <= 1 + faults
    BY DEF WrittenOnce
  <2> QED
    BY Counts DEF IInv, PaidOnce
<1> QED
  BY <1>1, InvariantHolds, PTL

\* A text that is the source itself is told from a draft by the page's step (Mark), but for
\* the pages whose step a fault has kept from being recorded or read.
THEOREM DegradedCorrect == Spec => []DegradedReported
<1>1. IInv => DegradedReported
  BY DEF IInv, Reported, DegradedReported, Unmarked, Drafts
<1> QED
  BY <1>1, InvariantHolds, PTL

\* The verdict on an attempt (Finish) is given when every page has its step, and a success
\* when each has its product, was skipped or ran into the rate limit to the end.
THEOREM EveryPageSettledCorrect == Spec => []EveryPageSettled
<1>1. IInv => EveryPageSettled
  BY DEF IInv
<1> QED
  BY <1>1, InvariantHolds, PTL
=============================================================================
