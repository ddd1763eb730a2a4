---------------------------- MODULE SourceFiles ----------------------------
(***************************************************************************)
(* From an upload to the source file of a project and to its removal: the  *)
(* upload sessions (internal/app/upload.go, internal/upload), the source   *)
(* revisions of one project (internal/project), their parse jobs           *)
(* (internal/app/ingest.go) and the retention sweep (internal/retention).  *)
(*                                                                         *)
(* Each call of a store or of the object store is a step of its own.  The  *)
(* client writes the uploaded object itself, through a signed URL.  Source *)
(* objects are addressed by their content, so revisions with one content   *)
(* share an object.                                                        *)
(***************************************************************************)
EXTENDS Naturals, Sequences, FiniteSets

CONSTANTS
  Uploads,       \* the upload sessions
  First,         \* bound: the upload that is settled already
  Histories,     \* bound: how it was settled, and what is uploaded next
  Contents,      \* what a client may upload
  Requests,      \* calls of CompleteUpload and AbortUpload under way
  Nothing,       \* no object, no upload, no item
  DeleteAfter,   \* the uploads with delete_source_after
  OrphanDelete   \* Sweeper.orphanDelete

ASSUME SourceAssumption ==
  /\ DeleteAfter \subseteq Uploads
  /\ First \in Uploads /\ Histories \subseteq {"aborted", "same", "other"}
  /\ Nothing \notin Uploads \cup Contents \cup Nat
  /\ OrphanDelete \in BOOLEAN

VARIABLES
  session,   \* Uploads -> uploads.state
  named,     \* Uploads -> uploads.source_revision_id, set on completion (0: none)
  aged,      \* the uploads that got older than the sweeper's abandonTTL
  temp,      \* Uploads -> the object under uploads.object_key
  source,    \* the contents that have a source object
  inventory, \* Contents -> the object_inventory row of the source object
  revs,      \* the source_revisions of the project, by revision_no
  expired,   \* the live revisions past the retention period
  current,   \* projects.current_revision
  parse,     \* Uploads -> the parse job with the upload's idempotency key
  req,       \* Requests -> a call of CompleteUpload or AbortUpload
  sweep,     \* Sweeper.sweepTenant
  offer,     \* bound: the contents that clients upload from now on
  accepted,  \* history: Uploads -> the contents that passed the hash check
  overtaken  \* history: contents stored anew while listed as orphans

store == <<session, named, aged, temp>>
objects == <<source, inventory, overtaken>>
project == <<revs, expired, current, parse>>
vars == <<store, objects, project, req, sweep, offer, accepted>>
-----------------------------------------------------------------------------
NoCall == [pc |-> "idle", up |-> Nothing, content |-> Nothing, rev |-> 0]
Resting == [pc |-> "idle", todo |-> {}, item |-> Nothing]

NoJob == [state |-> "absent", content |-> Nothing]

Numbers == 1..Len(revs)
Live(i) == revs[i].state = "live"
RevisionsOf(u) == {i \in Numbers : revs[i].upload = u}

\* The first upload was aborted, and the project has no source; or it was
\* completed, and the next ones have the same content, or another one.
Init ==
  \E h \in Histories, c \in Contents :
  /\ session = [u \in Uploads |-> IF u # First THEN "absent"
                                 ELSE IF h = "aborted" THEN h ELSE "completed"]
  /\ named = [u \in Uploads |-> IF session[u] = "completed" THEN 1 ELSE 0]
  /\ offer = CASE h = "aborted" -> Contents [] h = "same" -> {c} [] h = "other" -> Contents \ {c}
  /\ LET had == h # "aborted"
     IN  /\ revs = IF had THEN <<[upload |-> First, content |-> c, state |-> "live"]>> ELSE <<>>
         /\ current = Len(revs)
         /\ source = {k \in {c} : had}
         /\ inventory = [k \in Contents |-> IF k \in source THEN "fresh" ELSE "none"]
         /\ parse = [u \in Uploads |-> IF had /\ u = First THEN [state |-> "succeeded", content |-> c]
                                       ELSE NoJob]
  /\ temp = [u \in Uploads |-> Nothing] /\ accepted = [u \in Uploads |-> {}]
  /\ aged = {} /\ expired = {} /\ overtaken = {}
  /\ req = [r \in Requests |-> NoCall]
  /\ sweep = Resting
-----------------------------------------------------------------------------
(* The client *)

CreateUpload(u) ==
  /\ session[u] = "absent"
  /\ session' = [session EXCEPT ![u] = "pending"]
  /\ UNCHANGED <<named, aged, temp, objects, project, req, sweep, accepted, offer>>

\* A PUT to the signed URL, which ends long before abandonTTL.  Nobody asks
\* for the state of the session; once it is settled, only a call that is about
\* to read the object can tell.
Write(u, c) ==
  /\ u \notin aged /\ temp[u] # c
  /\ session[u] = "pending" \/ \E r \in Requests : req[r].pc = "read" /\ req[r].up = u
  /\ temp' = [temp EXCEPT ![u] = c]
  /\ UNCHANGED <<session, named, aged, objects, project, req, sweep, accepted, offer>>
-----------------------------------------------------------------------------
(* CompleteUpload *)

At(r, pc) == req[r].pc = pc

Settle(u, state) == session' = [session EXCEPT ![u] = state]

Goto(r, pc) == req' = [req EXCEPT ![r].pc = pc]

\* Every way out with an error: what has been written stays.
Fail(r) == req' = [req EXCEPT ![r] = NoCall]

\* The caller is told what the row of a completed session names.
Answered(u, i) == [NoCall EXCEPT !.pc = "answered", !.up = u, !.rev = i]

Start(r, u, c) ==
  /\ At(r, "idle") \/ At(r, "answered")
  /\ session[u] \in {"pending", "completed"}
  /\ req' = [req EXCEPT ![r] =
       IF session[u] = "pending"
       THEN [pc |-> "read", up |-> u, content |-> c, rev |-> 0]
       ELSE Answered(u, named[u])]
  /\ UNCHANGED <<store, objects, project, sweep, accepted, offer>>

\* The object is there and has the hash that the caller expects.
Matches(r) == temp[req[r].up] = req[r].content

Read(r) ==
  LET u == req[r].up
  IN  /\ At(r, "read")
      /\ IF Matches(r)
         THEN /\ Goto(r, "put")
              /\ accepted' = [accepted EXCEPT ![u] = @ \cup {req[r].content}]
         ELSE Fail(r) /\ UNCHANGED accepted
      /\ UNCHANGED <<store, objects, project, sweep, offer>>

\* inventoryStore.Put: the object, then its inventory row with a new date.
Put(r) ==
  LET c == req[r].content
  IN  /\ At(r, "put")
      /\ source' = source \cup {c}
      /\ inventory' = [inventory EXCEPT ![c] = "fresh"]
      /\ overtaken' = IF sweep.pc = "orphans" /\ c \in sweep.todo
                      THEN overtaken \cup {c} ELSE overtaken
      /\ Goto(r, "revise")
      /\ UNCHANGED <<store, project, sweep, accepted, offer>>

Known(u) == RevisionsOf(u) # {}

\* SELECT ... WHERE upload_id
Found(u) == CHOOSE i \in RevisionsOf(u) : TRUE

\* CreateSourceRevision, under the lock of the project row: MAX(revision_no)+1.
CreateRevision(r) ==
  LET u == req[r].up
      row == [upload |-> u, content |-> req[r].content, state |-> "live"]
  IN  /\ At(r, "revise")
      /\ IF Known(u)
         THEN UNCHANGED <<revs, current>>
         ELSE revs' = Append(revs, row) /\ current' = Len(revs) + 1
      /\ req' = [req EXCEPT ![r].pc = "enqueue",
                            ![r].rev = IF Known(u) THEN Found(u) ELSE Len(revs) + 1]
      /\ UNCHANGED <<store, objects, expired, parse, sweep, accepted, offer>>

\* Mutant: the snapshot names the uploaded object.
SnapshotOfUpload(r) == temp[req[r].up]

\* ParseSnapshot names the source object of this call.
Snapshot(r) == req[r].content

\* jobs.Create: a second call with the key of the upload gets the first job,
\* whatever its snapshot says.
Enqueue(r) ==
  LET u == req[r].up
  IN  /\ At(r, "enqueue")
      /\ parse' = IF parse[u].state # "absent" THEN parse
                  ELSE [parse EXCEPT ![u] = [state |-> "queued", content |-> Snapshot(r)]]
      /\ Goto(r, "finish")
      /\ UNCHANGED <<store, objects, revs, expired, current, sweep, accepted, offer>>

\* uploads.Complete writes the revision of this call into the row, and the answer is read
\* from the row if somebody was faster.
Finish(r) ==
  LET u == req[r].up
  IN  /\ At(r, "finish")
      /\ IF session[u] = "pending"
         THEN Settle(u, "completed") /\ named' = [named EXCEPT ![u] = req[r].rev]
         ELSE UNCHANGED <<session, named>>
      /\ IF session'[u] = "completed"
         THEN req' = [req EXCEPT ![r] = Answered(u, named'[u])]
         ELSE Fail(r)
      /\ UNCHANGED <<aged, temp, objects, project, sweep, accepted, offer>>

\* The process dies, or a call returns an error.
GiveUp(r) ==
  /\ req[r].pc \in {"read", "put", "revise", "enqueue", "finish", "unlink", "abort"}
  /\ Fail(r)
  /\ UNCHANGED <<store, objects, project, sweep, accepted, offer>>
-----------------------------------------------------------------------------
(* AbortUpload *)

StartAbort(r, u) ==
  /\ At(r, "idle") /\ session[u] = "pending"
  /\ req' = [req EXCEPT ![r] = [NoCall EXCEPT !.pc = "unlink", !.up = u]]
  /\ UNCHANGED <<store, objects, project, sweep, accepted, offer>>

Unlink(r) ==
  /\ At(r, "unlink")
  /\ temp' = [temp EXCEPT ![req[r].up] = Nothing]
  /\ Goto(r, "abort")
  /\ UNCHANGED <<session, named, aged, objects, project, sweep, accepted, offer>>

\* Mutant: the update has no condition on the state.
AbortableAlways(u) == TRUE

\* uploads.Abort and the sweeper's AbortUpload: "AND state='pending'".
Abortable(u) == session[u] = "pending"

Abort(r) ==
  LET u == req[r].up
  IN  /\ At(r, "abort")
      /\ IF Abortable(u) THEN Settle(u, "aborted") ELSE UNCHANGED session
      /\ Fail(r)
      /\ UNCHANGED <<named, aged, temp, objects, project, sweep, accepted, offer>>
-----------------------------------------------------------------------------
(* The project *)

\* ParseHandler.Handle reads the object its snapshot names.
Parse(u) ==
  /\ parse[u].state = "queued"
  /\ parse' = [parse EXCEPT ![u].state =
                 IF parse[u].content \in source THEN "succeeded" ELSE "failed"]
  /\ UNCHANGED <<store, objects, revs, expired, current, req, sweep, accepted, offer>>

\* Mutant: the revision the project falls back to may be deleted itself.
AnyOther(i) == Numbers \ {i}

Fallbacks(i) == {j \in Numbers \ {i} : Live(j)}

\* DeleteSourceRevision: sets source_deleted_at, and leaves the object alone.
DeleteRevision(i) ==
  /\ i \in Numbers
  /\ i = current => Fallbacks(i) # {}
  /\ revs' = [revs EXCEPT ![i].state = "removed"]
  /\ expired' = expired \ {i}
  /\ current' = IF i # current THEN current
                ELSE CHOOSE j \in Fallbacks(i) : \A k \in Fallbacks(i) : k <= j
  /\ UNCHANGED <<store, objects, parse, req, sweep, accepted, offer>>
-----------------------------------------------------------------------------
(* Time *)

AgeUpload(u) ==
  /\ session[u] = "pending" /\ u \notin aged
  /\ aged' = aged \cup {u}
  /\ UNCHANGED <<session, named, temp, objects, project, req, sweep, accepted, offer>>

Expire(i) ==
  /\ i \in Numbers \ expired /\ Live(i)
  /\ expired' = expired \cup {i}
  /\ UNCHANGED <<store, objects, revs, current, parse, req, sweep, accepted, offer>>

\* The grace period of the orphan scan is longer than a call takes from
\* storing the object to inserting the row; with a row the age is no matter.
AgeObject(c) ==
  /\ inventory[c] = "fresh" /\ \A i \in Numbers : revs[i].content # c
  /\ \A r \in Requests : At(r, "revise") => req[r].content # c
  /\ inventory' = [inventory EXCEPT ![c] = "stale"]
  /\ UNCHANGED <<store, source, overtaken, project, req, sweep, accepted, offer>>
-----------------------------------------------------------------------------
(* The sweep.  Each part of it reads a list and works through it: first the *)
(* object is deleted, then the row is marked.                               *)

Stage(pc, list) ==
  sweep' = IF list = {} /\ pc = "orphans" THEN Resting
           ELSE [pc |-> pc, todo |-> list, item |-> Nothing]

ThroughWith(pc) == sweep.pc = pc /\ sweep.todo = {}

Begin(x) ==
  /\ x \in sweep.todo /\ sweep.item = Nothing
  /\ sweep' = [sweep EXCEPT !.item = x]

\* The last item of the last list ends the sweep.
Done ==
  sweep' = IF sweep.pc = "orphans" /\ sweep.todo = {sweep.item} THEN Resting
           ELSE [sweep EXCEPT !.todo = @ \ {sweep.item}, !.item = Nothing]

RemoveSource(c) ==
  /\ source' = source \ {c}
  /\ inventory' = [inventory EXCEPT ![c] = "none"]

\* PendingUploadsBefore
ListUploads ==
  /\ sweep.pc = "idle"
  /\ Stage("uploads", {u \in aged : session[u] = "pending"})
  /\ UNCHANGED <<store, objects, project, req, accepted, offer>>

SweepUpload(u) ==
  /\ sweep.pc = "uploads" /\ Begin(u)
  /\ temp' = [temp EXCEPT ![u] = Nothing]
  /\ UNCHANGED <<session, named, aged, objects, project, req, accepted, offer>>

\* Store.AbortUpload
SweepAbort ==
  /\ sweep.pc = "uploads" /\ sweep.item # Nothing
  /\ IF Abortable(sweep.item) THEN Settle(sweep.item, "aborted")
     ELSE UNCHANGED session
  /\ Done
  /\ UNCHANGED <<named, aged, temp, objects, project, req, accepted, offer>>

Due(i) ==
  /\ Live(i)
  /\ i \in expired \/ (revs[i].upload \in DeleteAfter
                       /\ session[revs[i].upload] = "completed"
                       /\ parse[revs[i].upload].state = "succeeded")

\* SourcesToDelete
ListSources ==
  /\ ThroughWith("uploads")
  /\ Stage("sources", {i \in Numbers : Due(i)})
  /\ UNCHANGED <<store, objects, project, req, accepted, offer>>

SweepSource(i) ==
  /\ sweep.pc = "sources" /\ Begin(i)
  /\ RemoveSource(revs[i].content)
  /\ UNCHANGED <<store, overtaken, project, req, accepted, offer>>

\* MarkSourceDeleted
MarkSource ==
  /\ sweep.pc = "sources" /\ sweep.item # Nothing
  /\ revs' = IF Live(sweep.item) THEN [revs EXCEPT ![sweep.item].state = "swept"] ELSE revs
  /\ expired' = expired \ {sweep.item}
  /\ Done
  /\ UNCHANGED <<store, objects, current, parse, req, accepted, offer>>

\* Mutant: the scan has no grace period.
OwnerlessNow(c) ==
  inventory[c] # "none" /\ \A i \in Numbers : revs[i].content # c

Ownerless(c) ==
  inventory[c] = "stale" /\ \A i \in Numbers : revs[i].content # c

\* OrphansToDelete; without orphanDelete the list is only reported.
ListOrphans ==
  /\ ThroughWith("sources")
  /\ Stage("orphans", {c \in Contents : OrphanDelete /\ Ownerless(c)})
  /\ UNCHANGED <<store, objects, project, req, accepted, offer>>

SweepOrphan(c) ==
  /\ sweep.pc = "orphans" /\ Begin(c)
  /\ RemoveSource(c)
  /\ UNCHANGED <<store, overtaken, project, req, accepted, offer>>

\* DeleteDerivedRecord
ForgetOrphan ==
  /\ sweep.pc = "orphans" /\ sweep.item # Nothing
  /\ inventory' = [inventory EXCEPT ![sweep.item] = "none"]
  /\ Done
  /\ UNCHANGED <<store, source, overtaken, project, req, accepted, offer>>

\* An error, or the end of the process, ends the sweep where it is.
SweepFails ==
  /\ sweep.pc # "idle"
  /\ sweep' = Resting
  /\ UNCHANGED <<store, objects, project, req, accepted, offer>>
-----------------------------------------------------------------------------
Client(u) ==
  \/ CreateUpload(u)
  \/ \E c \in offer : Write(u, c)

Call(r) ==
  \/ \E u \in Uploads : StartAbort(r, u) \/ \E c \in offer : Start(r, u, c)
  \/ Read(r) \/ Put(r) \/ CreateRevision(r) \/ Enqueue(r) \/ Finish(r) \/ GiveUp(r)
  \/ Unlink(r) \/ Abort(r)

Sweeping ==
  \/ ListUploads \/ ListSources \/ ListOrphans
  \/ \E u \in Uploads : SweepUpload(u)
  \/ \E i \in Numbers : SweepSource(i)
  \/ \E c \in Contents : SweepOrphan(c)
  \/ SweepAbort \/ MarkSource \/ ForgetOrphan

Next ==
  \/ \E u \in Uploads : Client(u) \/ Parse(u) \/ AgeUpload(u)
  \/ \E r \in Requests : Call(r)
  \/ \E i \in Numbers : DeleteRevision(i) \/ Expire(i)
  \/ \E c \in Contents : AgeObject(c)
  \/ Sweeping \/ SweepFails

Spec == Init /\ [][Next]_vars
-----------------------------------------------------------------------------
States == {"absent", "pending", "completed", "aborted"}

TypeOK ==
  /\ session \in [Uploads -> States] /\ named \in [Uploads -> 0..Len(revs)] /\ aged \subseteq Uploads
  /\ temp \in [Uploads -> Contents \cup {Nothing}]
  /\ source \subseteq Contents
  /\ inventory \in [Contents -> {"none", "fresh", "stale"}]
  /\ revs \in Seq([upload: Uploads, content: Contents,
                   state: {"live", "removed", "swept"}])
  /\ expired \subseteq Numbers /\ current \in 0..Len(revs)
  /\ parse \in [Uploads -> [state: {"absent", "queued", "succeeded", "failed"},
                            content: Contents \cup {Nothing}]]
  /\ \A r \in Requests : req[r].rev \in 0..Len(revs)
  /\ sweep.item = Nothing \/ sweep.item \in sweep.todo
  /\ accepted \in [Uploads -> SUBSET Contents] /\ overtaken \subseteq Contents

\* The object of a live revision is there, but for three cases: the sweep is
\* about to mark the revision, it took another revision with the same content,
\* or it had the object on its list of orphans when the object was stored anew.
LiveHasSource ==
  \A i \in Numbers : Live(i) /\ revs[i].content \notin source =>
    \/ Due(i)
    \/ \E j \in Numbers \ {i} : revs[j].content = revs[i].content
                                /\ (Due(j) \/ ~Live(j))
    \/ revs[i].content \in overtaken

\* What a caller was told stays true: the session is completed, with a
\* revision and a parse job of this upload.
AnswersHold ==
  \A r \in Requests : At(r, "answered") =>
    LET u == req[r].up
    IN  /\ session[u] = "completed" /\ parse[u].state # "absent"
        /\ revs[req[r].rev].upload = u

\* An upload makes one revision, however often its completion is retried.
OneRevision == \A u \in Uploads : Cardinality(RevisionsOf(u)) <= 1

\* The parse job reads the content of its revision, unless the client wrote
\* the object again after a completion had accepted it.
JobMatchesRevision ==
  \A i \in Numbers :
    LET u == revs[i].upload
    IN  parse[u].state # "absent" /\ parse[u].content # revs[i].content
          => Cardinality(accepted[u]) > 1

\* The project never stands at a revision that a user deleted.
CurrentKept == revs # <<>> => current # 0 /\ revs[current].state # "removed"
-----------------------------------------------------------------------------
(* A statement of the source that the code does not keep *)

\* source_deleted_at marks that the source object has been deleted: it is gone,
\* unless a live revision or a call under way has the same content.
MarkedIsGone ==
  \A i \in Numbers : ~Live(i) /\ revs[i].content \in source =>
    \/ \E j \in Numbers : Live(j) /\ revs[j].content = revs[i].content
    \/ \E r \in Requests : req[r].content = revs[i].content
=============================================================================
