-------------------------- MODULE SourceFilesProofs --------------------------
(***************************************************************************)
(* Proofs about SourceFiles for every number of uploads, calls, contents   *)
(* and sweeps: one revision for each upload, answers that stay true, the   *)
(* parse job's content, the current revision, and the object of every live *)
(* revision.                                                               *)
(*                                                                         *)
(* Revisions are only ever added or retired, and a session, a job, the     *)
(* accepted contents and what is due for removal only ever advance; so a   *)
(* fact that a step found is still a fact when a later step rests on it.   *)
(***************************************************************************)
EXTENDS SourceFiles, FiniteSetTheorems, SequenceTheorems, WellFoundedInduction, TLAPS

Pcs == {"idle", "read", "put", "revise", "enqueue", "finish", "answered", "unlink", "abort"}

Row == [upload: Uploads, content: Contents, state: {"live", "removed", "swept"}]

CallRecord ==
  [pc: Pcs, up: Uploads \cup {Nothing}, content: Contents \cup {Nothing}, rev: Nat]

Items == Uploads \cup Contents \cup Nat

\* The types the proofs need; few contents are accepted for an upload.
Typed ==
  /\ session \in [Uploads -> States] /\ named \in [Uploads -> Nat]
  /\ inventory \in [Contents -> {"none", "fresh", "stale"}]
  /\ accepted \in [Uploads -> SUBSET Contents]
  /\ \A u \in Uploads : IsFiniteSet(accepted[u])
  /\ revs \in Seq(Row)
  /\ parse \in [Uploads -> [state: {"absent", "queued", "succeeded", "failed"},
                            content: Contents \cup {Nothing}]]
  /\ req \in [Requests -> CallRecord]
  /\ sweep \in [pc: {"idle", "uploads", "sources", "orphans"}, todo: SUBSET Items,
                item: Items \cup {Nothing}]
  /\ offer \subseteq Contents /\ aged \subseteq Uploads

\* What a call has done before it came to where it is.
CallOK(r) ==
  /\ req[r].pc # "idle" => req[r].up \in Uploads
  /\ req[r].pc \in {"read", "put", "revise", "enqueue"} => req[r].content \in Contents
  /\ req[r].pc \in {"put", "revise", "enqueue"} => req[r].content \in accepted[req[r].up]
  /\ req[r].pc \in {"enqueue", "finish"} => req[r].rev \in RevisionsOf(req[r].up)
  /\ req[r].pc = "finish" => parse[req[r].up].state # "absent"
  /\ req[r].pc = "answered" =>
       session[req[r].up] = "completed" /\ req[r].rev \in RevisionsOf(req[r].up)

Calls == \A r \in Requests : CallOK(r)

\* A completed session has its job and names its revision, and a job has its revision.
InOrder ==
  \A u \in Uploads :
    /\ session[u] = "completed" => parse[u].state # "absent" /\ named[u] \in RevisionsOf(u)
    /\ parse[u].state # "absent" => Known(u)

Unique == \A i, j \in Numbers : revs[i].upload = revs[j].upload => i = j

\* The content of a revision was accepted; only a content accepted as well can
\* have come between it and the job.
Origin ==
  \A i \in Numbers :
    LET u == revs[i].upload
        c == revs[i].content
    IN  IF parse[u].state = "absent" THEN c \in accepted[u]
        ELSE parse[u].content = c \/ {c, parse[u].content} \subseteq accepted[u]

\* A revision with content c is due for removal, or removed.
Taken(c) == \E j \in Numbers : revs[j].content = c /\ (Due(j) \/ ~Live(j))

Lost(c) == Taken(c) \/ c \in overtaken

\* The sweep works through sources that are due, and through orphans that no
\* revision and no call about to make one has, or that were overtaken.
Listed ==
  /\ sweep.item # Nothing => sweep.item \in sweep.todo
  /\ sweep.pc = "sources" => \A i \in sweep.todo : i \in Numbers /\ (Due(i) \/ ~Live(i))
  /\ sweep.pc = "orphans" => \A c \in sweep.todo : c \in Contents /\ (c \notin overtaken =>
       /\ \A i \in Numbers : revs[i].content # c
       /\ \A r \in Requests : At(r, "revise") => req[r].content # c)

\* A content that is about to get its revision has its object, is no orphan,
\* and so has the content of a revision.
Stored ==
  /\ \A r \in Requests : At(r, "revise") =>
       /\ inventory[req[r].content] # "stale"
       /\ req[r].content \in source \/ Lost(req[r].content)
  /\ \A i \in Numbers : revs[i].content \in source \/ Lost(revs[i].content)

Standing ==
  /\ current \in Nat
  /\ revs # <<>> => current \in Numbers /\ revs[current].state # "removed"

IInv == Typed /\ Calls /\ InOrder /\ Unique /\ Origin /\ Listed /\ Stored /\ Standing

USE DEF store, objects, project, vars
-----------------------------------------------------------------------------
(* Which actions change what *)

Step == [Next]_vars

\* One lemma for each part of the state: the actions that change it.
LEMMA WhoChangesCalls ==
  ASSUME Step
  PROVE  req' = req \/ \E r \in Requests : Call(r)
BY DEF Step, Next, Client, Sweeping, CreateUpload, Write, Parse, DeleteRevision, AgeUpload,
       Expire, AgeObject, ListUploads, SweepUpload, SweepAbort, ListSources, SweepSource,
       MarkSource, ListOrphans, SweepOrphan, ForgetOrphan, SweepFails

LEMMA WhoChangesRevisions ==
  ASSUME Step
  PROVE  \/ revs' = revs /\ current' = current
         \/ \E r \in Requests : CreateRevision(r)
         \/ \E i \in Numbers : DeleteRevision(i)
         \/ MarkSource
BY DEF Step, Next, Client, Call, Sweeping, CreateUpload, Write, Parse, AgeUpload,
       Expire, AgeObject, ListUploads, SweepUpload, SweepAbort, ListSources, SweepSource,
       ListOrphans, SweepOrphan, ForgetOrphan, SweepFails,
       StartAbort, Start, Read, Put, Enqueue, Finish, GiveUp, Unlink, Abort

LEMMA WhoChangesJobs ==
  ASSUME Step
  PROVE  \/ parse' = parse
         \/ \E u \in Uploads : Parse(u)
         \/ \E r \in Requests : Enqueue(r)
BY DEF Step, Next, Client, Call, Sweeping, CreateUpload, Write, AgeUpload, DeleteRevision,
       Expire, AgeObject, ListUploads, SweepUpload, SweepAbort, ListSources, SweepSource,
       MarkSource, ListOrphans, SweepOrphan, ForgetOrphan, SweepFails,
       StartAbort, Start, Read, Put, CreateRevision, Finish, GiveUp, Unlink, Abort

LEMMA WhoChangesSessions ==
  ASSUME Step
  PROVE  \/ session' = session
         \/ \E u \in Uploads : CreateUpload(u)
         \/ \E r \in Requests : Finish(r) \/ Abort(r)
         \/ SweepAbort
BY DEF Step, Next, Client, Call, Sweeping, Write, Parse, AgeUpload, DeleteRevision,
       Expire, AgeObject, ListUploads, SweepUpload, ListSources, SweepSource,
       MarkSource, ListOrphans, SweepOrphan, ForgetOrphan, SweepFails,
       StartAbort, Start, Read, Put, CreateRevision, Enqueue, GiveUp, Unlink

LEMMA WhoChangesNames ==
  ASSUME Step
  PROVE  named' = named \/ \E r \in Requests : Finish(r)
BY DEF Step, Next, Client, Call, Sweeping, CreateUpload, Write, Parse, AgeUpload,
       DeleteRevision, Expire, AgeObject, ListUploads, SweepUpload, SweepAbort, ListSources,
       SweepSource, MarkSource, ListOrphans, SweepOrphan, ForgetOrphan, SweepFails,
       StartAbort, Start, Read, Put, CreateRevision, Enqueue, GiveUp, Unlink, Abort

LEMMA WhoChangesAccepted ==
  ASSUME Step
  PROVE  accepted' = accepted \/ \E r \in Requests : Read(r)
BY DEF Step, Next, Client, Call, Sweeping, CreateUpload, Write, Parse, AgeUpload,
       DeleteRevision, Expire, AgeObject, ListUploads, SweepUpload, SweepAbort, ListSources,
       SweepSource, MarkSource, ListOrphans, SweepOrphan, ForgetOrphan, SweepFails,
       StartAbort, Start, Put, CreateRevision, Enqueue, Finish, GiveUp, Unlink, Abort

LEMMA WhoChangesExpired ==
  ASSUME Step
  PROVE  \/ expired' = expired
         \/ \E i \in Numbers : DeleteRevision(i) \/ Expire(i)
         \/ MarkSource
BY DEF Step, Next, Client, Call, Sweeping, CreateUpload, Write, Parse, AgeUpload,
       AgeObject, ListUploads, SweepUpload, SweepAbort, ListSources,
       SweepSource, ListOrphans, SweepOrphan, ForgetOrphan, SweepFails,
       StartAbort, Start, Read, Put, CreateRevision, Enqueue, Finish, GiveUp, Unlink, Abort

LEMMA WhoChangesObjects ==
  ASSUME Step
  PROVE  \/ UNCHANGED objects
         \/ \E r \in Requests : Put(r)
         \/ \E c \in Contents : AgeObject(c) \/ SweepOrphan(c)
         \/ \E i \in Numbers : SweepSource(i)
         \/ ForgetOrphan
BY DEF Step, Next, Client, Call, Sweeping, CreateUpload, Write, Parse, AgeUpload,
       DeleteRevision, Expire, ListUploads, SweepUpload, SweepAbort, ListSources,
       MarkSource, ListOrphans, SweepFails,
       StartAbort, Start, Read, CreateRevision, Enqueue, Finish, GiveUp, Unlink, Abort

LEMMA WhoChangesSweep ==
  ASSUME Step
  PROVE  sweep' = sweep \/ Sweeping \/ SweepFails
BY DEF Step, Next, Client, Call, CreateUpload, Write, Parse, AgeUpload,
       DeleteRevision, Expire, AgeObject,
       StartAbort, Start, Read, Put, CreateRevision, Enqueue, Finish, GiveUp, Unlink, Abort
-----------------------------------------------------------------------------
(* What lasts *)

\* A revision that is removed or swept stays what it was otherwise.
LEMMA Retire ==
  ASSUME revs \in Seq(Row), NEW i \in Numbers, NEW s \in {"removed", "swept"},
         revs' = [revs EXCEPT ![i].state = s]
  PROVE  /\ revs' \in Seq(Row) /\ Len(revs') = Len(revs)
         /\ revs'[i].state = s /\ \A j \in Numbers \ {i} : revs'[j] = revs[j]
         /\ \A j \in Numbers : revs'[j].upload = revs[j].upload /\ revs'[j].content = revs[j].content
<1> DEFINE row == [revs[i] EXCEPT !.state = s]
<1>1. revs[i] \in Row
  BY ElementOfSeq DEF Numbers
<1>2. row \in Row /\ row.state = s /\ row.upload = revs[i].upload /\ row.content = revs[i].content
  BY <1>1 DEF Row
<1>3. revs' = [revs EXCEPT ![i] = row]
  OBVIOUS
<1> HIDE DEF row
<1>4. /\ revs' \in Seq(Row) /\ Len(revs') = Len(revs)
      /\ \A j \in Numbers : revs'[j] = IF j = i THEN row ELSE revs[j]
  BY <1>2, <1>3, ExceptSeq DEF Numbers
<1> QED
  BY <1>2, <1>4

\* Revisions are added one at a time, for an upload without one, and never
\* come back to life.
LEMMA RevisionSteps ==
  ASSUME Typed, Calls, Listed, Step
  PROVE  /\ revs' \in Seq(Row)
         /\ \A i \in Numbers :
              /\ i \in Numbers'
              /\ revs'[i].state = "live" => Live(i)
              /\ revs'[i].upload = revs[i].upload /\ revs'[i].content = revs[i].content
         /\ \/ Len(revs') = Len(revs)
            \/ \E r \in Requests :
                 /\ At(r, "revise") /\ ~Known(req[r].up)
                 /\ Len(revs') = Len(revs) + 1
                 /\ revs'[Len(revs) + 1] = [upload |-> req[r].up, content |-> req[r].content,
                                            state |-> "live"]
<1>1. revs \in Seq(Row) /\ Len(revs) \in Nat
  BY LenProperties DEF Typed
<1>2. CASE revs' = revs
  BY <1>1, <1>2 DEF Numbers, Live
<1>3. CASE \E r \in Requests : CreateRevision(r)
  <2>1. PICK r \in Requests : CreateRevision(r)
    BY <1>3
  <2>2. CASE Known(req[r].up)
    BY <1>2, <2>1, <2>2 DEF CreateRevision
  <2>3. CASE ~Known(req[r].up)
    <3> DEFINE row == [upload |-> req[r].up, content |-> req[r].content, state |-> "live"]
    <3>1. At(r, "revise") /\ revs' = Append(revs, row)
      BY <2>1, <2>3 DEF CreateRevision
    <3>2. row \in Row
      BY <3>1 DEF Calls, CallOK, At, Row
    <3> HIDE DEF row
    <3>3. /\ revs' \in Seq(Row) /\ Len(revs') = Len(revs) + 1
          /\ \A i \in Numbers : revs'[i] = revs[i]
          /\ revs'[Len(revs) + 1] = row
      BY <1>1, <3>1, <3>2, AppendProperties DEF Numbers
    <3>4. \A i \in Numbers : i \in Numbers'
      BY <1>1, <3>3 DEF Numbers
    <3> QED
      BY <2>3, <3>1, <3>3, <3>4 DEF Live, row
  <2> QED
    BY <2>2, <2>3
<1>4. ASSUME NEW i \in Numbers, NEW s \in {"removed", "swept"},
             revs' = [revs EXCEPT ![i].state = s]
      PROVE  /\ revs' \in Seq(Row) /\ Len(revs') = Len(revs)
             /\ \A j \in Numbers :
                  /\ j \in Numbers'
                  /\ revs'[j].state = "live" => Live(j)
                  /\ revs'[j].upload = revs[j].upload /\ revs'[j].content = revs[j].content
  <2>1. /\ revs' \in Seq(Row) /\ Len(revs') = Len(revs)
        /\ revs'[i].state = s /\ \A j \in Numbers \ {i} : revs'[j] = revs[j]
        /\ \A j \in Numbers : revs'[j].upload = revs[j].upload
                              /\ revs'[j].content = revs[j].content
    BY <1>1, <1>4, Retire
  <2> QED
    BY <2>1 DEF Numbers, Live
<1>5. CASE \E i \in Numbers : DeleteRevision(i)
  BY <1>4, <1>5 DEF DeleteRevision
<1>6. CASE MarkSource
  <2>1. sweep.item \in Numbers
    BY <1>6 DEF MarkSource, Listed
  <2> QED
    BY <1>2, <1>4, <1>6, <2>1 DEF MarkSource
<1> QED
  BY <1>2, <1>3, <1>5, <1>6, WhoChangesRevisions

\* A parse job keeps its content, and is not forgotten.
LEMMA JobsLast ==
  ASSUME Typed, Calls, Step
  PROVE  /\ parse' \in [Uploads -> [state: {"absent", "queued", "succeeded", "failed"},
                                    content: Contents \cup {Nothing}]]
         /\ \A u \in Uploads :
              /\ parse[u].state # "absent" =>
                   parse'[u].state # "absent" /\ parse'[u].content = parse[u].content
              /\ parse[u].state = "succeeded" => parse'[u].state = "succeeded"
              /\ parse[u].state = "absent" /\ parse'[u].state # "absent" =>
                   \E r \in Requests : At(r, "enqueue") /\ req[r].up = u
                                       /\ parse'[u].content = req[r].content
<1>1. CASE parse' = parse
  BY <1>1 DEF Typed
<1>2. CASE \E u \in Uploads : Parse(u)
  BY <1>2 DEF Parse, Typed
<1>3. ASSUME NEW r \in Requests, Enqueue(r)
      PROVE  /\ req[r].up \in Uploads /\ At(r, "enqueue")
             /\ parse' = IF parse[req[r].up].state # "absent" THEN parse
                  ELSE [parse EXCEPT ![req[r].up] = [state |-> "queued",
                                                     content |-> req[r].content]]
             /\ req[r].content \in Contents
  BY <1>3 DEF Enqueue, Calls, CallOK, At, Snapshot
<1>4. CASE \E r \in Requests : Enqueue(r)
  <2>1. PICK r \in Requests : Enqueue(r)
    BY <1>4
  <2>2. CASE parse[req[r].up].state # "absent"
    BY <1>1, <1>3, <2>1, <2>2
  <2> DEFINE u == req[r].up
             new == [state |-> "queued", content |-> req[r].content]
  <2>3. CASE parse[u].state = "absent"
    <3>1. u \in Uploads /\ At(r, "enqueue") /\ parse' = [parse EXCEPT ![u] = new]
      BY <1>3, <2>1, <2>3
    <3>2. new \in [state: {"absent", "queued", "succeeded", "failed"},
                   content: Contents \cup {Nothing}]
      BY <1>3, <2>1
    <3>3. new.state = "queued" /\ new.content = req[r].content
      OBVIOUS
    <3> HIDE DEF new
    <3> QED
      BY <2>3, <3>1, <3>2, <3>3 DEF Typed
  <2> QED
    BY <2>2, <2>3
<1> QED
  BY <1>1, <1>2, <1>4, WhoChangesJobs

\* A completed session stays so, and is completed only by a call at its last step.
LEMMA SessionsLast ==
  ASSUME Typed, Calls, Step
  PROVE  /\ session' \in [Uploads -> States]
         /\ \A u \in Uploads :
              /\ session[u] = "completed" => session'[u] = "completed"
              /\ session[u] # "completed" /\ session'[u] = "completed" =>
                   \E r \in Requests : At(r, "finish") /\ req[r].up = u
<1>1. CASE session' = session
  BY <1>1 DEF Typed
<1>2. CASE \E u \in Uploads : CreateUpload(u)
  BY <1>2 DEF CreateUpload, Typed, States
<1>3. CASE \E r \in Requests : Finish(r)
  <2>1. PICK r \in Requests : Finish(r)
    BY <1>3
  <2>2. /\ At(r, "finish")
        /\ session' = [session EXCEPT ![req[r].up] = "completed"] \/ session' = session
    BY <2>1 DEF Finish, Settle
  <2> QED
    BY <2>2 DEF Typed, States
<1>4. ASSUME NEW u, session' = IF Abortable(u) THEN [session EXCEPT ![u] = "aborted"] ELSE session
      PROVE  /\ session' \in [Uploads -> States]
             /\ \A v \in Uploads : session'[v] = "completed" <=> session[v] = "completed"
  BY <1>4 DEF Abortable, Typed, States
<1>5. CASE \E r \in Requests : Abort(r)
  BY <1>4, <1>5 DEF Abort, Settle
<1>6. CASE SweepAbort
  BY <1>4, <1>6 DEF SweepAbort, Settle
<1> QED
  BY <1>1, <1>2, <1>3, <1>5, <1>6, WhoChangesSessions

\* The name that a completed session has is the one the completing call wrote.
LEMMA NamesLast ==
  ASSUME Typed, Calls, Step
  PROVE  /\ named' \in [Uploads -> Nat]
         /\ \A u \in Uploads :
              \/ named'[u] = named[u] /\ (session'[u] = "completed" => session[u] = "completed")
              \/ /\ session[u] = "pending" /\ session'[u] = "completed"
                 /\ \E r \in Requests : /\ At(r, "finish") /\ req[r].up = u
                                        /\ named'[u] = req[r].rev
<1>1. CASE \E r \in Requests : Finish(r)
  <2>1. PICK r \in Requests : Finish(r)
    BY <1>1
  <2>2. At(r, "finish") /\ req[r].up \in Uploads /\ req[r].rev \in Nat
    BY <2>1 DEF Finish, At, Calls, CallOK, Typed, CallRecord
  <2>3. CASE session[req[r].up] = "pending"
    <3>1. /\ session' = [session EXCEPT ![req[r].up] = "completed"]
          /\ named' = [named EXCEPT ![req[r].up] = req[r].rev]
      BY <2>1, <2>3 DEF Finish, Settle
    <3> QED
      BY <2>2, <2>3, <3>1 DEF Typed
  <2>4. CASE session[req[r].up] # "pending"
    <3>1. session' = session /\ named' = named
      BY <2>1, <2>4 DEF Finish
    <3> QED
      BY <3>1 DEF Typed
  <2> QED
    BY <2>3, <2>4
<1>2. CASE ~\E r \in Requests : Finish(r)
  <2>1. named' = named
    BY <1>2, WhoChangesNames
  <2>2. ASSUME NEW u, session' = IF Abortable(u) THEN [session EXCEPT ![u] = "aborted"] ELSE session
        PROVE  \A v \in Uploads : session'[v] = "completed" => session[v] = "completed"
    BY <2>2 DEF Abortable, Typed, States
  <2>3. CASE session' = session
    BY <2>1, <2>3 DEF Typed
  <2>4. CASE \E u \in Uploads : CreateUpload(u)
    BY <2>1, <2>4 DEF CreateUpload, Typed
  <2>5. CASE \E r \in Requests : Abort(r)
    BY <2>1, <2>2, <2>5 DEF Abort, Settle, Typed
  <2>6. CASE SweepAbort
    BY <2>1, <2>2, <2>6 DEF SweepAbort, Settle, Typed
  <2> QED
    BY <1>2, <2>3, <2>4, <2>5, <2>6, WhoChangesSessions
<1> QED
  BY <1>1, <1>2

\* Contents are accepted for an upload, and never taken back.
LEMMA AcceptedLast ==
  ASSUME Typed, Calls, Step
  PROVE  /\ accepted' \in [Uploads -> SUBSET Contents]
         /\ \A u \in Uploads : accepted[u] \subseteq accepted'[u] /\ IsFiniteSet(accepted'[u])
<1>1. CASE accepted' = accepted
  BY <1>1 DEF Typed
<1>2. CASE \E r \in Requests : Read(r)
  <2>1. PICK r \in Requests : Read(r)
    BY <1>2
  <2>2. CASE accepted' = [accepted EXCEPT ![req[r].up] = @ \cup {req[r].content}]
    <3>1. req[r].content \in Contents
      BY <2>1 DEF Read, At, Calls, CallOK
    <3>2. accepted' \in [Uploads -> SUBSET Contents]
      BY <2>2, <3>1 DEF Typed
    <3>3. ASSUME NEW u \in Uploads
          PROVE  accepted'[u] = accepted[u] \/ accepted'[u] = accepted[u] \cup {req[r].content}
      BY <2>2 DEF Typed
    <3>4. \A u \in Uploads : IsFiniteSet(accepted[u])
      BY DEF Typed
    <3>5. ASSUME NEW u \in Uploads
          PROVE  IsFiniteSet(accepted[u] \cup {req[r].content})
      BY <3>4, FS_AddElement
    <3> QED
      BY <3>2, <3>3, <3>4, <3>5
  <2> QED
    BY <1>1, <2>1, <2>2 DEF Read
<1> QED
  BY <1>1, <1>2, WhoChangesAccepted

\* So it is with the objects that were overtaken,
LEMMA OvertakenLasts ==
  ASSUME Step
  PROVE  overtaken \subseteq overtaken'
BY WhoChangesObjects DEF Put, AgeObject, SweepOrphan, SweepSource, ForgetOrphan

\* with what is due, until it is removed,
LEMMA ExpiredLasts ==
  ASSUME Typed, Listed, Step, NEW i \in Numbers, i \in expired
  PROVE  i \in expired' \/ ~Live(i)'
<1>1. CASE \E j \in Numbers : Expire(j)
  BY <1>1 DEF Expire
<1>2. ASSUME NEW j \in Numbers, NEW s \in {"removed", "swept"},
             revs' = [revs EXCEPT ![j].state = s], expired' = expired \ {j}
      PROVE  i \in expired' \/ ~Live(i)'
  <2>1. revs'[j].state = s
    BY <1>2, Retire DEF Typed
  <2> QED
    BY <1>2, <2>1 DEF Live
<1>3. CASE \E j \in Numbers : DeleteRevision(j)
  BY <1>2, <1>3 DEF DeleteRevision
<1>4. CASE MarkSource
  <2>1. sweep.item \in Numbers
    BY <1>4 DEF MarkSource, Listed
  <2>2. CASE Live(sweep.item)
    BY <1>2, <1>4, <2>1, <2>2 DEF MarkSource
  <2>3. CASE ~Live(sweep.item)
    BY <1>4, <2>3 DEF MarkSource, Live
  <2> QED
    BY <2>2, <2>3
<1> QED
  BY <1>1, <1>3, <1>4, WhoChangesExpired

\* What is due is marked or still due: nothing puts off a removal.
LEMMA DueLasts ==
  ASSUME Typed, Calls, Listed, Step, NEW i \in Numbers, Due(i)
  PROVE  Due(i)' \/ ~Live(i)'
<1> SUFFICES ASSUME Live(i)'
             PROVE  Due(i)'
  OBVIOUS
<1>1. CASE i \in expired
  <2>1. i \in expired'
    BY <1>1, ExpiredLasts
  <2> QED
    BY <2>1 DEF Due
<1>2. CASE /\ revs[i].upload \in DeleteAfter
           /\ session[revs[i].upload] = "completed"
           /\ parse[revs[i].upload].state = "succeeded"
  <2>1. revs'[i].upload = revs[i].upload
    BY RevisionSteps
  <2>2. revs[i].upload \in Uploads
    BY <1>2, SourceAssumption DEF SourceAssumption
  <2>3. session'[revs[i].upload] = "completed" /\ parse'[revs[i].upload].state = "succeeded"
    BY <1>2, <2>2, SessionsLast, JobsLast
  <2> QED
    BY <1>2, <2>1, <2>3 DEF Due
<1> QED
  BY <1>1, <1>2 DEF Due

\* with a content that may be lost,
LEMMA LostLasts ==
  ASSUME Typed, Calls, Listed, Step, NEW c, Lost(c)
  PROVE  Lost(c)'
<1>1. CASE c \in overtaken
  BY <1>1, OvertakenLasts DEF Lost
<1>2. CASE Taken(c)
  <2>1. PICK i \in Numbers : revs[i].content = c /\ (Due(i) \/ ~Live(i))
    BY <1>2 DEF Taken
  <2>2. i \in Numbers' /\ revs'[i].content = c /\ (~Live(i) => ~Live(i)')
    BY <2>1, RevisionSteps DEF Live
  <2>3. Due(i)' \/ ~Live(i)'
    BY <2>1, <2>2, DueLasts
  <2>4. Taken(c)'
    BY <2>2, <2>3 DEF Taken
  <2> QED
    BY <2>4 DEF Lost
<1> QED
  BY <1>1, <1>2 DEF Lost

\* and with the revisions of an upload.
LEMMA KnownLasts ==
  ASSUME Typed, Calls, Listed, Step, NEW u, Known(u)
  PROVE  RevisionsOf(u) \subseteq RevisionsOf(u)' /\ Known(u)'
BY RevisionSteps DEF Known, RevisionsOf

\* A completed session names a revision of its upload.
LEMMA NameHolds ==
  ASSUME IInv, Step, NEW u \in Uploads, session'[u] = "completed"
  PROVE  named'[u] \in RevisionsOf(u)'
<1>1. \A v : Known(v) => RevisionsOf(v) \subseteq RevisionsOf(v)'
  BY KnownLasts DEF IInv
<1>2. CASE named'[u] = named[u] /\ session[u] = "completed"
  BY <1>1, <1>2 DEF IInv, InOrder, Known
<1>3. ASSUME NEW r \in Requests, At(r, "finish"), req[r].up = u, named'[u] = req[r].rev
      PROVE  named'[u] \in RevisionsOf(u)'
  <2>1. req[r].rev \in RevisionsOf(u)
    BY <1>3 DEF At, IInv, Calls, CallOK
  <2> QED
    BY <1>1, <1>3, <2>1 DEF Known
<1> QED
  BY <1>2, <1>3, NamesLast DEF IInv
-----------------------------------------------------------------------------
(* Calls *)

\* A call that does not move keeps what it has done.
LEMMA CallRests ==
  ASSUME Typed, Calls, Listed, Step, NEW r \in Requests, req'[r] = req[r]
  PROVE  CallOK(r)'
<1>1. CallOK(r)
  BY DEF Calls
<1>2. \A u \in Uploads : accepted[u] \subseteq accepted'[u]
  BY AcceptedLast
<1>3. \A u : Known(u) => RevisionsOf(u) \subseteq RevisionsOf(u)' /\ Known(u)'
  BY KnownLasts
<1>4. \A u \in Uploads : parse[u].state # "absent" => parse'[u].state # "absent"
  BY JobsLast
<1>5. \A u \in Uploads : session[u] = "completed" => session'[u] = "completed"
  BY SessionsLast
<1> QED
  BY <1>1, <1>2, <1>3, <1>4, <1>5 DEF CallOK, Known, RevisionsOf

\* The call that moves: where it is now, and what it has done for that.
Moved(r) == /\ req' = [req EXCEPT ![r] = req'[r]]
            /\ req'[r] \in CallRecord /\ CallOK(r)'

\* A call that gives up, or ends, is idle again.
LEMMA Leaves ==
  ASSUME Typed, NEW r \in Requests, Fail(r)
  PROVE  Moved(r)
BY DEF Typed, Fail, NoCall, CallRecord, Pcs, Moved, CallOK

\* What a caller is told.
LEMMA AnsweredRecord ==
  ASSUME NEW u \in Uploads, NEW i \in Nat
  PROVE  /\ Answered(u, i) \in CallRecord
         /\ Answered(u, i).pc = "answered" /\ Answered(u, i).up = u /\ Answered(u, i).rev = i
BY DEF Answered, NoCall, CallRecord, Pcs

\* One lemma for each step of a call: what it finds is so when the next step is taken.
LEMMA CallStarts ==
  ASSUME IInv, Step, NEW r \in Requests, NEW u \in Uploads, NEW c \in offer, Start(r, u, c)
  PROVE  Moved(r)
<1>1. CASE session[u] = "pending"
  <2> DEFINE call == [pc |-> "read", up |-> u, content |-> c, rev |-> 0]
  <2>1. req' = [req EXCEPT ![r] = call]
    BY <1>1 DEF Start
  <2>2. c \in Contents
    BY DEF IInv, Typed
  <2>3. call \in CallRecord /\ call.pc = "read" /\ call.up = u /\ call.content = c
    BY <2>2 DEF CallRecord, Pcs
  <2> HIDE DEF call
  <2>4. req'[r] = call
    BY <2>1 DEF IInv, Typed
  <2>5. CallOK(r)'
    BY <2>2, <2>3, <2>4 DEF CallOK
  <2> QED
    BY <2>1, <2>3, <2>4, <2>5 DEF Moved
<1>2. CASE session[u] # "pending"
  <2> DEFINE i == named[u]
             call == Answered(u, i)
  <2>1. session[u] = "completed" /\ req' = [req EXCEPT ![r] = call]
    BY <1>2 DEF Start
  <2>3. i \in RevisionsOf(u)
    BY <2>1 DEF IInv, InOrder
  <2> HIDE DEF i
  <2>4. i \in Nat
    BY <2>3 DEF RevisionsOf, Numbers
  <2>5. call \in CallRecord /\ call.pc = "answered" /\ call.up = u /\ call.rev = i
    BY <2>4, AnsweredRecord
  <2> HIDE DEF call
  <2>6. req'[r] = call
    BY <2>1 DEF IInv, Typed
  <2>7. session' = session /\ revs' = revs
    BY DEF Start
  <2>8. i \in RevisionsOf(u)'
    BY <2>3, <2>7 DEF RevisionsOf, Numbers
  <2>9. req'[r].pc = "answered" /\ req'[r].up = u /\ req'[r].rev = i
    BY <2>5, <2>6
  <2>10. CallOK(r)'
    BY <2>1, <2>7, <2>8, <2>9 DEF CallOK, RevisionsOf
  <2> QED
    BY <2>1, <2>5, <2>6, <2>10 DEF Moved
<1> QED
  BY <1>1, <1>2

LEMMA CallReads ==
  ASSUME IInv, Step, NEW r \in Requests, Read(r)
  PROVE  Moved(r)
<1>1. CASE ~Matches(r)
  BY <1>1, Leaves DEF Read, IInv
<1>2. CASE Matches(r)
  <2>1. /\ req' = [req EXCEPT ![r].pc = "put"]
        /\ accepted' = [accepted EXCEPT ![req[r].up] = @ \cup {req[r].content}]
    BY <1>2 DEF Read, Goto
  <2>2. req[r].up \in Uploads /\ req[r].content \in Contents
    BY DEF Read, At, IInv, Calls, CallOK
  <2>3. req[r].content \in accepted'[req[r].up]
    BY <2>1, <2>2 DEF IInv, Typed
  <2>4. /\ req'[r] \in CallRecord /\ req'[r].pc = "put"
        /\ req'[r].up = req[r].up /\ req'[r].content = req[r].content
    BY <2>1 DEF IInv, Typed, CallRecord, Pcs
  <2> QED
    BY <2>1, <2>2, <2>3, <2>4 DEF Moved, CallOK, IInv, Typed
<1> QED
  BY <1>1, <1>2

\* A call goes on with the same upload, content and revision.
LEMMA GoesOn ==
  ASSUME Typed, NEW r \in Requests, NEW pc \in Pcs, Goto(r, pc)
  PROVE  /\ req' = [req EXCEPT ![r] = req'[r]] /\ req'[r] \in CallRecord
         /\ req'[r].pc = pc /\ req'[r].up = req[r].up /\ req'[r].content = req[r].content
         /\ req'[r].rev = req[r].rev
BY DEF Typed, Goto, CallRecord

LEMMA CallPuts ==
  ASSUME IInv, Step, NEW r \in Requests, Put(r)
  PROVE  Moved(r)
<1>1. Goto(r, "revise") /\ At(r, "put") /\ accepted' = accepted
  BY DEF Put
<1>2. /\ req' = [req EXCEPT ![r] = req'[r]] /\ req'[r] \in CallRecord
      /\ req'[r].pc = "revise" /\ req'[r].up = req[r].up /\ req'[r].content = req[r].content
  BY <1>1, GoesOn DEF IInv, Pcs
<1>3. CallOK(r)
  BY DEF IInv, Calls
<1> QED
  BY <1>1, <1>2, <1>3 DEF Moved, CallOK, At

LEMMA CallRevises ==
  ASSUME IInv, Step, NEW r \in Requests, CreateRevision(r)
  PROVE  Moved(r)
<1> DEFINE u == req[r].up
           row == [upload |-> u, content |-> req[r].content, state |-> "live"]
           n == IF Known(u) THEN Found(u) ELSE Len(revs) + 1
<1>1. /\ At(r, "revise") /\ accepted' = accepted
      /\ req' = [req EXCEPT ![r].pc = "enqueue", ![r].rev = n]
  BY DEF CreateRevision
<1>2. revs \in Seq(Row) /\ Len(revs) \in Nat /\ CallOK(r)
  BY LenProperties DEF IInv, Typed, Calls
<1>3. n \in Numbers' /\ revs'[n].upload = u
  <2>1. CASE Known(u)
    <3>1. Found(u) \in RevisionsOf(u) /\ revs' = revs
      BY <2>1 DEF Known, Found, CreateRevision
    <3> QED
      BY <2>1, <3>1 DEF RevisionsOf, Numbers
  <2>2. CASE ~Known(u)
    <3>1. revs' = Append(revs, row)
      BY <2>2 DEF CreateRevision
    <3>2. row \in Row
      BY <1>1, <1>2 DEF CallOK, At, Row
    <3>3. row.upload = u
      OBVIOUS
    <3> HIDE DEF row
    <3>4. Len(revs') = Len(revs) + 1 /\ revs'[Len(revs) + 1] = row
      BY <1>2, <3>1, <3>2, AppendProperties
    <3> QED
      BY <1>2, <2>2, <3>3, <3>4 DEF Numbers
  <2> QED
    BY <2>1, <2>2
<1>4. n \in Nat
  BY <1>3 DEF Numbers
<1> HIDE DEF n, row
<1>5. /\ req' = [req EXCEPT ![r] = req'[r]] /\ req'[r] \in CallRecord
      /\ req'[r].pc = "enqueue" /\ req'[r].up = u /\ req'[r].content = req[r].content
      /\ req'[r].rev = n
  BY <1>1, <1>4 DEF IInv, Typed, CallRecord, Pcs
<1>6. CallOK(r)'
  BY <1>1, <1>2, <1>3, <1>5 DEF CallOK, At, RevisionsOf
<1> QED
  BY <1>5, <1>6 DEF Moved

LEMMA CallEnqueues ==
  ASSUME IInv, Step, NEW r \in Requests, Enqueue(r)
  PROVE  Moved(r)
<1>1. Goto(r, "finish") /\ At(r, "enqueue") /\ revs' = revs
  BY DEF Enqueue
<1>2. /\ req' = [req EXCEPT ![r] = req'[r]] /\ req'[r] \in CallRecord
      /\ req'[r].pc = "finish" /\ req'[r].up = req[r].up /\ req'[r].content = req[r].content
      /\ req'[r].rev = req[r].rev
  BY <1>1, GoesOn DEF IInv, Pcs
<1>3. CallOK(r)
  BY DEF IInv, Calls
<1>4. parse'[req[r].up].state # "absent"
  BY <1>1, <1>3 DEF Enqueue, CallOK, At, IInv, Typed
<1>5. CallOK(r)'
  BY <1>1, <1>2, <1>3, <1>4 DEF CallOK, At, RevisionsOf, Numbers
<1> QED
  BY <1>2, <1>5 DEF Moved

LEMMA CallFinishes ==
  ASSUME IInv, Step, NEW r \in Requests, Finish(r)
  PROVE  Moved(r)
<1>1. PICK u \in Uploads : u = req[r].up
  BY DEF Finish, At, IInv, Calls, CallOK
<1>2. CASE session'[u] # "completed"
  BY <1>1, <1>2, Leaves DEF Finish, IInv
<1>3. CASE session'[u] = "completed"
  <2>1. PICK i \in Nat : i = named'[u]
    BY NamesLast DEF IInv
  <2> DEFINE call == Answered(u, i)
  <2>2. req' = [req EXCEPT ![r] = call]
    BY <1>1, <1>3, <2>1 DEF Finish
  <2>3. i \in RevisionsOf(u)'
    BY <1>3, <2>1, NameHolds
  <2>4. call \in CallRecord /\ call.pc = "answered" /\ call.up = u /\ call.rev = i
    BY AnsweredRecord
  <2> HIDE DEF call
  <2>5. req'[r] = call
    BY <2>2 DEF IInv, Typed
  <2>6. req'[r].pc = "answered" /\ req'[r].up = u /\ req'[r].rev = i
    BY <2>4, <2>5
  <2>7. CallOK(r)'
    BY <1>3, <2>3, <2>6 DEF CallOK, RevisionsOf
  <2> QED
    BY <2>2, <2>4, <2>5, <2>7 DEF Moved
<1> QED
  BY <1>2, <1>3

LEMMA AbortMoves ==
  ASSUME IInv, Step, NEW r \in Requests,
         (\E u \in Uploads : StartAbort(r, u)) \/ Unlink(r)
  PROVE  Moved(r)
<1>1. ASSUME NEW u \in Uploads, StartAbort(r, u)
      PROVE  Moved(r)
  BY <1>1 DEF StartAbort, NoCall, IInv, Typed, CallRecord, Pcs, Moved, CallOK
<1>2. CASE Unlink(r)
  <2>1. Goto(r, "abort") /\ At(r, "unlink")
    BY <1>2 DEF Unlink
  <2>2. /\ req' = [req EXCEPT ![r] = req'[r]] /\ req'[r] \in CallRecord
        /\ req'[r].pc = "abort" /\ req'[r].up = req[r].up
    BY <2>1, GoesOn DEF IInv, Pcs
  <2>3. CallOK(r)
    BY DEF IInv, Calls
  <2> QED
    BY <2>1, <2>2, <2>3 DEF Moved, CallOK, At
<1> QED
  BY <1>1, <1>2

\* Calls keep their order: object, revision, job, session.
LEMMA CallsStep ==
  ASSUME IInv, Step
  PROVE  req' \in [Requests -> CallRecord] /\ Calls'
<1>1. ASSUME NEW r \in Requests, Call(r)
      PROVE  Moved(r)
  BY <1>1, CallStarts, CallReads, CallPuts, CallRevises, CallEnqueues, CallFinishes,
     AbortMoves, Leaves DEF Call, GiveUp, Abort, IInv
<1>2. CASE req' = req
  BY <1>2, CallRests DEF Calls, IInv, Typed
<1>3. CASE \E r \in Requests : Call(r)
  <2>1. PICK r \in Requests : Moved(r)
    BY <1>1, <1>3
  <2>2. \A q \in Requests \ {r} : req'[q] = req[q]
    BY <2>1 DEF Moved, IInv, Typed
  <2>3. \A q \in Requests \ {r} : CallOK(q)'
    BY <2>2, CallRests DEF IInv
  <2>4. CallOK(r)' /\ req' \in [Requests -> CallRecord]
    BY <2>1 DEF Moved, IInv, Typed
  <2> QED
    BY <2>3, <2>4 DEF Calls
<1> QED
  BY <1>2, <1>3, WhoChangesCalls
-----------------------------------------------------------------------------
(* Revisions, jobs and accepted contents *)

\* A job is there before its session is completed, and its revision before it.
LEMMA InOrderStep ==
  ASSUME IInv, Step
  PROVE  InOrder'
<1> SUFFICES ASSUME NEW u \in Uploads
             PROVE  /\ session'[u] = "completed" =>
                         parse'[u].state # "absent" /\ named'[u] \in RevisionsOf(u)'
                    /\ parse'[u].state # "absent" => Known(u)'
  BY DEF InOrder
<1>1. parse[u].state # "absent" => parse'[u].state # "absent"
  BY JobsLast DEF IInv
<1>2. session'[u] = "completed" => parse[u].state # "absent"
  BY SessionsLast DEF IInv, InOrder, Calls, CallOK, At
<1>3. parse'[u].state # "absent" => Known(u)
  BY JobsLast DEF IInv, InOrder, Calls, CallOK, At, Known
<1>4. Known(u) => Known(u)'
  BY KnownLasts DEF IInv
<1> QED
  BY <1>1, <1>2, <1>3, <1>4, NameHolds

\* A new revision: who makes it.
LEMMA NewRevision ==
  ASSUME IInv, Step, NEW i \in Numbers', i \notin Numbers
  PROVE  \E r \in Requests :
           /\ At(r, "revise") /\ ~Known(req[r].up) /\ i = Len(revs) + 1
           /\ Numbers' = Numbers \cup {i}
           /\ revs'[i].upload = req[r].up /\ revs'[i].content = req[r].content
           /\ revs'[i].state = "live"
<1>1. Len(revs) \in Nat
  BY LenProperties DEF IInv, Typed
<1>2. Len(revs') # Len(revs)
  BY DEF Numbers
<1>3. PICK r \in Requests :
        /\ At(r, "revise") /\ ~Known(req[r].up)
        /\ Len(revs') = Len(revs) + 1
        /\ revs'[Len(revs) + 1] = [upload |-> req[r].up, content |-> req[r].content,
                                   state |-> "live"]
  BY <1>2, RevisionSteps DEF IInv
<1>4. i = Len(revs) + 1 /\ Numbers' = Numbers \cup {i}
  BY <1>1, <1>3 DEF Numbers
<1> QED
  BY <1>3, <1>4

\* CreateRevision adds a revision to an upload that has none.
LEMMA UniqueStep ==
  ASSUME IInv, Step
  PROVE  Unique'
<1>1. \A i \in Numbers : i \in Numbers' /\ revs'[i].upload = revs[i].upload
  BY RevisionSteps DEF IInv
<1>2. \A i, j \in Numbers : revs[i].upload = revs[j].upload => i = j
  BY DEF IInv, Unique
<1>3. CASE Numbers' = Numbers
  BY <1>1, <1>2, <1>3 DEF Unique
<1>4. ASSUME NEW i \in Numbers', i \notin Numbers
      PROVE  Unique'
  <2>1. Numbers' = Numbers \cup {i} /\ \A j \in Numbers : revs[j].upload # revs'[i].upload
    BY <1>4, NewRevision DEF Known, RevisionsOf
  <2> QED
    BY <1>1, <1>2, <2>1 DEF Unique
<1> QED
  BY <1>1, <1>3, <1>4

\* The content of a revision, and of a job, was accepted for its upload.
LEMMA OriginStep ==
  ASSUME IInv, Step
  PROVE  Origin'
<1> SUFFICES ASSUME NEW i \in Numbers', NEW u, u = revs'[i].upload, NEW c, c = revs'[i].content
             PROVE  IF parse'[u].state = "absent" THEN c \in accepted'[u]
                    ELSE parse'[u].content = c \/ {c, parse'[u].content} \subseteq accepted'[u]
  BY DEF Origin
<1>u. u \in Uploads
  <2>1. revs' \in Seq(Row)
    BY RevisionSteps DEF IInv
  <2>2. revs'[i] \in Row
    BY <2>1, ElementOfSeq DEF Numbers
  <2> QED
    BY <2>2 DEF Row
<1>1. accepted[u] \subseteq accepted'[u]
  BY <1>u, AcceptedLast DEF IInv
<1>2. /\ parse[u].state # "absent" =>
           parse'[u].state # "absent" /\ parse'[u].content = parse[u].content
      /\ parse[u].state = "absent" /\ parse'[u].state # "absent" =>
           \E r \in Requests : At(r, "enqueue") /\ req[r].up = u
                               /\ parse'[u].content = req[r].content
  BY <1>u, JobsLast DEF IInv
<1>3. \A r \in Requests : At(r, "enqueue") =>
        Known(req[r].up) /\ req[r].content \in accepted[req[r].up]
  BY DEF IInv, Calls, CallOK, At, Known
<1>4. CASE i \in Numbers
  <2>1. revs[i].upload = u /\ revs[i].content = c
    BY <1>4, RevisionSteps DEF IInv
  <2>2. IF parse[u].state = "absent" THEN c \in accepted[u]
        ELSE parse[u].content = c \/ {c, parse[u].content} \subseteq accepted[u]
    BY <1>4, <2>1 DEF IInv, Origin
  <2> QED
    BY <1>1, <1>2, <1>3, <2>2
<1>5. CASE i \notin Numbers
  <2>1. PICK r \in Requests : At(r, "revise") /\ ~Known(u) /\ req[r].up = u /\ req[r].content = c
    BY <1>5, NewRevision
  <2>2. c \in accepted[u]
    BY <2>1 DEF IInv, Calls, CallOK, At
  <2>3. parse[u].state = "absent"
    BY <1>u, <2>1 DEF IInv, InOrder
  <2>4. parse'[u].state = "absent"
    BY <1>2, <1>3, <2>1, <2>3
  <2> QED
    BY <1>1, <2>2, <2>4
<1> QED
  BY <1>4, <1>5
-----------------------------------------------------------------------------
(* The sweep and the objects *)

\* A call that is about to make a revision has just stored its object, or was
\* about to before.
LEMMA ReviseBegins ==
  ASSUME IInv, Step, NEW r \in Requests, req'[r].pc = "revise"
  PROVE  \/ At(r, "revise") /\ req'[r].content = req[r].content
         \/ Put(r) /\ req'[r].content = req[r].content
<1>1. CASE req' = req
  BY <1>1 DEF At
<1>2. ASSUME NEW q \in Requests, Call(q), q # r
      PROVE  req'[r] = req[r]
  BY <1>2 DEF Call, StartAbort, Start, Read, Put, CreateRevision, Enqueue, Finish, GiveUp,
       Unlink, Abort, Goto, Fail, IInv, Typed
<1>3. CASE Call(r)
  <2>1. CASE Put(r)
    BY <2>1 DEF Put, Goto, IInv, Typed, CallRecord
  <2>2. CASE ~Put(r)
    <3>1. ASSUME NEW pc, pc # "revise", Goto(r, pc)
          PROVE  req'[r].pc # "revise"
      BY <3>1 DEF Goto, IInv, Typed, CallRecord
    <3>2. ASSUME NEW call, call.pc # "revise", req' = [req EXCEPT ![r] = call]
          PROVE  req'[r].pc # "revise"
      BY <3>2 DEF IInv, Typed
    <3>3. CASE Fail(r)
      BY <3>2, <3>3 DEF Fail, NoCall
    <3>4. CASE \E u \in Uploads : StartAbort(r, u)
      BY <3>2, <3>4 DEF StartAbort, NoCall
    <3>5. CASE \E u \in Uploads : \E c \in offer : Start(r, u, c)
      BY <3>2, <3>5 DEF Start, Answered, NoCall
    <3>6. CASE \E u, i : req' = [req EXCEPT ![r] = Answered(u, i)]
      BY <3>2, <3>6 DEF Answered, NoCall
    <3>7. CASE \E pc \in {"put", "finish", "abort"} : Goto(r, pc)
      BY <3>1, <3>7
    <3>8. CASE CreateRevision(r)
      BY <3>8 DEF CreateRevision, IInv, Typed, CallRecord
    <3> QED
      BY <1>3, <2>2, <3>3, <3>4, <3>5, <3>6, <3>7, <3>8
         DEF Call, Read, Enqueue, Finish, GiveUp, Unlink, Abort
  <2> QED
    BY <2>1, <2>2
<1> QED
  BY <1>1, <1>2, <1>3, WhoChangesCalls DEF At

\* What the sweep has on its list: from before, or from what it has just read.
LEMMA SweepMoves ==
  ASSUME Typed, Step
  PROVE  /\ sweep' \in [pc: {"idle", "uploads", "sources", "orphans"}, todo: SUBSET Items,
                        item: Items \cup {Nothing}]
         /\ (sweep.item # Nothing => sweep.item \in sweep.todo) =>
              (sweep'.item # Nothing => sweep'.item \in sweep'.todo)
         /\ \/ sweep'.pc = sweep.pc /\ sweep'.todo \subseteq sweep.todo
            \/ sweep'.pc \in {"idle", "uploads"}
            \/ /\ ListSources /\ sweep'.pc = "sources"
               /\ sweep'.todo = {i \in Numbers : Due(i)}
            \/ /\ ListOrphans /\ sweep'.pc = "orphans"
               /\ sweep'.todo \subseteq {c \in Contents : Ownerless(c)}
<1>1. CASE sweep' = sweep
  BY <1>1 DEF Typed
<1>2. CASE SweepFails
  BY <1>2 DEF SweepFails, Resting
<1>3. ASSUME NEW x \in Items, Begin(x)
      PROVE  /\ sweep' \in [pc: {"idle", "uploads", "sources", "orphans"}, todo: SUBSET Items,
                            item: Items \cup {Nothing}]
             /\ sweep'.pc = sweep.pc /\ sweep'.todo = sweep.todo /\ sweep'.item \in sweep'.todo
  BY <1>3 DEF Begin, Typed
<1>4. CASE \/ \E u \in Uploads : SweepUpload(u)
           \/ \E i \in Numbers : SweepSource(i)
           \/ \E c \in Contents : SweepOrphan(c)
  <2>1. PICK x \in Items : Begin(x)
    BY <1>4 DEF SweepUpload, SweepSource, SweepOrphan, Items, Numbers
  <2> QED
    BY <1>3, <2>1
<1>5. CASE SweepAbort \/ MarkSource \/ ForgetOrphan
  <2>1. Done
    BY <1>5 DEF SweepAbort, MarkSource, ForgetOrphan
  <2> QED
    BY <2>1 DEF Done, Resting, Typed
<1>6. CASE ListUploads
  BY <1>6 DEF ListUploads, Stage, Resting, Typed, Items, States
<1>7. CASE ListSources
  <2>1. {i \in Numbers : Due(i)} \subseteq Items
    BY DEF Items, Numbers
  <2> QED
    BY <1>7, <2>1 DEF ListSources, Stage, Resting
<1>8. CASE ListOrphans
  <2>1. {c \in Contents : OrphanDelete /\ Ownerless(c)} \subseteq Items
    BY DEF Items
  <2> QED
    BY <1>8, <2>1 DEF ListOrphans, Stage, Resting
<1> QED
  BY <1>1, <1>2, <1>4, <1>5, <1>6, <1>7, <1>8, WhoChangesSweep DEF Sweeping

\* What the sweep works through is still due, or still an orphan, or overtaken.
LEMMA ListedStep ==
  ASSUME IInv, Step
  PROVE  Listed'
<1>1. sweep'.item # Nothing => sweep'.item \in sweep'.todo
  BY SweepMoves DEF IInv, Listed
<1>2. ASSUME NEW i \in Numbers, Due(i) \/ ~Live(i)
      PROVE  i \in Numbers' /\ (Due(i)' \/ ~Live(i)')
  <2>1. i \in Numbers' /\ (~Live(i) => ~Live(i)')
    BY RevisionSteps DEF IInv, Live
  <2>2. Due(i) => Due(i)' \/ ~Live(i)'
    BY DueLasts DEF IInv
  <2> QED
    BY <1>2, <2>1, <2>2
<1>3. ASSUME sweep'.pc = "sources", NEW i \in sweep'.todo
      PROVE  i \in Numbers' /\ (Due(i)' \/ ~Live(i)')
  <2>1. i \in Numbers /\ (Due(i) \/ ~Live(i))
    BY <1>3, SweepMoves DEF IInv, Listed
  <2> QED
    BY <1>2, <2>1
<1>c. ASSUME sweep'.pc = "orphans", NEW c \in sweep'.todo
      PROVE  c \in Contents
  BY <1>c, SweepMoves DEF IInv, Listed
<1>4. ASSUME sweep'.pc = "orphans", NEW c \in sweep'.todo, c \notin overtaken'
      PROVE  /\ \A i \in Numbers' : revs'[i].content # c
             /\ \A r \in Requests : req'[r].pc = "revise" => req'[r].content # c
  <2>1. c \notin overtaken
    BY <1>4, OvertakenLasts
  <2>2. /\ c \in Contents /\ \A i \in Numbers : revs[i].content # c
        /\ \A r \in Requests : At(r, "revise") => req[r].content # c
        /\ (sweep.pc = "orphans" /\ c \in sweep.todo) \/ ListOrphans
    <3>1. CASE sweep.pc = "orphans" /\ c \in sweep.todo
      BY <2>1, <3>1 DEF IInv, Listed
    <3>2. CASE ListOrphans /\ c \in Contents /\ Ownerless(c)
      BY <3>2 DEF Ownerless, IInv, Stored
    <3> QED
      BY <1>4, <3>1, <3>2, SweepMoves DEF IInv
  <2>3. \A i \in Numbers' : revs'[i].content # c
    <3>1. ASSUME NEW i \in Numbers', revs'[i].content = c
          PROVE  FALSE
      <4>1. CASE i \in Numbers
        BY <2>2, <3>1, <4>1, RevisionSteps DEF IInv
      <4>2. CASE i \notin Numbers
        BY <2>2, <3>1, <4>2, NewRevision
      <4> QED
        BY <4>1, <4>2
    <3> QED
      BY <3>1
  <2>4. ASSUME NEW r \in Requests, req'[r].pc = "revise", req'[r].content = c
        PROVE  FALSE
    <3>1. Put(r) /\ req[r].content = c
      BY <2>2, <2>4, ReviseBegins
    <3>2. CASE ListOrphans
      BY <2>2, <3>1, <3>2, <2>4 DEF ListOrphans, Put, Goto, At, IInv, Typed, CallRecord
    <3>3. CASE sweep.pc = "orphans" /\ c \in sweep.todo
      BY <1>4, <3>1, <3>3 DEF Put
    <3> QED
      BY <2>2, <3>2, <3>3
  <2> QED
    BY <2>2, <2>3, <2>4
<1>5. sweep'.pc = "sources" => \A i \in sweep'.todo : i \in Numbers' /\ (Due(i)' \/ ~Live(i)')
  BY <1>3
<1>6. sweep'.pc = "orphans" => \A c \in sweep'.todo :
        c \in Contents /\ (c \notin overtaken' =>
          /\ \A i \in Numbers' : revs'[i].content # c
          /\ \A r \in Requests : At(r, "revise")' => req'[r].content # c)
  BY <1>c, <1>4 DEF At
<1> QED
  BY <1>1, <1>5, <1>6 DEF Listed

\* The object that a revision has, or a call counts on, is taken only with a
\* revision that is due, or as an orphan that was overtaken.
LEMMA SourceLasts ==
  ASSUME IInv, Step, NEW c,
         \/ \E i \in Numbers : revs[i].content = c
         \/ \E r \in Requests : At(r, "revise") /\ req[r].content = c,
         c \in source \/ Lost(c)
  PROVE  c \in source' \/ Lost(c)'
<1>1. CASE Lost(c)
  BY <1>1, LostLasts DEF IInv
<1>2. ASSUME c \in source, c \notin source'
      PROVE  Lost(c)
  <2>1. CASE \E i \in Numbers : SweepSource(i)
    <3>1. PICK i \in Numbers : SweepSource(i)
      BY <2>1
    <3>2. revs[i].content = c /\ (Due(i) \/ ~Live(i))
      BY <1>2, <3>1 DEF SweepSource, Begin, RemoveSource, IInv, Listed
    <3> QED
      BY <3>2 DEF Lost, Taken
  <2>2. CASE \E k \in Contents : SweepOrphan(k)
    BY <1>2, <2>2 DEF SweepOrphan, Begin, RemoveSource, IInv, Listed, Lost
  <2> QED
    BY <1>2, <2>1, <2>2, WhoChangesObjects DEF Put, AgeObject, ForgetOrphan
<1> QED
  BY <1>1, <1>2, LostLasts DEF IInv

\* No content turns stale while a call is about to make its revision.
LEMMA InventoryStep ==
  ASSUME IInv, Step
  PROVE  /\ inventory' \in [Contents -> {"none", "fresh", "stale"}]
         /\ \A c \in Contents : inventory'[c] = "stale" =>
              inventory[c] = "stale" \/ \A r \in Requests : At(r, "revise") => req[r].content # c
<1>1. CASE UNCHANGED objects
  BY <1>1 DEF IInv, Typed
<1>2. ASSUME NEW c, NEW s \in {"none", "fresh"}, inventory' = [inventory EXCEPT ![c] = s]
      PROVE  /\ inventory' \in [Contents -> {"none", "fresh", "stale"}]
             /\ \A k \in Contents : inventory'[k] = "stale" => inventory[k] = "stale"
  BY <1>2 DEF IInv, Typed
<1>3. CASE \E r \in Requests : Put(r)
  BY <1>2, <1>3 DEF Put
<1>4. CASE \/ \E c \in Contents : SweepOrphan(c)
           \/ \E i \in Numbers : SweepSource(i)
           \/ ForgetOrphan
  BY <1>2, <1>4 DEF SweepOrphan, SweepSource, RemoveSource, ForgetOrphan
<1>5. CASE \E c \in Contents : AgeObject(c)
  BY <1>5 DEF AgeObject, IInv, Typed
<1> QED
  BY <1>1, <1>3, <1>4, <1>5, WhoChangesObjects

\* What a call about to make a revision has stored is there.
LEMMA StoredCalls ==
  ASSUME IInv, Step, NEW r \in Requests, NEW c, req'[r].pc = "revise", req'[r].content = c
  PROVE  inventory'[c] # "stale" /\ (c \in source' \/ Lost(c)')
<1>1. c \in Contents /\ req[r].content = c
  BY ReviseBegins DEF Put, At, IInv, Calls, CallOK
<1>2. CASE At(r, "revise")
  <2>1. inventory'[c] # "stale"
    BY <1>1, <1>2, InventoryStep DEF IInv, Stored
  <2>2. c \in source \/ Lost(c)
    BY <1>1, <1>2 DEF IInv, Stored
  <2> QED
    BY <1>1, <1>2, <2>1, <2>2, SourceLasts
<1>3. CASE Put(r)
  BY <1>1, <1>3 DEF Put, IInv, Typed
<1> QED
  BY <1>2, <1>3, ReviseBegins

\* A revision is made of a content that has its object, and keeps it until it is due.
LEMMA StoredRevisions ==
  ASSUME IInv, Step, NEW i \in Numbers', NEW c, revs'[i].content = c
  PROVE  c \in source' \/ Lost(c)'
<1>1. CASE i \in Numbers
  <2>1. revs[i].content = c
    BY <1>1, RevisionSteps DEF IInv
  <2>2. c \in source \/ Lost(c)
    BY <1>1, <2>1 DEF IInv, Stored
  <2> QED
    BY <1>1, <2>1, <2>2, SourceLasts
<1>2. CASE i \notin Numbers
  <2>1. PICK r \in Requests : At(r, "revise") /\ req[r].content = c
    BY <1>2, NewRevision
  <2>2. c \in source \/ Lost(c)
    BY <2>1 DEF IInv, Stored
  <2> QED
    BY <2>1, <2>2, SourceLasts
<1> QED
  BY <1>1, <1>2

\* So it is for revisions, and for the calls that are about to make one.
LEMMA StoredStep ==
  ASSUME IInv, Step
  PROVE  Stored'
<1>1. \A c : Lost(c)' <=> (\/ c \in overtaken'
                           \/ \E j \in Numbers' : revs'[j].content = c /\ (Due(j)' \/ ~Live(j)'))
  BY DEF Lost, Taken
<1> QED
  BY <1>1, StoredCalls, StoredRevisions DEF Stored, At, Lost, Taken
-----------------------------------------------------------------------------
(* The current revision *)

\* Some revisions have a last one.
LEMMA LastOfSome ==
  ASSUME NEW n \in Nat, NEW S \in SUBSET (1 .. n), S # {}
  PROVE  \E j \in S : \A k \in S : k <= j
<1> DEFINE From(j) == {k \in S : j <= k}
           T == {From(j) : j \in S}
           R == StrictSubsetOrdering(S)
<1>1. IsFiniteSet(S)
  <2>1. IsFiniteSet(1 .. n)
    BY FS_Interval
  <2> QED
    BY <2>1, FS_Subset
<1>2. T \subseteq FiniteSubsetsOf(S) /\ T # {}
  <2>1. \A j \in S : From(j) \in SUBSET S
    OBVIOUS
  <2> HIDE DEF From
  <2>2. \A j \in S : IsFiniteSet(From(j))
    BY <1>1, <2>1, FS_Subset
  <2> QED
    BY <2>1, <2>2 DEF FiniteSubsetsOf
<1>3. IsWellFoundedOn(R, FiniteSubsetsOf(S))
  BY FS_StrictSubsetOrderingWellFounded
<1> HIDE DEF R
<1>4. \E x \in T : \A y \in T : ~(<<y, x>> \in R)
  <2> HIDE DEF T
  <2> QED
    BY <1>2, <1>3, WFMin
<1>5. PICK j \in S : \A k \in S : ~(<<From(k), From(j)>> \in R)
  BY <1>4
<1>6. ASSUME NEW k \in S, ~(k <= j)
      PROVE  FALSE
  <2>1. j \in Int /\ k \in Int /\ j < k /\ S \subseteq Int
    BY <1>6
  <2>2. /\ \A m \in S : k <= m => j <= m
        /\ j <= j /\ ~(k <= j)
    BY <2>1
  <2>3. <<From(k), From(j)>> \in R
    BY <1>5, <2>2 DEF R, StrictSubsetOrdering
  <2> QED
    BY <1>5, <2>3
<1> QED
  BY <1>6

\* A sequence is empty if it has no positions.
LEMMA Empty ==
  ASSUME NEW s \in Seq(Row)
  PROVE  Len(s) \in Nat /\ (s # <<>> <=> 1 .. Len(s) # {})
<1>1. Len(s) \in Nat /\ Len(<<>>) = 0 /\ (s # <<>> => Len(s) \in Nat \ {0})
  BY LenProperties, EmptySeq
<1>2. 1 .. Len(s) # {} <=> Len(s) # 0
  BY <1>1
<1> QED
  BY <1>1, <1>2

\* DeleteRevision leaves the project at a revision that stays, or is refused.
LEMMA StandingStep ==
  ASSUME IInv, Step
  PROVE  Standing'
<1>1. revs \in Seq(Row) /\ Len(revs) \in Nat /\ (revs # <<>> <=> Numbers # {})
  <2>1. revs \in Seq(Row)
    BY DEF IInv, Typed
  <2> QED
    BY <2>1, Empty DEF Numbers
<1>2. revs' \in Seq(Row) /\ Len(revs') \in Nat /\ (revs' # <<>> <=> Numbers' # {})
  <2>1. revs' \in Seq(Row)
    BY RevisionSteps DEF IInv
  <2> QED
    BY <2>1, Empty DEF Numbers
<1>3. Standing
  BY DEF IInv
<1>4. CASE revs' = revs /\ current' = current
  BY <1>3, <1>4 DEF Standing, Numbers
<1>5. CASE \E r \in Requests : CreateRevision(r)
  <2>1. PICK r \in Requests : CreateRevision(r)
    BY <1>5
  <2> DEFINE row == [upload |-> req[r].up, content |-> req[r].content, state |-> "live"]
  <2>2. CASE revs' = Append(revs, row) /\ current' = Len(revs) + 1
    <3>1. row \in Row
      BY <2>1 DEF CreateRevision, At, IInv, Calls, CallOK, Row
    <3>2. row.state = "live"
      OBVIOUS
    <3> HIDE DEF row
    <3>3. Len(revs') = Len(revs) + 1 /\ revs'[Len(revs) + 1] = row
      BY <1>1, <2>2, <3>1, AppendProperties
    <3> QED
      BY <1>1, <2>2, <3>2, <3>3 DEF Standing, Numbers
  <2> QED
    BY <1>4, <2>1, <2>2 DEF CreateRevision
<1>6. ASSUME NEW i \in Numbers, NEW s \in {"removed", "swept"},
             revs' = [revs EXCEPT ![i].state = s]
      PROVE  /\ Numbers' = Numbers /\ revs'[i].state = s
             /\ \A j \in Numbers \ {i} : revs'[j] = revs[j]
  BY <1>1, <1>6, Retire DEF Numbers
<1>7. CASE \E i \in Numbers : DeleteRevision(i)
  <2>1. PICK i \in Numbers : DeleteRevision(i)
    BY <1>7
  <2>2. /\ Numbers' = Numbers /\ \A j \in Numbers \ {i} : revs'[j] = revs[j]
    BY <1>6, <2>1 DEF DeleteRevision
  <2>3. CASE i # current
    BY <1>1, <1>2, <1>3, <2>1, <2>2, <2>3 DEF DeleteRevision, Standing
  <2>4. CASE i = current
    <3> DEFINE P(j) == \A k \in Fallbacks(i) : k <= j
               m == CHOOSE j \in Fallbacks(i) : P(j)
    <3>1. Fallbacks(i) # {} /\ Fallbacks(i) \in SUBSET (1 .. Len(revs)) /\ current' = m
      BY <2>1, <2>4 DEF DeleteRevision, Fallbacks, Numbers
    <3>2. \E j \in Fallbacks(i) : P(j)
      BY <1>1, <3>1, LastOfSome
    <3>3. m \in Fallbacks(i)
      BY <3>2
    <3> HIDE DEF m
    <3>4. m \in Numbers \ {i} /\ revs[m].state = "live"
      BY <3>3 DEF Fallbacks, Live
    <3>5. m \in Nat
      BY <3>4 DEF Numbers
    <3> QED
      BY <2>2, <3>1, <3>4, <3>5 DEF Standing
  <2> QED
    BY <2>3, <2>4
<1>8. CASE MarkSource
  <2>1. sweep.item \in Numbers /\ current' = current
    BY <1>8 DEF MarkSource, IInv, Listed
  <2>2. CASE revs' = [revs EXCEPT ![sweep.item].state = "swept"]
    <3>1. /\ Numbers' = Numbers /\ revs'[sweep.item].state = "swept"
          /\ \A j \in Numbers \ {sweep.item} : revs'[j] = revs[j]
      BY <1>6, <2>1, <2>2
    <3> QED
      BY <1>1, <1>2, <1>3, <2>1, <3>1 DEF Standing
  <2> QED
    BY <1>4, <1>8, <2>1, <2>2 DEF MarkSource
<1> QED
  BY <1>4, <1>5, <1>7, <1>8, WhoChangesRevisions
-----------------------------------------------------------------------------
(* The invariant *)

\* The history of an instance stays, and uploads only age.
LEMMA Ages ==
  ASSUME Step
  PROVE  offer' = offer /\ (aged' = aged \/ \E u \in Uploads : AgeUpload(u))
BY DEF Step, Next, Client, Call, Sweeping, CreateUpload, Write, Parse,
       DeleteRevision, Expire, AgeObject, ListUploads, SweepUpload, SweepAbort, ListSources,
       SweepSource, MarkSource, ListOrphans, SweepOrphan, ForgetOrphan, SweepFails, AgeUpload,
       StartAbort, Start, Read, Put, CreateRevision, Enqueue, Finish, GiveUp, Unlink, Abort

\* The parts of the invariant, and the invariant.
LEMMA TypedStep ==
  ASSUME IInv, Step
  PROVE  Typed'
<1>1. offer' \subseteq Contents /\ aged' \subseteq Uploads
  BY Ages DEF IInv, Typed, AgeUpload
<1>2. session' \in [Uploads -> States] /\ named' \in [Uploads -> Nat] /\ revs' \in Seq(Row)
  BY SessionsLast, NamesLast, RevisionSteps DEF IInv
<1>3. /\ accepted' \in [Uploads -> SUBSET Contents]
      /\ \A u \in Uploads : IsFiniteSet(accepted'[u])
  BY AcceptedLast DEF IInv
<1>4. inventory' \in [Contents -> {"none", "fresh", "stale"}]
  BY InventoryStep
<1>5. parse' \in [Uploads -> [state: {"absent", "queued", "succeeded", "failed"},
                              content: Contents \cup {Nothing}]]
  BY JobsLast DEF IInv
<1>6. req' \in [Requests -> CallRecord]
  BY CallsStep
<1>7. sweep' \in [pc: {"idle", "uploads", "sources", "orphans"}, todo: SUBSET Items,
                  item: Items \cup {Nothing}]
  BY SweepMoves DEF IInv
<1> QED
  BY <1>1, <1>2, <1>3, <1>4, <1>5, <1>6, <1>7 DEF Typed

LEMMA InvStep ==
  ASSUME IInv, [Next]_vars
  PROVE  IInv'
<1>1. Step
  BY DEF Step
<1> QED
  BY <1>1, TypedStep, CallsStep, InOrderStep, UniqueStep, OriginStep, ListedStep, StoredStep,
     StandingStep DEF IInv

LEMMA InvInit ==
  ASSUME Init
  PROVE  IInv
<1>1. PICK h \in Histories, c \in Contents :
        /\ session = [u \in Uploads |-> IF u # First THEN "absent"
                                        ELSE IF h = "aborted" THEN h ELSE "completed"]
        /\ named = [u \in Uploads |-> IF session[u] = "completed" THEN 1 ELSE 0]
        /\ offer = CASE h = "aborted" -> Contents
                     [] h = "same" -> {c}
                     [] h = "other" -> Contents \ {c}
        /\ revs = IF h # "aborted"
                  THEN <<[upload |-> First, content |-> c, state |-> "live"]>> ELSE <<>>
        /\ current = Len(revs)
        /\ source = {k \in {c} : h # "aborted"}
        /\ inventory = [k \in Contents |-> IF k \in source THEN "fresh" ELSE "none"]
        /\ parse = [u \in Uploads |-> IF h # "aborted" /\ u = First
                                      THEN [state |-> "succeeded", content |-> c] ELSE NoJob]
  BY DEF Init
<1>2. /\ accepted = [u \in Uploads |-> {}] /\ aged = {}
      /\ req = [r \in Requests |-> NoCall] /\ sweep = Resting
  BY DEF Init
<1>3. h \in {"aborted", "same", "other"} /\ First \in Uploads
  BY SourceAssumption DEF SourceAssumption
<1> DEFINE row == [upload |-> First, content |-> c, state |-> "live"]
<1>4. \/ h = "aborted" /\ revs = <<>> /\ Len(revs) = 0 /\ revs \in Seq(Row) /\ Numbers = {}
      \/ /\ h # "aborted" /\ Len(revs) = 1 /\ revs \in Seq(Row) /\ Numbers = {1}
         /\ revs[1].upload = First /\ revs[1].content = c /\ revs[1].state = "live"
  <2>1. CASE h = "aborted"
    <3>1. revs = <<>>
      BY <1>1, <2>1
    <3>2. Len(revs) = 0 /\ revs \in Seq(Row)
      BY <3>1, EmptySeq
    <3> QED
      BY <2>1, <3>1, <3>2 DEF Numbers
  <2>2. CASE h # "aborted"
    <3>1. revs = <<row>>
      BY <1>1, <2>2
    <3>2. row \in Row /\ row.upload = First /\ row.content = c /\ row.state = "live"
      BY <1>3 DEF Row
    <3> HIDE DEF row
    <3>3. revs \in Seq(Row) /\ Len(revs) = 1 /\ revs[1] = row
      BY <3>1, <3>2
    <3>4. Numbers = {1}
      BY <3>3 DEF Numbers
    <3> QED
      BY <2>2, <3>2, <3>3, <3>4
  <2> QED
    BY <2>1, <2>2
<1>5. Typed
  <2>1. offer \subseteq Contents
    BY <1>1, <1>3
  <2>2. session \in [Uploads -> States] /\ named \in [Uploads -> Nat]
    BY <1>1, <1>3 DEF States
  <2>3. inventory \in [Contents -> {"none", "fresh", "stale"}]
    BY <1>1
  <2>4. accepted \in [Uploads -> SUBSET Contents] /\ \A u \in Uploads : IsFiniteSet(accepted[u])
    BY <1>2, FS_EmptySet
  <2>5. parse \in [Uploads -> [state: {"absent", "queued", "succeeded", "failed"},
                               content: Contents \cup {Nothing}]]
    BY <1>1 DEF NoJob
  <2>6. req \in [Requests -> CallRecord]
    BY <1>2 DEF NoCall, CallRecord, Pcs
  <2>7. sweep \in [pc: {"idle", "uploads", "sources", "orphans"}, todo: SUBSET Items,
                   item: Items \cup {Nothing}]
    BY <1>2 DEF Resting
  <2> QED
    BY <1>2, <1>4, <2>1, <2>2, <2>3, <2>4, <2>5, <2>6, <2>7 DEF Typed
<1>6. \A r \in Requests : req[r].pc = "idle"
  BY <1>2 DEF NoCall
<1>7. Calls
  BY <1>6 DEF Calls, CallOK
<1>8. InOrder
  BY <1>1, <1>4 DEF InOrder, Known, RevisionsOf, NoJob
<1>9. Unique /\ Origin
  BY <1>1, <1>3, <1>4 DEF Unique, Origin
<1>10. Listed
  BY <1>2 DEF Listed, Resting
<1>11. Stored
  BY <1>1, <1>4, <1>6 DEF Stored, At
<1>12. Standing
  BY <1>1, <1>4 DEF Standing
<1> QED
  BY <1>5, <1>7, <1>8, <1>9, <1>10, <1>11, <1>12 DEF IInv

\* The order of a call's steps, the origin of its revision and job, and the whereabouts of
\* objects hold throughout.
THEOREM InvariantHolds == Spec => []IInv
BY InvInit, InvStep, PTL DEF Spec
-----------------------------------------------------------------------------
(* What follows from it *)

\* An upload makes one revision, however many calls complete it.
THEOREM OneRevisionCorrect == Spec => []OneRevision
<1>1. ASSUME IInv, NEW u \in Uploads
      PROVE  Cardinality(RevisionsOf(u)) <= 1
  <2>1. \A i, j \in RevisionsOf(u) : i = j
    BY <1>1 DEF IInv, Unique, RevisionsOf
  <2>2. CASE RevisionsOf(u) = {}
    BY <2>2, FS_EmptySet
  <2>3. ASSUME NEW i \in RevisionsOf(u)
        PROVE  Cardinality(RevisionsOf(u)) <= 1
    <3>1. RevisionsOf(u) = {i}
      BY <2>1, <2>3
    <3>2. Cardinality({i}) = 1
      BY FS_Singleton
    <3> QED
      BY <3>1, <3>2
  <2> QED
    BY <2>2, <2>3
<1>2. IInv => OneRevision
  BY <1>1 DEF OneRevision
<1> QED
  BY <1>2, InvariantHolds, PTL

\* What a caller of CompleteUpload was told stays true, whatever other calls,
\* retries and the sweep do.
THEOREM AnswersCorrect == Spec => []AnswersHold
<1>1. IInv => AnswersHold
  BY DEF IInv, Calls, CallOK, InOrder, AnswersHold, At, RevisionsOf
<1> QED
  BY <1>1, InvariantHolds, PTL

\* The parse job reads the content of its revision, unless two contents were
\* accepted for the upload.
THEOREM JobMatchesCorrect == Spec => []JobMatchesRevision
<1>1. ASSUME NEW S, IsFiniteSet(S), NEW c \in S, NEW d \in S, c # d
      PROVE  Cardinality(S) > 1
  <2>1. Cardinality(S) \in Nat /\ Cardinality(S) # 0
    BY <1>1, FS_CardinalityType, FS_EmptySet
  <2>2. Cardinality(S) # 1
    BY <1>1, FS_Singleton
  <2> QED
    BY <2>1, <2>2
<1>2. ASSUME IInv, NEW i \in Numbers, NEW u, u = revs[i].upload,
             parse[u].state # "absent", parse[u].content # revs[i].content
      PROVE  Cardinality(accepted[u]) > 1
  <2>1. revs[i].content \in accepted[u] /\ parse[u].content \in accepted[u]
    BY <1>2 DEF IInv, Origin
  <2>2. u \in Uploads
    <3>1. revs[i] \in Row
      BY <1>2, ElementOfSeq DEF IInv, Typed, Numbers
    <3> QED
      BY <1>2, <3>1 DEF Row
  <2>3. IsFiniteSet(accepted[u])
    BY <1>2, <2>2 DEF IInv, Typed
  <2> QED
    BY <1>1, <1>2, <2>1, <2>3
<1>3. IInv => JobMatchesRevision
  BY <1>2 DEF JobMatchesRevision
<1> QED
  BY <1>3, InvariantHolds, PTL

\* The project never stands at a revision that a user deleted, and has a current
\* one as soon as it has any.
THEOREM CurrentCorrect == Spec => []CurrentKept
<1>1. IInv => CurrentKept
  BY DEF IInv, Standing, CurrentKept, Numbers
<1> QED
  BY <1>1, InvariantHolds, PTL

\* The object of a live revision is there, but for a removal that is due, one
\* shared with a revision that is due or removed, and an orphan stored anew.
THEOREM LiveHasSourceCorrect == Spec => []LiveHasSource
<1>1. IInv => LiveHasSource
  BY DEF IInv, Stored, Lost, Taken, LiveHasSource
<1> QED
  BY <1>1, InvariantHolds, PTL
-----------------------------------------------------------------------------
(* The types of the rest *)

\* What TypeOK says and the invariant does not need; whoever names a revision names
\* one there is.
Rest ==
  /\ temp \in [Uploads -> Contents \cup {Nothing}]
  /\ source \subseteq Contents /\ overtaken \subseteq Contents
  /\ expired \subseteq Numbers
  /\ revs = <<>> => current = 0
  /\ \A r \in Requests : req[r].rev \in {0} \cup Numbers
  /\ \A u \in Uploads : named[u] \in {0} \cup Numbers

\* The uploaded objects keep their types.
LEMMA UploadedTyped ==
  ASSUME IInv, Rest, Step
  PROVE  temp' \in [Uploads -> Contents \cup {Nothing}]
<1>1. \/ temp' = temp
      \/ \E u \in Uploads : SweepUpload(u) \/ \E c \in offer : Write(u, c)
      \/ \E r \in Requests : Unlink(r)
  BY DEF Step, Next, Client, Call, Sweeping, CreateUpload, Parse, AgeUpload, DeleteRevision,
         Expire, AgeObject, ListUploads, SweepAbort, ListSources, SweepSource, MarkSource,
         ListOrphans, SweepOrphan, ForgetOrphan, SweepFails,
         StartAbort, Start, Read, Put, CreateRevision, Enqueue, Finish, GiveUp, Abort
<1>2. ASSUME NEW u \in Uploads, NEW c \in Contents \cup {Nothing}, temp' = [temp EXCEPT ![u] = c]
      PROVE  temp' \in [Uploads -> Contents \cup {Nothing}]
  BY <1>2 DEF Rest
<1>3. CASE \E u \in Uploads : SweepUpload(u) \/ \E c \in offer : Write(u, c)
  BY <1>2, <1>3 DEF SweepUpload, Write, IInv, Typed
<1>4. CASE \E r \in Requests : Unlink(r)
  <2>1. PICK r \in Requests : Unlink(r)
    BY <1>4
  <2>2. req[r].up \in Uploads
    BY <2>1 DEF Unlink, At, IInv, Calls, CallOK
  <2> QED
    BY <1>2, <2>1, <2>2 DEF Unlink
<1> QED
  BY <1>1, <1>3, <1>4 DEF Rest

\* A call names the revision it made or found, and an answer that of the session.
LEMMA CallsName ==
  ASSUME IInv, Rest, Step, NEW r \in Requests
  PROVE  req'[r].rev \in {0} \cup Numbers'
<1>0. req \in [Requests -> CallRecord] /\ req[r].rev \in {0} \cup Numbers
  BY DEF IInv, Typed, Rest
<1>g. Numbers \subseteq Numbers'
  BY RevisionSteps DEF IInv
<1>1. CASE req'[r] = req[r]
  BY <1>0, <1>1, <1>g
<1>2. CASE req'[r].pc \in {"enqueue", "finish", "answered"}
  <2>1. CallOK(r)'
    BY CallsStep DEF Calls
  <2>2. req'[r].rev \in RevisionsOf(req[r].up)'
    BY <1>2, <2>1 DEF CallOK
  <2> QED
    BY <2>2 DEF RevisionsOf
<1>3. ASSUME Fail(r) \/ \E u \in Uploads : StartAbort(r, u)
      PROVE  req'[r].rev = 0
  <2>1. CASE Fail(r)
    BY <1>0, <2>1 DEF Fail, NoCall
  <2>2. ASSUME NEW u \in Uploads, StartAbort(r, u)
        PROVE  req'[r].rev = 0
    <3> DEFINE call == [NoCall EXCEPT !.pc = "unlink", !.up = u]
    <3>1. call.rev = 0 /\ req' = [req EXCEPT ![r] = call]
      BY <2>2 DEF StartAbort, NoCall
    <3> HIDE DEF call
    <3> QED
      BY <1>0, <3>1
  <2> QED
    BY <1>3, <2>1, <2>2
<1>4. ASSUME NEW pc, Goto(r, pc)
      PROVE  req'[r].rev = req[r].rev
  BY <1>0, <1>4 DEF Goto, CallRecord
<1>5. ASSUME NEW u, NEW c, Start(r, u, c)
      PROVE  req'[r].rev = 0 \/ req'[r].pc = "answered"
  BY <1>0, <1>5 DEF Start, Answered, NoCall
<1>6. ASSUME Finish(r)
      PROVE  Fail(r) \/ req'[r].pc = "answered"
  BY <1>0, <1>6 DEF Finish, Answered, NoCall
<1>7. ASSUME CreateRevision(r)
      PROVE  req'[r].pc = "enqueue"
  BY <1>0, <1>7 DEF CreateRevision, CallRecord
<1>8. CASE Call(r)
  BY <1>0, <1>2, <1>3, <1>4, <1>5, <1>6, <1>7, <1>8, <1>g
  DEF Call, Read, Put, Enqueue, GiveUp, Unlink, Abort
<1>9. CASE \E q \in Requests \ {r} : Call(q)
  <2>1. PICK q \in Requests \ {r} : Call(q)
    BY <1>9
  <2>2. req'[r] = req[r]
    BY <1>0, <2>1 DEF Call, Fail, Goto, StartAbort, Start, Read, Put, CreateRevision, Enqueue,
                 Finish, GiveUp, Unlink, Abort
  <2> QED
    BY <1>1, <2>2
<1> QED
  BY <1>1, <1>8, <1>9, WhoChangesCalls

\* A session names what the call that completed it did.
LEMMA SessionsName ==
  ASSUME IInv, Rest, Step, NEW u \in Uploads
  PROVE  named'[u] \in {0} \cup Numbers'
<1>1. Numbers \subseteq Numbers'
  BY RevisionSteps DEF IInv
<1>2. named'[u] = named[u] \/ \E r \in Requests : named'[u] = req[r].rev
  BY NamesLast DEF IInv
<1> QED
  BY <1>1, <1>2 DEF Rest

LEMMA RestStep ==
  ASSUME IInv, Rest, Step
  PROVE  Rest'
<1>1. revs \in Seq(Row) /\ revs' \in Seq(Row) /\ \A i \in Numbers : i \in Numbers'
  BY RevisionSteps DEF IInv, Typed
<1>2. source' \subseteq Contents /\ overtaken' \subseteq Contents
  <2>1. CASE \E r \in Requests : Put(r)
    <3>1. PICK r \in Requests : Put(r)
      BY <2>1
    <3>2. req[r].content \in Contents
      <4>1. CallOK(r) /\ req[r].up \in Uploads /\ req[r].pc = "put"
        BY <3>1 DEF Put, At, IInv, Calls, CallOK
      <4>2. accepted[req[r].up] \subseteq Contents /\ req[r].content \in accepted[req[r].up]
        BY <4>1 DEF CallOK, IInv, Typed
      <4> QED
        BY <4>2
    <3> QED
      BY <3>1, <3>2 DEF Put, Rest
  <2> QED
    BY <2>1, WhoChangesObjects
    DEF AgeObject, SweepOrphan, SweepSource, ForgetOrphan, RemoveSource, Rest
<1>3. expired' \subseteq Numbers'
  BY <1>1, WhoChangesExpired DEF DeleteRevision, Expire, MarkSource, Rest
<1>4. revs' = <<>> => current' = 0
  <2> SUFFICES ASSUME revs' = <<>>
               PROVE  current' = 0
    OBVIOUS
  <2>1. Numbers' = {} /\ Numbers = {} /\ revs = <<>>
    BY <1>1, Empty DEF Numbers
  <2>2. CASE \E r \in Requests : CreateRevision(r)
    <3>1. PICK r \in Requests : CreateRevision(r)
      BY <2>2
    <3>2. ~Known(req[r].up)
      BY <2>1 DEF Known, RevisionsOf
    <3> DEFINE row == [upload |-> req[r].up, content |-> req[r].content, state |-> "live"]
    <3>3. revs' = Append(revs, row)
      BY <3>1, <3>2 DEF CreateRevision
    <3> HIDE DEF row
    <3>4. Append(<<>>, row) # <<>>
      OBVIOUS
    <3> QED
      BY <2>1, <3>3, <3>4
  <2>3. CASE MarkSource
    BY <2>1, <2>3 DEF MarkSource, Rest
  <2> QED
    BY <2>1, <2>2, <2>3, WhoChangesRevisions DEF Rest
<1> QED
  BY <1>2, <1>3, <1>4, UploadedTyped, CallsName, SessionsName DEF Rest

\* The variables keep their types: an answer and the project name revisions there are.
THEOREM TypeCorrect == Spec => []TypeOK
<1>1. IInv /\ Rest => TypeOK
  <2> SUFFICES ASSUME IInv, Rest
               PROVE  TypeOK
    OBVIOUS
  <2>1. revs \in Seq(Row) /\ Len(revs) \in Nat /\ (revs # <<>> <=> Numbers # {})
    BY Empty DEF IInv, Typed, Numbers
  <2>2. current \in 0 .. Len(revs)
    BY <2>1 DEF IInv, Standing, Rest, Numbers
  <2>3. /\ \A r \in Requests : req[r].rev \in 0 .. Len(revs)
        /\ named \in [Uploads -> 0 .. Len(revs)]
    BY <2>1 DEF IInv, Typed, Rest, Numbers
  <2> QED
    BY <2>1, <2>2, <2>3 DEF IInv, Typed, Listed, Rest, TypeOK, Row
<1>2. Init => IInv /\ Rest
  <2> SUFFICES ASSUME Init
               PROVE  Rest
    BY InvInit
  <2>1. Len(<<>>) = 0
    OBVIOUS
  <2>2. \A u \in Uploads : named[u] = 0 \/ session[u] = "completed"
    BY DEF Init
  <2>3. \A u \in Uploads : session[u] = "completed" => named[u] \in Numbers
    BY InvInit DEF IInv, InOrder, RevisionsOf
  <2>4. \A u \in Uploads : named[u] \in {0} \cup Numbers
    BY <2>2, <2>3
  <2>5. \A r \in Requests : req[r].rev \in {0} \cup Numbers
    BY DEF Init, NoCall
  <2>6. /\ temp \in [Uploads -> Contents \cup {Nothing}]
        /\ source \subseteq Contents /\ overtaken \subseteq Contents
        /\ expired \subseteq Numbers
        /\ revs = <<>> => current = 0
    BY <2>1 DEF Init
  <2> QED
    BY <2>4, <2>5, <2>6 DEF Rest
<1>3. IInv /\ Rest /\ [Next]_vars => IInv' /\ Rest'
  BY InvStep, RestStep DEF Step
<1> QED
  BY <1>1, <1>2, <1>3, PTL DEF Spec
=============================================================================
