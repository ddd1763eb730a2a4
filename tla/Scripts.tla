------------------------------- MODULE Scripts -------------------------------
(***************************************************************************)
(* The narration script of one slide and the speech made from it: the      *)
(* store (internal/narration/postgres.go), the callers that read a script  *)
(* and save it under its revision number, the reviewer who approves or     *)
(* locks it, and a narration job that pins a revision, speaks the text and *)
(* marks the script as voiced (internal/app/narration.go).                 *)
(*                                                                         *)
(* Each source version has its own row; version 0 is the legacy row, read  *)
(* when the version has none and copied into it by the first write.        *)
(* Transactions are READ COMMITTED, so every statement is a step of its    *)
(* own where another transaction can come between.  A statement that waits *)
(* for a lock is enabled once the holder has ended, so Commit stands for   *)
(* the waits, the inserts, the bump and the commit; an insert that meets a *)
(* unique key, a lost connection and a crash are all GiveUp.               *)
(***************************************************************************)
EXTENDS Naturals, FiniteSets

CONSTANTS Callers,   \* web requests and draft pages at work on the slide
          Narrator,  \* the worker with a narration job
          Crews,     \* which of them work at the same time
          SegIds,    \* segment ids, unique within a script
          MaxWrites  \* bound on the number of saves

ASSUME ScriptsAssumption ==
  MaxWrites \in Nat /\ Narrator \notin Callers /\ Crews \subseteq SUBSET (Callers \cup {Narrator})

VARIABLES row,     \* row[v]: the script of source version v
          call,    \* call[c]: what a caller has read and what it is about to do
          job,     \* the narration job
          voiced,  \* versions whose text is the one spoken by the job that marked them last
          mixed,   \* versions whose mark or text was taken from a changing legacy row
          cleared, \* versions whose text was on the page when a reviewer approved or locked it
          writes,  \* saves committed so far; numbers the texts
          crew     \* the actors of this behaviour

vars == <<row, call, job, voiced, mixed, cleared, writes, crew>>

Versions == {0, 1}
Kinds == {"editor", "drafter", "reviewer"}
Segments == [id : SegIds, write : 0..MaxWrites]
Confirmed == {"approved", "locked"}
Rows == [rev : Nat, status : {"none", "draft"} \cup Confirmed, audio : Nat, segs : SUBSET Segments]

NoRow == [rev |-> 0, status |-> "none", audio |-> 0, segs |-> {}]
Exists(v) == row[v].status # "none"

\* loadScriptTx: the row of the version, or else the legacy row
Source(v) == IF Exists(v) THEN v ELSE 0

\* pc: "idle", "opened" (row read), "absent" (Get found nothing), "ready" (about to call
\* Update), "checked" (revision compared), "deleted", "forked" (legacy row copied by Update),
\* "forking" (legacy row read by SetStatus).  blind: the caller's Get found no script;
\* at: the revision of the row when Update checked it.
NoCall == [pc |-> "idle", kind |-> "editor", ver |-> 0, src |-> 0, rev |-> 0, audio |-> 0,
           base |-> {}, over |-> FALSE, blind |-> FALSE, at |-> 0, snap |-> {}, from |-> "none", to |-> "none"]

NoJob == [pc |-> "none", ver |-> 0, src |-> 0, rev |-> 0, strict |-> FALSE,
          text |-> {}, torn |-> FALSE, agreed |-> FALSE]

\* a slide without a script, or with one from before scripts had versions
Init ==
  /\ row \in {[v \in Versions |-> NoRow],
              [v \in Versions |-> IF v = 0
                 THEN [rev |-> 1, status |-> "draft", audio |-> 1,
                       segs |-> [id : SegIds, write : {0}]]
                 ELSE NoRow]}
  /\ call = [c \in Callers |-> NoCall]
  /\ job = NoJob
  /\ voiced = {0}
  /\ mixed = {}
  /\ cleared = {}
  /\ writes = 0
  /\ crew \in Crews

Spoken == <<job, voiced, mixed>>

\* an uncommitted copy of the legacy row holds the unique key of the version
Copying(v) == {c \in Callers : call[c].pc \in {"forked", "forking"} /\ call[c].ver = v}

(* ---- Get, Update and EnsureExists --------------------------------------- *)

\* Get reads the script's row, and its segments in a second statement
Open(c) ==
  /\ c \in crew /\ call[c].pc = "idle"
  /\ writes < MaxWrites
  /\ \E k \in {"editor", "drafter"}, v \in Versions, o \in BOOLEAN :
       LET s == Source(v) IN
       /\ o => k = "drafter"
       /\ Exists(s) \/ k = "drafter"
       /\ call' = [call EXCEPT ![c] =
            [NoCall EXCEPT !.pc = IF Exists(s) THEN "opened" ELSE "absent",
               !.kind = k, !.ver = v, !.src = s, !.rev = row[s].rev,
               !.over = o, !.blind = ~Exists(s)]]
  /\ UNCHANGED <<row, Spoken, cleared, writes, crew>>

\* the draft page leaves a script that has segments alone unless told to overwrite
Skips(c) == call[c].kind = "drafter" /\ ~call[c].over /\ row[call[c].src].segs # {}

Load(c) ==
  /\ call[c].pc = "opened"
  /\ call' = [call EXCEPT ![c] = IF Skips(c) THEN NoCall
       ELSE [call[c] EXCEPT !.pc = "ready", !.base = row[call[c].src].segs]]
  /\ UNCHANGED <<row, Spoken, cleared, writes, crew>>

\* the draft page found no script and has a text to write by now
EnsureExists(c) ==
  LET v == call[c].ver
      r == IF Exists(v) THEN row[v] ELSE [NoRow EXCEPT !.status = "draft"] IN
  /\ call[c].pc = "absent"
  /\ Copying(v) = {}
  /\ row' = [row EXCEPT ![v] = r]
  /\ call' = [call EXCEPT ![c].pc = "ready", ![c].rev = r.rev]
  /\ UNCHANGED <<Spoken, cleared, writes, crew>>

\* Mutant: the expected revision is not compared.
UpdateChecksNothing(c) ==
  /\ call[c].pc = "ready"
  /\ Exists(call[c].ver)
  /\ call' = [call EXCEPT ![c].pc = "checked", ![c].at = row[call[c].ver].rev]
  /\ UNCHANGED <<row, Spoken, cleared, writes, crew>>

\* Update loads the exact row without locking it and compares the revision ...
UpdateChecks(c) ==
  LET v == call[c].ver IN
  /\ call[c].pc = "ready"
  /\ Exists(v)
  /\ call' = [call EXCEPT ![c] = IF row[v].rev = call[c].rev
                THEN [call[c] EXCEPT !.pc = "checked", !.at = row[v].rev] ELSE NoCall]
  /\ UNCHANGED <<row, Spoken, cleared, writes, crew>>

\* ... or copies the legacy row, waiting for another copy to end
UpdateForks(c) ==
  /\ call[c].pc = "ready"
  /\ call[c].ver # 0 /\ ~Exists(call[c].ver) /\ Exists(0)
  /\ Copying(call[c].ver) = {}
  /\ call' = [call EXCEPT ![c] = IF row[0].rev = call[c].rev
                THEN [call[c] EXCEPT !.pc = "forked", !.at = row[0].rev, !.audio = row[0].audio]
                ELSE NoCall]
  /\ UNCHANGED <<row, Spoken, cleared, writes, crew>>

\* DELETE finds the segments committed when it starts
Delete(c) ==
  /\ call[c].pc = "checked"
  /\ call' = [call EXCEPT ![c].pc = "deleted", ![c].snap = row[call[c].ver].segs]
  /\ UNCHANGED <<row, Spoken, cleared, writes, crew>>

\* the segments that stay: those another transaction committed after the DELETE started
Left(c) == IF call[c].pc = "forked" THEN {} ELSE row[call[c].ver].segs \ call[c].snap

\* the row as it is when UPDATE revision = revision + 1 gets its lock
Before(c) ==
  IF call[c].pc = "forked" THEN [NoRow EXCEPT !.rev = call[c].at, !.audio = call[c].audio]
                           ELSE row[call[c].ver]

\* a draft page writes one segment, an editor any list, the empty one too
Pages(k) == IF k = "drafter" THEN {{s} : s \in SegIds} ELSE SUBSET SegIds

\* Mutant: a save leaves the status as it was.
SavedKeepsStatus(r, segs) == [r EXCEPT !.rev = @ + 1, !.segs = segs]

Saved(r, segs) == [rev |-> r.rev + 1, status |-> "draft", audio |-> r.audio, segs |-> segs]

Commit(c) ==
  /\ call[c].pc \in {"deleted", "forked"}
  /\ writes < MaxWrites
  /\ \E ids \in Pages(call[c].kind) :
       /\ \A s \in Left(c) : s.id \notin ids
       /\ row' = [row EXCEPT ![call[c].ver] = Saved(Before(c),
                    Left(c) \cup [id : ids, write : {writes + 1}])]
  /\ writes' = writes + 1
  /\ call' = [call EXCEPT ![c] = NoCall]
  /\ voiced' = voiced \ {call[c].ver}
  /\ cleared' = cleared \ {call[c].ver}
  /\ UNCHANGED <<job, mixed, crew>>

\* an error, a crash, or a user who leaves the page: the transaction is rolled back
GiveUp(c) ==
  /\ call[c].pc # "idle"
  /\ call' = [call EXCEPT ![c] = NoCall]
  /\ UNCHANGED <<row, Spoken, cleared, writes, crew>>

(* ---- SetStatus ------------------------------------------------------------ *)

From(to) == {"draft"} \cup (Confirmed \ {to})

\* no expected revision: the status changes whatever the text has become
SetStatus(c) ==
  /\ c \in crew /\ call[c].pc = "idle"
  /\ \E v \in Versions, to \in Confirmed :
       /\ row[v].status \in From(to)
       /\ row' = [row EXCEPT ![v].status = to]
       /\ cleared' = cleared \cup {v}
  /\ UNCHANGED <<call, Spoken, writes, crew>>

\* SetStatus copies the legacy row, then its segments in a second statement
StatusForks(c) ==
  /\ c \in crew /\ call[c].pc = "idle"
  /\ \E v \in Versions \ {0}, to \in Confirmed :
       /\ ~Exists(v) /\ Exists(0)
       /\ Copying(v) = {}
       /\ call' = [call EXCEPT ![c] =
            [NoCall EXCEPT !.pc = "forking", !.kind = "reviewer", !.ver = v, !.rev = row[0].rev,
               !.audio = row[0].audio, !.from = row[0].status, !.to = to]]
  /\ UNCHANGED <<row, Spoken, cleared, writes, crew>>

StatusCommits(c) ==
  LET a == call[c] IN
  /\ a.pc = "forking"
  /\ a.from \in From(a.to)
  /\ row' = [row EXCEPT ![a.ver] =
       [rev |-> a.rev, status |-> a.to, audio |-> a.audio, segs |-> row[0].segs]]
  /\ cleared' = cleared \cup {a.ver}
  /\ call' = [call EXCEPT ![c] = NoCall]
  /\ voiced' = IF 0 \in voiced THEN voiced \cup {a.ver} ELSE voiced
  /\ mixed' = IF row[0].rev = a.rev THEN mixed ELSE mixed \cup {a.ver}
  /\ UNCHANGED <<job, writes, crew>>

(* ---- the narration job ---------------------------------------------------- *)

Unsaid == <<row, call, voiced, mixed, cleared, writes, crew>>

\* CreateGeneration pins the revision it reads
Pin ==
  /\ Narrator \in crew /\ job.pc = "none"
  /\ \E v \in Versions, strict \in BOOLEAN :
       LET s == Source(v) IN
       /\ Exists(s)
       /\ strict => row[s].status \in Confirmed
       /\ job' = [NoJob EXCEPT !.pc = "queued", !.ver = v, !.rev = row[s].rev, !.strict = strict]
  /\ UNCHANGED Unsaid

\* the worker reads the row again and gives up when it is not the one pinned
Take ==
  /\ job.pc = "queued"
  /\ LET s == Source(job.ver) IN
       job' = IF row[s].rev = job.rev /\ (job.strict => row[s].status \in Confirmed)
                THEN [job EXCEPT !.pc = "taken", !.src = s] ELSE NoJob
  /\ UNCHANGED Unsaid

\* ... and the segments, whose text it speaks
Speak ==
  /\ job.pc = "taken"
  /\ job' = IF row[job.src].segs = {} THEN NoJob
            ELSE [job EXCEPT !.pc = "spoken", !.text = row[job.src].segs,
                             !.torn = row[job.src].rev # job.rev,
                             !.agreed = job.src \in cleared]
  /\ UNCHANGED Unsaid

\* Mutant: the mark is the revision the row has by now.
MarkLatest ==
  /\ job.pc = "spoken"
  /\ row' = [row EXCEPT ![job.ver].audio = row[job.ver].rev]
  /\ voiced' = IF job.text = row[job.ver].segs THEN voiced \cup {job.ver} ELSE voiced \ {job.ver}
  /\ mixed' = IF Exists(job.ver) /\ job.src # job.ver THEN mixed \cup {job.ver} ELSE mixed
  /\ job' = [NoJob EXCEPT !.pc = "marked", !.ver = job.ver, !.rev = job.rev, !.strict = job.strict]
  /\ UNCHANGED <<call, cleared, writes, crew>>

\* once the timeline is out the script's own row is marked, if there is one
Mark ==
  /\ job.pc = "spoken"
  /\ row' = [row EXCEPT ![job.ver].audio = IF Exists(job.ver) THEN job.rev ELSE @]
  /\ voiced' = IF job.text = row[job.ver].segs THEN voiced \cup {job.ver} ELSE voiced \ {job.ver}
  /\ mixed' = IF Exists(job.ver) /\ job.src # job.ver THEN mixed \cup {job.ver} ELSE mixed
  /\ job' = [NoJob EXCEPT !.pc = "marked", !.ver = job.ver, !.rev = job.rev, !.strict = job.strict]
  /\ UNCHANGED <<call, cleared, writes, crew>>

\* a crash or a retryable error: the job starts over
Restart ==
  /\ job.pc \in {"taken", "spoken", "marked"}
  /\ job' = [NoJob EXCEPT !.pc = "queued", !.ver = job.ver, !.rev = job.rev, !.strict = job.strict]
  /\ UNCHANGED Unsaid

\* the job ends: it succeeds, after the mark or (adjusted rate, failed mark) without, or fails
End ==
  /\ job.pc # "none"
  /\ job' = NoJob
  /\ UNCHANGED Unsaid

Update(c) == UpdateChecks(c) \/ UpdateForks(c) \/ Delete(c) \/ Commit(c)
Review(c) == SetStatus(c) \/ StatusForks(c) \/ StatusCommits(c)
Narrate == Pin \/ Take \/ Speak \/ Mark \/ Restart \/ End

Next ==
  \/ \E c \in Callers : Open(c) \/ Load(c) \/ EnsureExists(c) \/ Update(c) \/ Review(c) \/ GiveUp(c)
  \/ Narrate

Spec == Init /\ [][Next]_vars

(* ---- properties -------------------------------------------------------------- *)

Calls == [pc : {"idle", "opened", "absent", "ready", "checked", "deleted", "forked", "forking"},
          kind : Kinds, ver : Versions, src : Versions, rev : Nat, audio : Nat, base : SUBSET Segments,
          over : BOOLEAN, blind : BOOLEAN, at : Nat, snap : SUBSET Segments,
          from : {"none", "draft"} \cup Confirmed, to : {"none"} \cup Confirmed]

JobPcs == {"none", "queued", "taken", "spoken", "marked"}

\* Rows, callers, the job and the number of saves have the values the code gives them.
TypeOK ==
  /\ row \in [Versions -> Rows]
  /\ call \in [Callers -> Calls]
  /\ job \in [pc : JobPcs, ver : Versions, src : Versions, rev : Nat, strict : BOOLEAN,
              text : SUBSET Segments, torn : BOOLEAN, agreed : BOOLEAN]
  /\ writes \in 0..MaxWrites
  /\ voiced \subseteq Versions /\ mixed \subseteq Versions /\ cleared \subseteq Versions

\* The saves of caller c in a step.
Saves(c) == call[c].pc \in {"deleted", "forked"} /\ writes' # writes /\ call'[c].pc = "idle"
Target(c) == IF call[c].pc = "forked" THEN 0 ELSE call[c].ver
Replaced(c) == row[Target(c)].segs

Raced(c) == row[Target(c)].rev # call[c].at

\* A save replaces the text its author has read, with three exceptions: another save was
\* committed between the check of the revision and the commit; a draft page found no script,
\* and one was written while it composed its text; the author had read the legacy row.
NoSilentOverwrite ==
  [][\A c \in Callers : Saves(c) =>
       \/ Replaced(c) = call[c].base
       \/ Raced(c)
       \/ call[c].blind
       \/ call[c].src # call[c].ver]_vars

\* "Segments exist already, the user's text is not overwritten (only an explicit regeneration
\* does, with overwrite = true)" (scriptdraft.go:505): the save of a draft page that met no
\* concurrent transaction and was not told to overwrite replaces nothing.
UserTextKept ==
  [][\A c \in Callers :
       Saves(c) /\ call[c].kind = "drafter" /\ ~call[c].over /\ ~Raced(c)
       => Replaced(c) = {}]_vars

\* A script that shows as voiced (audio_revision has reached revision) was last marked for the
\* text it holds, unless the job had read the legacy row for want of one of the version.
FreshIsVoiced ==
  \A v \in Versions :
    Exists(v) /\ v \notin mixed /\ row[v].rev > 0 /\ row[v].audio >= row[v].rev
    => v \in voiced

\* A job for confirmed scripts only speaks a text that a reviewer approved as it stands,
\* unless a save was committed between its two reads.
ConfirmedSpoken ==
  job.pc = "spoken" /\ job.strict => job.torn \/ job.agreed
=============================================================================
