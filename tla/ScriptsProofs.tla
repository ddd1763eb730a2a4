---------------------------- MODULE ScriptsProofs ----------------------------
(***************************************************************************)
(* What the store of narration scripts keeps for any number of callers,    *)
(* saves and segments: a save replaces what its author has read, a script  *)
(* that shows as voiced was voiced with its text, and a job for confirmed  *)
(* scripts speaks confirmed text, up to the races the properties name.     *)
(*                                                                         *)
(* Every save raises the revision, so a caller or job whose revision is    *)
(* still the row's has read the row's text.  The copy of a legacy row is   *)
(* made by one caller at a time and only while the version has no row.     *)
(***************************************************************************)
EXTENDS Scripts, TLAPS

\* A caller that goes by a row it has found.
Reads(c) == call[c].pc \in {"opened", "ready", "checked", "deleted", "forked"} /\ ~call[c].blind

\* What callers know of the rows.
Known ==
  \A c \in Callers :
    /\ Reads(c) => Exists(call[c].src) /\ call[c].rev <= row[call[c].src].rev
    /\ Reads(c) /\ call[c].pc \in {"ready", "checked", "deleted"}
         /\ row[call[c].src].rev = call[c].rev => row[call[c].src].segs = call[c].base
    /\ call[c].pc \in {"checked", "deleted"} => Exists(call[c].ver) /\ call[c].at = call[c].rev
    /\ call[c].pc = "forked" /\ ~call[c].blind => call[c].src # call[c].ver
    /\ call[c].pc = "absent" => call[c].blind

\* The copies of legacy rows.
Copies ==
  \A c \in Callers : call[c].pc \in {"forked", "forking"} =>
    /\ call[c].ver # 0 /\ ~Exists(call[c].ver) /\ Exists(0)
    /\ \A d \in Callers :
         call[d].pc \in {"forked", "forking"} /\ call[d].ver = call[c].ver => d = c

\* The marks, and those on their way into a copy.
Marks ==
  /\ 0 \notin mixed
  /\ \A v \in Versions \ mixed : row[v].audio <= row[v].rev
  /\ \A c \in Callers : call[c].pc = "forked" => call[c].audio <= call[c].at
  /\ \A c \in Callers : call[c].pc = "forking" =>
       /\ call[c].rev <= row[0].rev /\ call[c].audio <= call[c].rev
       /\ row[0].rev = call[c].rev => call[c].audio <= row[0].audio
       /\ row[0].rev = call[c].rev /\ call[c].rev > 0 /\ call[c].audio >= call[c].rev => 0 \in voiced

\* What the narration job knows of the row it reads.
Narrated ==
  /\ job.pc # "none" => Exists(job.ver) \/ Exists(0)
  /\ job.pc \in {"taken", "spoken"} =>
       /\ job.ver = 0 => job.src = 0
       /\ Exists(job.src) /\ job.rev <= row[job.src].rev
       /\ job.src \notin mixed => row[job.src].audio <= job.rev
       /\ job.pc = "spoken" /\ row[job.src].rev = job.rev => job.text = row[job.src].segs

\* A confirmed text is one a reviewer has had before them.
Reviewed ==
  /\ \A v \in Versions : row[v].status \in Confirmed => v \in cleared
  /\ job.pc = "taken" /\ job.strict /\ row[job.src].rev = job.rev => job.src \in cleared

IInv == TypeOK /\ Known /\ Copies /\ Marks /\ Narrated /\ Reviewed /\ FreshIsVoiced /\ ConfirmedSpoken

LEMMA InitInv == Init => IInv
  <1> SUFFICES ASSUME Init PROVE IInv
    OBVIOUS
  <1>1. row \in [Versions -> Rows]
    <2>1. [id : SegIds, write : {0}] \in SUBSET Segments
      BY ScriptsAssumption DEF Segments, ScriptsAssumption
    <2>2. [rev |-> 1, status |-> "draft", audio |-> 1, segs |-> [id : SegIds, write : {0}]] \in Rows
      BY <2>1 DEF Rows
    <2>3. NoRow \in Rows
      BY DEF Rows, NoRow
    <2> QED BY <2>2, <2>3 DEF Init, Versions
  <1>2. TypeOK
    <2>1. NoCall \in Calls
      BY DEF NoCall, Calls, Kinds, Versions
    <2>2. NoJob \in [pc : JobPcs, ver : Versions, src : Versions, rev : Nat, strict : BOOLEAN,
                      text : SUBSET Segments, torn : BOOLEAN, agreed : BOOLEAN]
      BY DEF NoJob, JobPcs, Versions
    <2>3. call \in [Callers -> Calls]
      BY <2>1 DEF Init
    <2>4. writes \in 0..MaxWrites
      BY ScriptsAssumption DEF Init, ScriptsAssumption
    <2> QED BY <1>1, <2>2, <2>3, <2>4 DEF Init, TypeOK, Versions
  <1>3. Known /\ Copies /\ Narrated
    BY DEF Init, Known, Copies, Narrated, Reads, NoCall, NoJob
  <1>4. Marks /\ FreshIsVoiced
    BY DEF Init, Marks, FreshIsVoiced, NoCall, NoRow, Versions, Exists
  <1>5. Reviewed /\ ConfirmedSpoken
    BY DEF Init, Reviewed, ConfirmedSpoken, NoJob, NoRow, Confirmed
  <1> QED BY <1>2, <1>3, <1>4, <1>5 DEF IInv
-----------------------------------------------------------------------------
(* Steps that change one caller and no row *)

\* What a step of caller c keeps when it changes nothing but c's call.
LEMMA CallOnly ==
  ASSUME IInv, NEW c \in Callers, NEW a \in Calls,
         call' = [call EXCEPT ![c] = a],
         UNCHANGED <<row, Spoken, cleared, writes, crew>>,
         a.pc # "forking",
         a.pc \in {"opened", "ready", "checked", "deleted", "forked"} /\ ~a.blind =>
           /\ Exists(a.src) /\ a.rev <= row[a.src].rev
           /\ a.pc \in {"ready", "checked", "deleted"} /\ row[a.src].rev = a.rev
                => row[a.src].segs = a.base,
         a.pc \in {"checked", "deleted"} => Exists(a.ver) /\ a.at = a.rev,
         a.pc = "absent" => a.blind,
         a.pc = "forked" => /\ ~a.blind => a.src # a.ver
                            /\ a.ver # 0 /\ ~Exists(a.ver) /\ Exists(0) /\ Copying(a.ver) = {}
                            /\ a.audio <= a.at
  PROVE  IInv'
  <1>1. TypeOK'
    BY DEF IInv, TypeOK, Spoken
  <1>2. Known'
    BY DEF IInv, TypeOK, Known, Reads, Exists
  <1>3. Copies'
    BY DEF IInv, TypeOK, Copies, Copying, Exists
  <1>4. Marks'
    BY DEF IInv, TypeOK, Marks, Spoken
  <1>5. Narrated' /\ Reviewed' /\ FreshIsVoiced' /\ ConfirmedSpoken'
    BY DEF IInv, Narrated, Reviewed, FreshIsVoiced, ConfirmedSpoken, Spoken, Exists
  <1> QED BY <1>1, <1>2, <1>3, <1>4, <1>5 DEF IInv

LEMMA NoCallType == NoCall \in Calls /\ NoCall.pc = "idle"
  BY DEF NoCall, Calls, Kinds, Versions

LEMMA OpenInv ==
  ASSUME IInv, NEW c \in Callers, Open(c)
  PROVE  IInv'
  <1>1. PICK k \in {"editor", "drafter"}, v \in Versions, o \in BOOLEAN :
          call' = [call EXCEPT ![c] =
            [NoCall EXCEPT !.pc = IF Exists(Source(v)) THEN "opened" ELSE "absent",
               !.kind = k, !.ver = v, !.src = Source(v), !.rev = row[Source(v)].rev,
               !.over = o, !.blind = ~Exists(Source(v))]]
    BY DEF Open
  <1> DEFINE a == [NoCall EXCEPT !.pc = IF Exists(Source(v)) THEN "opened" ELSE "absent",
                     !.kind = k, !.ver = v, !.src = Source(v), !.rev = row[Source(v)].rev,
                     !.over = o, !.blind = ~Exists(Source(v))]
  <1>2. Source(v) \in Versions /\ row[Source(v)].rev \in Nat
    BY DEF Source, Versions, IInv, TypeOK, Rows
  <1>3. Exists(Source(v)) \in BOOLEAN
    BY DEF Exists
  <1>4. a \in Calls
    BY <1>2, <1>3 DEF Calls, NoCall, Kinds
  <1>5. a.pc = (IF Exists(Source(v)) THEN "opened" ELSE "absent") /\ a.src = Source(v)
        /\ a.rev = row[Source(v)].rev
    BY DEF NoCall
  <1>6. UNCHANGED <<row, Spoken, cleared, writes, crew>>
    BY DEF Open
  <1>7. call' = [call EXCEPT ![c] = a]
    BY <1>1
  <1>8. a.pc \in {"opened", "ready", "checked", "deleted", "forked"} =>
          Exists(a.src) /\ a.rev <= row[a.src].rev
    BY <1>2, <1>5
  <1>9. /\ a.pc \notin {"ready", "checked", "deleted", "forked", "forking"}
        /\ a.pc = "absent" => a.blind
    <2>1. CASE Exists(Source(v))
      BY <1>5, <2>1
    <2>2. CASE ~Exists(Source(v))
      <3>1. a.blind
        BY <2>2 DEF NoCall
      <3> QED BY <1>5, <2>2, <3>1
    <2> QED BY <2>1, <2>2
  <1> HIDE DEF a
  <1> QED BY <1>4, <1>6, <1>7, <1>8, <1>9, CallOnly

LEMMA LoadInv ==
  ASSUME IInv, NEW c \in Callers, Load(c)
  PROVE  IInv'
  <1> DEFINE a == IF Skips(c) THEN NoCall
                  ELSE [call[c] EXCEPT !.pc = "ready", !.base = row[call[c].src].segs]
  <1>1. call[c] \in Calls /\ call[c].src \in Versions
    BY DEF IInv, TypeOK, Calls
  <1>2. row[call[c].src].segs \in SUBSET Segments
    BY <1>1 DEF IInv, TypeOK, Rows
  <1>3. a \in Calls
    BY <1>1, <1>2, NoCallType DEF Calls
  <1>4. \/ a = NoCall
        \/ /\ a.pc = "ready" /\ a.src = call[c].src /\ a.rev = call[c].rev
           /\ a.blind = call[c].blind /\ a.base = row[call[c].src].segs
    BY <1>1 DEF Calls
  <1>5. call[c].pc = "opened" /\ call' = [call EXCEPT ![c] = a]
        /\ UNCHANGED <<row, Spoken, cleared, writes, crew>>
    BY DEF Load
  <1>6. ~call[c].blind => Exists(call[c].src) /\ call[c].rev <= row[call[c].src].rev
    BY <1>5 DEF IInv, Known, Reads
  <1> HIDE DEF a
  <1> QED BY <1>3, <1>4, <1>5, <1>6, NoCallType, CallOnly

LEMMA UpdateChecksInv ==
  ASSUME IInv, NEW c \in Callers, UpdateChecks(c)
  PROVE  IInv'
  <1> DEFINE a == IF row[call[c].ver].rev = call[c].rev
                  THEN [call[c] EXCEPT !.pc = "checked", !.at = row[call[c].ver].rev] ELSE NoCall
  <1>1. call[c] \in Calls /\ call[c].ver \in Versions
    BY DEF IInv, TypeOK, Calls
  <1>2. row[call[c].ver].rev \in Nat
    BY <1>1 DEF IInv, TypeOK, Rows
  <1>3. a \in Calls
    BY <1>1, <1>2, NoCallType DEF Calls
  <1>4. \/ a = NoCall
        \/ /\ a.pc = "checked" /\ a.src = call[c].src /\ a.rev = call[c].rev /\ a.ver = call[c].ver
           /\ a.blind = call[c].blind /\ a.base = call[c].base /\ a.at = a.rev
    BY <1>1 DEF Calls
  <1>5. /\ call[c].pc = "ready" /\ Exists(call[c].ver) /\ call' = [call EXCEPT ![c] = a]
        /\ UNCHANGED <<row, Spoken, cleared, writes, crew>>
    BY DEF UpdateChecks
  <1>6. ~call[c].blind =>
          /\ Exists(call[c].src) /\ call[c].rev <= row[call[c].src].rev
          /\ row[call[c].src].rev = call[c].rev => row[call[c].src].segs = call[c].base
    BY <1>5 DEF IInv, Known, Reads
  <1> HIDE DEF a
  <1> QED BY <1>3, <1>4, <1>5, <1>6, NoCallType, CallOnly

LEMMA UpdateForksInv ==
  ASSUME IInv, NEW c \in Callers, UpdateForks(c)
  PROVE  IInv'
  <1> DEFINE a == IF row[0].rev = call[c].rev
                  THEN [call[c] EXCEPT !.pc = "forked", !.at = row[0].rev, !.audio = row[0].audio]
                  ELSE NoCall
  <1>1. call[c] \in Calls /\ 0 \in Versions
    BY DEF IInv, TypeOK, Calls, Versions
  <1>2. row[0].rev \in Nat /\ row[0].audio \in Nat
    BY <1>1 DEF IInv, TypeOK, Rows
  <1>3. a \in Calls
    BY <1>1, <1>2, NoCallType DEF Calls
  <1>4. \/ a = NoCall
        \/ /\ a.pc = "forked" /\ a.src = call[c].src /\ a.rev = call[c].rev /\ a.ver = call[c].ver
           /\ a.blind = call[c].blind /\ a.audio = row[0].audio /\ a.at = row[0].rev
    BY <1>1 DEF Calls
  <1>5. /\ call[c].pc = "ready" /\ call[c].ver # 0 /\ ~Exists(call[c].ver) /\ Exists(0)
        /\ Copying(call[c].ver) = {} /\ call' = [call EXCEPT ![c] = a]
        /\ UNCHANGED <<row, Spoken, cleared, writes, crew>>
    BY DEF UpdateForks
  <1>6. ~call[c].blind =>
          Exists(call[c].src) /\ call[c].rev <= row[call[c].src].rev
    BY <1>5 DEF IInv, Known, Reads
  <1>7. row[0].audio <= row[0].rev
    BY <1>1 DEF IInv, Marks
  <1> HIDE DEF a
  <1> QED BY <1>3, <1>4, <1>5, <1>6, <1>7, NoCallType, CallOnly

LEMMA DeleteInv ==
  ASSUME IInv, NEW c \in Callers, Delete(c)
  PROVE  IInv'
  <1> DEFINE a == [call[c] EXCEPT !.pc = "deleted", !.snap = row[call[c].ver].segs]
  <1>1. call[c] \in Calls /\ call[c].ver \in Versions
    BY DEF IInv, TypeOK, Calls
  <1>2. row[call[c].ver].segs \in SUBSET Segments
    BY <1>1 DEF IInv, TypeOK, Rows
  <1>3. a \in Calls
    BY <1>1, <1>2 DEF Calls
  <1>4. /\ a.pc = "deleted" /\ a.src = call[c].src /\ a.rev = call[c].rev /\ a.ver = call[c].ver
        /\ a.blind = call[c].blind /\ a.base = call[c].base /\ a.at = call[c].at
    BY <1>1 DEF Calls
  <1>5. /\ call[c].pc = "checked" /\ call' = [call EXCEPT ![c] = a]
        /\ UNCHANGED <<row, Spoken, cleared, writes, crew>>
    BY <1>1 DEF Delete, IInv, TypeOK, Calls
  <1>6. /\ Exists(call[c].ver) /\ call[c].at = call[c].rev
        /\ ~call[c].blind =>
          /\ Exists(call[c].src) /\ call[c].rev <= row[call[c].src].rev
          /\ row[call[c].src].rev = call[c].rev => row[call[c].src].segs = call[c].base
    BY <1>5 DEF IInv, Known, Reads
  <1> HIDE DEF a
  <1> QED BY <1>3, <1>4, <1>5, <1>6, CallOnly

LEMMA GiveUpInv ==
  ASSUME IInv, NEW c \in Callers, GiveUp(c)
  PROVE  IInv'
  BY NoCallType, CallOnly DEF GiveUp
-----------------------------------------------------------------------------
(* Steps that change a row *)

LEMMA EnsureExistsInv ==
  ASSUME IInv, NEW c \in Callers, EnsureExists(c)
  PROVE  IInv'
  <1> DEFINE v == call[c].ver
             r == IF Exists(v) THEN row[v] ELSE [NoRow EXCEPT !.status = "draft"]
             a == [call[c] EXCEPT !.pc = "ready", !.rev = r.rev]
  <1>1. call[c] \in Calls /\ v \in Versions /\ row[v] \in Rows /\ TypeOK
    BY DEF IInv, TypeOK, Calls
  <1>2. r \in Rows
    BY <1>1 DEF Rows, NoRow, Confirmed
  <1>3. a \in Calls /\ a.pc = "ready" /\ a.blind = call[c].blind
    <2>1. r.rev \in Nat
      BY <1>2 DEF Rows
    <2> HIDE DEF r
    <2> QED BY <1>1, <2>1 DEF Calls
  <1>4. /\ Exists(v) => r = row[v]
        /\ ~Exists(v) => r.rev = 0 /\ r.audio = 0 /\ r.status = "draft"
    BY DEF NoRow
  <1>5. /\ call[c].pc = "absent" /\ Copying(v) = {}
        /\ row' = [row EXCEPT ![v] = r] /\ call' = [call EXCEPT ![c] = a]
        /\ UNCHANGED <<Spoken, cleared, writes, crew>>
    <2>1. call' = [call EXCEPT ![c].pc = "ready", ![c].rev = r.rev]
      BY DEF EnsureExists
    <2>2. call' = [call EXCEPT ![c] = a]
      <3> HIDE DEF r
      <3> QED BY <1>1, <2>1 DEF TypeOK, Calls
    <2> QED BY <2>2 DEF EnsureExists
  <1> HIDE DEF v, r, a
  <1>6. TypeOK'
    BY <1>1, <1>2, <1>3, <1>5 DEF TypeOK, Spoken
  <1>7. r.status # "none"
    BY <1>4 DEF Exists
  <1>a. \A w \in Versions : Exists(w) => row'[w] = row[w] /\ Exists(w)'
    BY <1>1, <1>4, <1>5 DEF TypeOK, Exists
  <1>b. \A d \in Callers : d # c => call'[d] = call[d]
    BY <1>5
  <1>c. ~Reads(c)'
    <2>1. a.blind
      BY <1>3, <1>5 DEF IInv, Known
    <2> QED BY <1>5, <2>1, <1>1 DEF Reads, TypeOK
  <1>8. Known'
    BY <1>1, <1>3, <1>5, <1>a, <1>b, <1>c DEF IInv, TypeOK, Calls, Known, Reads
  <1>9. Copies'
    <2>1. \A d \in Callers : call'[d].pc \in {"forked", "forking"} =>
            call'[d] = call[d] /\ call[d].ver # v /\ call[d].ver \in Versions
      BY <1>1, <1>3, <1>5, <1>b DEF Copying, TypeOK, Calls
    <2>2. \A w \in Versions : w # v => (Exists(w)' <=> Exists(w))
      BY <1>1, <1>5 DEF TypeOK, Exists
    <2>3. Exists(0) => Exists(0)'
      BY <1>a DEF Versions
    <2> QED BY <2>1, <2>2, <2>3 DEF IInv, Copies
  <1>10. Marks'
    <2>1. \A w \in Versions \ mixed : row'[w].audio <= row'[w].rev
      <3>1. \A w \in Versions : Exists(w) => row'[w] = row[w]
        BY <1>a
      <3>2. \A w \in Versions : ~Exists(w) => row'[w] = row[w] \/ (row'[w].audio = 0 /\ row'[w].rev = 0)
        BY <1>1, <1>4, <1>5 DEF TypeOK, Exists
      <3>3. \A w \in Versions \ mixed : row[w].audio <= row[w].rev
        BY DEF IInv, Marks
      <3> QED BY <3>1, <3>2, <3>3
    <2>2. \A d \in Callers : call'[d].pc \in {"forked", "forking"} => call'[d] = call[d] /\ row'[0] = row[0]
      BY <1>1, <1>3, <1>5, <1>a, <1>b DEF IInv, TypeOK, Copies, Versions
    <2> QED BY <1>5, <2>1, <2>2 DEF IInv, Marks, Spoken
  <1>11. Narrated' /\ Reviewed' /\ FreshIsVoiced' /\ ConfirmedSpoken'
    BY <1>1, <1>4, <1>5, <1>7 DEF IInv, TypeOK, Narrated, Reviewed, FreshIsVoiced, ConfirmedSpoken, Spoken, Exists, Confirmed
  <1> QED BY <1>6, <1>8, <1>9, <1>10, <1>11 DEF IInv

LEMMA CommitInv ==
  ASSUME IInv, NEW c \in Callers, Commit(c)
  PROVE  IInv'
  <1> DEFINE v == call[c].ver
  <1>1. call[c] \in Calls /\ v \in Versions /\ row[v] \in Rows /\ TypeOK
    BY DEF IInv, TypeOK, Calls
  <1>2. PICK ids \in Pages(call[c].kind) :
          row' = [row EXCEPT ![v] = Saved(Before(c), Left(c) \cup [id : ids, write : {writes + 1}])]
    BY DEF Commit
  <1> DEFINE r == Saved(Before(c), Left(c) \cup [id : ids, write : {writes + 1}])
  <1>3. /\ call[c].pc \in {"deleted", "forked"} /\ writes < MaxWrites
        /\ writes' = writes + 1 /\ call' = [call EXCEPT ![c] = NoCall]
        /\ voiced' = voiced \ {v} /\ cleared' = cleared \ {v}
        /\ UNCHANGED <<job, mixed, crew>>
    BY DEF Commit
  <1>4. Before(c).rev \in Nat /\ Before(c).audio \in Nat /\ Left(c) \subseteq Segments
    BY <1>1 DEF Before, NoRow, Left, Rows, Calls
  <1>5. [id : ids, write : {writes + 1}] \subseteq Segments
    <2>1. ids \subseteq SegIds
      BY DEF Pages
    <2>2. writes + 1 \in 0..MaxWrites
      BY <1>1, <1>3, ScriptsAssumption DEF TypeOK, ScriptsAssumption
    <2> QED BY <2>1, <2>2 DEF Segments
  <1>6. /\ r.rev = Before(c).rev + 1 /\ r.audio = Before(c).audio /\ r.status = "draft"
        /\ r \in Rows
    <2>1. Before(c) \in Rows
      BY <1>1 DEF Before, NoRow, Rows, Calls
    <2>2. \A b \in Rows, g \in SUBSET Segments :
            /\ Saved(b, g).rev = b.rev + 1 /\ Saved(b, g).audio = b.audio
            /\ Saved(b, g).status = "draft" /\ Saved(b, g) \in Rows
      BY DEF Saved, Rows
    <2>3. Left(c) \cup [id : ids, write : {writes + 1}] \in SUBSET Segments
      BY <1>4, <1>5
    <2> QED BY <2>1, <2>2, <2>3
  <1>7. row' = [row EXCEPT ![v] = r]
    BY <1>2
  <1>8. /\ call[c].pc = "deleted" => Exists(v) /\ Before(c) = row[v]
        /\ call[c].pc = "forked" => /\ v # 0 /\ ~Exists(v)
                                    /\ Before(c).rev = call[c].at /\ Before(c).audio = call[c].audio
    BY DEF IInv, Known, Copies, Before, NoRow
  <1> HIDE DEF r, v
  <1>9. \A w \in Versions : row'[w] = IF w = v THEN r ELSE row[w]
    BY <1>1, <1>7 DEF TypeOK
  <1>10. \A d \in Callers : call'[d] = IF d = c THEN NoCall ELSE call[d]
    BY <1>1, <1>3 DEF TypeOK
  <1>11. \A w \in Versions : Exists(w) => Exists(w)' /\ (w = v => row'[w].rev = row[w].rev + 1)
    BY <1>3, <1>6, <1>8, <1>9 DEF Exists
  <1>12. TypeOK'
    <2>1. writes' \in 0..MaxWrites
      BY <1>1, <1>3, ScriptsAssumption DEF TypeOK, ScriptsAssumption
    <2> QED BY <1>1, <1>3, <1>6, <1>7, <2>1, NoCallType DEF TypeOK
  <1>13. \A w \in Versions : row[w].rev \in Nat /\ row[w].audio \in Nat
    BY <1>1 DEF TypeOK, Rows
  <1>14. \A d \in Callers : call[d] \in Calls
    BY <1>1 DEF TypeOK
  <1>15. Known'
    <2> SUFFICES ASSUME NEW d \in Callers, d # c, call'[d] = call[d]
                 PROVE  /\ Reads(d)' => Exists(call[d].src)' /\ call[d].rev <= row'[call[d].src].rev
                        /\ Reads(d)' /\ call[d].pc \in {"ready", "checked", "deleted"}
                             /\ row'[call[d].src].rev = call[d].rev => row'[call[d].src].segs = call[d].base
                        /\ call[d].pc \in {"checked", "deleted"} => Exists(call[d].ver)' /\ call[d].at = call[d].rev
      BY <1>10, NoCallType DEF Known, IInv, Reads
    <2>1. call[d].src \in Versions /\ call[d].ver \in Versions /\ call[d].rev \in Nat
      BY <1>14 DEF Calls
    <2>2. Reads(d)' <=> Reads(d)
      BY DEF Reads
    <2>3. Reads(d) => Exists(call[d].src) /\ call[d].rev <= row[call[d].src].rev
      BY DEF IInv, Known
    <2>4. Reads(d) => call[d].rev <= row'[call[d].src].rev
      BY <1>9, <1>11, <1>13, <2>1, <2>3
    <2>5. ASSUME Reads(d), row'[call[d].src].rev = call[d].rev
          PROVE  row'[call[d].src] = row[call[d].src]
      BY <1>9, <1>11, <1>13, <2>1, <2>3, <2>5
    <2> QED BY <1>11, <2>1, <2>2, <2>3, <2>4, <2>5 DEF IInv, Known
  <1>16. Copies'
    <2>1. \A d \in Callers : call'[d].pc \in {"forked", "forking"} =>
            call'[d] = call[d] /\ d # c /\ call[d].ver \in Versions
      BY <1>10, <1>14, NoCallType DEF Calls
    <2>2. \A d \in Callers : d # c /\ call[d].pc \in {"forked", "forking"} => call[d].ver # v
      BY <1>3, <1>8 DEF IInv, Copies, v
    <2>3. \A w \in Versions : w # v => (Exists(w)' <=> Exists(w))
      BY <1>9 DEF Exists
    <2>4. Exists(0) => Exists(0)'
      BY <1>11 DEF Versions
    <2> QED BY <2>1, <2>2, <2>3, <2>4 DEF IInv, Copies
  <1>17. ASSUME v \notin mixed PROVE r.audio < r.rev
    <2>1. call[c].pc = "deleted" => row[v].audio <= row[v].rev
      BY <1>1, <1>17 DEF IInv, Marks
    <2>2. call[c].pc = "forked" => call[c].audio <= call[c].at
      BY DEF IInv, Marks
    <2>3. call[c].audio \in Nat /\ call[c].at \in Nat
      BY <1>1 DEF Calls
    <2> QED BY <1>1, <1>3, <1>6, <1>8, <1>13, <2>1, <2>2, <2>3
  <1>18. Marks'
    <2>1. 0 \notin mixed' /\ \A w \in Versions \ mixed' : row'[w].audio <= row'[w].rev
      <3>1. r.rev \in Nat /\ r.audio \in Nat
        BY <1>6 DEF Rows
      <3> QED BY <1>3, <1>9, <1>17, <3>1 DEF IInv, Marks
    <2>2. \A d \in Callers : call'[d].pc \in {"forked", "forking"} => call'[d] = call[d]
      BY <1>10, NoCallType
    <2>3. CASE v # 0
      <3>1. row'[0] = row[0]
        BY <1>9, <2>3 DEF Versions
      <3>2. 0 \in voiced => 0 \in voiced'
        BY <1>3, <2>3
      <3> QED BY <2>1, <2>2, <3>1, <3>2 DEF IInv, Marks
    <2>4. CASE v = 0
      <3>1. row'[0].rev = row[0].rev + 1 /\ row[0].rev \in Nat
        BY <1>3, <1>6, <1>8, <1>9, <1>13, <2>4 DEF Versions
      <3>2. \A d \in Callers : call[d].rev \in Nat
        BY <1>14 DEF Calls
      <3>3. \A d \in Callers : call'[d].pc = "forking" => call[d].rev < row'[0].rev /\ call[d].audio <= call[d].rev
        BY <2>2, <3>1, <3>2 DEF IInv, Marks
      <3>4. \A d \in Callers : call'[d].pc = "forked" => call[d].audio <= call[d].at
        BY <2>2 DEF IInv, Marks
      <3>5. row'[0].rev \in Nat
        BY <3>1
      <3> QED BY <2>1, <2>2, <3>2, <3>3, <3>4, <3>5 DEF Marks
    <2> QED BY <2>3, <2>4
  <1>19. job.src \in Versions /\ job.ver \in Versions /\ job.rev \in Nat /\ job' = job
    BY <1>1, <1>3 DEF TypeOK
  <1>20. Narrated'
    <2> SUFFICES ASSUME job.pc \in {"taken", "spoken"}
                 PROVE  /\ job.ver = 0 => job.src = 0
                        /\ Exists(job.src)' /\ job.rev <= row'[job.src].rev
                        /\ job.src \notin mixed' => row'[job.src].audio <= job.rev
                        /\ job.pc = "spoken" /\ row'[job.src].rev = job.rev => job.text = row'[job.src].segs
      BY <1>11, <1>19 DEF IInv, Narrated, Versions
    <2>1. /\ job.ver = 0 => job.src = 0
          /\ Exists(job.src) /\ job.rev <= row[job.src].rev
          /\ job.src \notin mixed => row[job.src].audio <= job.rev
          /\ job.pc = "spoken" /\ row[job.src].rev = job.rev => job.text = row[job.src].segs
      BY DEF IInv, Narrated
    <2>2. CASE job.src = v
      <3>1. row'[job.src].rev = row[job.src].rev + 1 /\ row'[job.src].audio = row[job.src].audio
        BY <1>3, <1>6, <1>8, <1>9, <2>1, <2>2, <1>1
      <3> QED BY <1>3, <1>11, <1>13, <1>19, <2>1, <3>1
    <2>3. CASE job.src # v
      BY <1>3, <1>9, <1>11, <1>19, <2>1, <2>3
    <2> QED BY <2>2, <2>3
  <1>21. Reviewed'
    <2>1. \A w \in Versions : row'[w].status \in Confirmed => w \in cleared'
      BY <1>3, <1>6, <1>9 DEF IInv, Reviewed, Confirmed
    <2>2. ASSUME job.pc = "taken", job.strict, row'[job.src].rev = job.rev
          PROVE  job.src \in cleared'
      <3>1. Exists(job.src) /\ job.rev <= row[job.src].rev
        BY <2>2 DEF IInv, Narrated
      <3>2. job.src # v /\ row'[job.src] = row[job.src]
        BY <1>9, <1>11, <1>13, <1>19, <2>2, <3>1
      <3> QED BY <1>3, <2>2, <3>2 DEF IInv, Reviewed
    <2> QED BY <1>19, <2>1, <2>2 DEF Reviewed
  <1>22. FreshIsVoiced'
    <2>1. r.rev \in Nat /\ r.audio \in Nat
      BY <1>6 DEF Rows
    <2> QED BY <1>3, <1>9, <1>17, <2>1 DEF IInv, FreshIsVoiced, Exists
  <1>23. ConfirmedSpoken'
    BY <1>19 DEF IInv, ConfirmedSpoken
  <1> QED BY <1>12, <1>15, <1>16, <1>18, <1>20, <1>21, <1>22, <1>23 DEF IInv

LEMMA SetStatusInv ==
  ASSUME IInv, NEW c \in Callers, SetStatus(c)
  PROVE  IInv'
  <1>1. PICK v \in Versions, to \in Confirmed :
          /\ row[v].status \in From(to)
          /\ row' = [row EXCEPT ![v].status = to]
          /\ cleared' = cleared \cup {v}
    BY DEF SetStatus
  <1>2. UNCHANGED <<call, Spoken, writes, crew>>
    BY DEF SetStatus
  <1>3. \A w \in Versions :
          /\ row'[w].rev = row[w].rev /\ row'[w].audio = row[w].audio /\ row'[w].segs = row[w].segs
          /\ row'[w].status = IF w = v THEN to ELSE row[w].status
    BY <1>1 DEF IInv, TypeOK, Rows
  <1>4. \A w \in Versions : Exists(w)' <=> Exists(w)
    BY <1>1, <1>3 DEF From, Confirmed, Exists
  <1>5. TypeOK'
    <2>1. row' \in [Versions -> Rows]
      BY <1>1 DEF IInv, TypeOK, Rows
    <2> QED BY <1>1, <1>2, <2>1 DEF IInv, TypeOK, Spoken
  <1>6. \A d \in Callers : call[d].src \in Versions /\ call[d].ver \in Versions
    BY DEF IInv, TypeOK, Calls
  <1>7. Known'
    BY <1>2, <1>3, <1>4, <1>6 DEF IInv, Known, Reads
  <1>8. Copies' /\ Marks'
    BY <1>2, <1>3, <1>4, <1>6 DEF IInv, Copies, Marks, Spoken, Versions
  <1>9. job.src \in Versions /\ job.ver \in Versions /\ 0 \in Versions
    BY DEF IInv, TypeOK, Versions
  <1>10. Narrated' /\ Reviewed' /\ FreshIsVoiced' /\ ConfirmedSpoken'
    BY <1>1, <1>2, <1>3, <1>4, <1>9 DEF IInv, Narrated, Reviewed, FreshIsVoiced, ConfirmedSpoken, Spoken
  <1> QED BY <1>5, <1>7, <1>8, <1>10 DEF IInv

LEMMA StatusForksInv ==
  ASSUME IInv, NEW c \in Callers, StatusForks(c)
  PROVE  IInv'
  <1>1. PICK v \in Versions \ {0}, to \in Confirmed :
          /\ ~Exists(v) /\ Exists(0) /\ Copying(v) = {}
          /\ call' = [call EXCEPT ![c] =
               [NoCall EXCEPT !.pc = "forking", !.kind = "reviewer", !.ver = v, !.rev = row[0].rev,
                  !.audio = row[0].audio, !.from = row[0].status, !.to = to]]
    BY DEF StatusForks
  <1> DEFINE a == [NoCall EXCEPT !.pc = "forking", !.kind = "reviewer", !.ver = v, !.rev = row[0].rev,
                     !.audio = row[0].audio, !.from = row[0].status, !.to = to]
  <1>2. row[0] \in Rows /\ 0 \in Versions
    BY DEF IInv, TypeOK, Versions
  <1>3. row[0].rev \in Nat /\ row[0].audio \in Nat /\ row[0].status \in {"none", "draft"} \cup Confirmed
    BY <1>2 DEF Rows
  <1>4. /\ a \in Calls /\ a.pc = "forking" /\ a.ver = v
        /\ a.rev = row[0].rev /\ a.audio = row[0].audio
    BY <1>3 DEF Calls, NoCall, Kinds, Versions
  <1>5. call' = [call EXCEPT ![c] = a] /\ UNCHANGED <<row, Spoken, cleared, writes, crew>>
    BY <1>1 DEF StatusForks
  <1> HIDE DEF a
  <1>6. TypeOK'
    BY <1>4, <1>5 DEF IInv, TypeOK, Spoken
  <1>7. Known'
    BY <1>4, <1>5 DEF IInv, TypeOK, Known, Reads, Exists
  <1>8. Copies'
    BY <1>1, <1>4, <1>5 DEF IInv, TypeOK, Copies, Copying, Exists
  <1>9. Marks'
    <2>1. row[0].audio <= row[0].rev
      BY <1>2 DEF IInv, Marks
    <2>2. row[0].rev > 0 /\ row[0].audio >= row[0].rev => 0 \in voiced
      BY <1>1, <1>2 DEF IInv, Marks, FreshIsVoiced
    <2> QED BY <1>3, <1>4, <1>5, <2>1, <2>2 DEF IInv, TypeOK, Marks, Spoken
  <1>10. Narrated' /\ Reviewed' /\ FreshIsVoiced' /\ ConfirmedSpoken'
    BY <1>5 DEF IInv, Narrated, Reviewed, FreshIsVoiced, ConfirmedSpoken, Spoken, Exists
  <1> QED BY <1>6, <1>7, <1>8, <1>9, <1>10 DEF IInv

LEMMA StatusCommitsInv ==
  ASSUME IInv, NEW c \in Callers, StatusCommits(c)
  PROVE  IInv'
  <1> DEFINE v == call[c].ver
             r == [rev |-> call[c].rev, status |-> call[c].to, audio |-> call[c].audio, segs |-> row[0].segs]
  <1>1. call[c] \in Calls /\ v \in Versions /\ row[0] \in Rows /\ 0 \in Versions /\ TypeOK
    BY DEF IInv, TypeOK, Calls, Versions
  <1>2. /\ call[c].pc = "forking" /\ call[c].from \in From(call[c].to)
        /\ row' = [row EXCEPT ![v] = r] /\ cleared' = cleared \cup {v}
        /\ call' = [call EXCEPT ![c] = NoCall]
        /\ voiced' = IF 0 \in voiced THEN voiced \cup {v} ELSE voiced
        /\ mixed' = IF row[0].rev = call[c].rev THEN mixed ELSE mixed \cup {v}
        /\ UNCHANGED <<job, writes, crew>>
    BY DEF StatusCommits
  <1>3. v # 0 /\ ~Exists(v)
    BY <1>2 DEF IInv, Copies
  <1>4. /\ call[c].rev \in Nat /\ call[c].audio \in Nat /\ call[c].to \in {"none"} \cup Confirmed
        /\ row[0].segs \in SUBSET Segments
    BY <1>1 DEF Calls, Rows
  <1>5. r \in Rows
    BY <1>4 DEF Rows
  <1>6. r.rev = call[c].rev /\ r.audio = call[c].audio /\ r.status = call[c].to
    OBVIOUS
  <1> HIDE DEF r, v
  <1>7. \A w \in Versions : row'[w] = IF w = v THEN r ELSE row[w]
    BY <1>1, <1>2 DEF TypeOK
  <1>8. \A d \in Callers : call'[d] = IF d = c THEN NoCall ELSE call[d]
    BY <1>1, <1>2 DEF TypeOK
  <1>9. \A w \in Versions : Exists(w) => Exists(w)' /\ w # v /\ row'[w] = row[w]
    BY <1>3, <1>7 DEF Exists
  <1>10. TypeOK'
    BY <1>1, <1>2, <1>5, NoCallType DEF TypeOK
  <1>11. \A d \in Callers : call[d].src \in Versions /\ call[d].ver \in Versions
    BY <1>1 DEF TypeOK, Calls
  <1>12. Known'
    BY <1>8, <1>9, <1>11, NoCallType DEF IInv, Known, Reads
  <1>13. Copies'
    <2>1. \A d \in Callers : call'[d].pc \in {"forked", "forking"} => call'[d] = call[d] /\ d # c
      BY <1>8, NoCallType
    <2>2. \A d \in Callers : d # c /\ call[d].pc \in {"forked", "forking"} => call[d].ver # v
      BY <1>2 DEF IInv, Copies, v
    <2>3. \A w \in Versions : w # v => (Exists(w)' <=> Exists(w))
      BY <1>7 DEF Exists
    <2>4. Exists(0) => Exists(0)'
      BY <1>1, <1>9
    <2> QED BY <1>11, <2>1, <2>2, <2>3, <2>4 DEF IInv, Copies
  <1>14. /\ call[c].audio <= call[c].rev
         /\ row[0].rev = call[c].rev /\ call[c].rev > 0 /\ call[c].audio >= call[c].rev => 0 \in voiced
    BY <1>2 DEF IInv, Marks
  <1>15. Marks'
    <2>1. \A d \in Callers : call'[d].pc \in {"forked", "forking"} => call'[d] = call[d]
      BY <1>8, NoCallType
    <2>2. row'[0] = row[0] /\ (0 \in voiced => 0 \in voiced')
      BY <1>1, <1>2, <1>3, <1>7
    <2>3. 0 \notin mixed' /\ \A w \in Versions \ mixed' : row'[w].audio <= row'[w].rev
      BY <1>2, <1>3, <1>6, <1>7, <1>14 DEF IInv, Marks
    <2> QED BY <2>1, <2>2, <2>3 DEF IInv, Marks
  <1>16. job' = job /\ job.src \in Versions /\ job.ver \in Versions
    BY <1>1, <1>2 DEF TypeOK
  <1>17. Narrated'
    BY <1>1, <1>2, <1>9, <1>16 DEF IInv, Narrated
  <1>18. Reviewed'
    <2>1. \A w \in Versions : row'[w].status \in Confirmed => w \in cleared'
      BY <1>2, <1>7 DEF IInv, Reviewed
    <2>2. job.pc = "taken" => row'[job.src] = row[job.src]
      BY <1>9, <1>16 DEF IInv, Narrated
    <2> QED BY <1>2, <1>16, <2>1, <2>2 DEF IInv, Reviewed
  <1>19. FreshIsVoiced'
    BY <1>2, <1>4, <1>6, <1>7, <1>14 DEF IInv, FreshIsVoiced, Exists
  <1>20. ConfirmedSpoken'
    BY <1>16 DEF IInv, ConfirmedSpoken
  <1> QED BY <1>10, <1>12, <1>13, <1>15, <1>17, <1>18, <1>19, <1>20 DEF IInv
-----------------------------------------------------------------------------
(* The narration job *)

JobType == [pc : JobPcs, ver : Versions, src : Versions, rev : Nat, strict : BOOLEAN,
            text : SUBSET Segments, torn : BOOLEAN, agreed : BOOLEAN]

\* A step of the job that leaves the scripts alone and has read nothing that counts.
LEMMA JobOnly ==
  ASSUME IInv, job' \in JobType, UNCHANGED Unsaid, Narrated',
         job'.pc = "taken" /\ job'.strict /\ row[job'.src].rev = job'.rev => job'.src \in cleared,
         job'.pc = "spoken" /\ job'.strict => job'.torn \/ job'.agreed
  PROVE  IInv'
  <1> USE DEF Unsaid
  <1>1. TypeOK'
    BY DEF IInv, TypeOK, JobType
  <1>2. Known' /\ Copies' /\ Marks'
    BY DEF IInv, Known, Copies, Marks, Reads, Exists
  <1>3. Reviewed' /\ FreshIsVoiced' /\ ConfirmedSpoken'
    BY DEF IInv, Reviewed, FreshIsVoiced, ConfirmedSpoken, Exists
  <1> QED BY <1>1, <1>2, <1>3 DEF IInv

LEMMA NoJobType == NoJob \in JobType /\ NoJob.pc = "none"
  BY DEF NoJob, JobType, JobPcs, Versions

LEMMA PinInv == ASSUME IInv, Pin PROVE IInv'
  <1>1. PICK v \in Versions, strict \in BOOLEAN :
          /\ Exists(Source(v))
          /\ job' = [NoJob EXCEPT !.pc = "queued", !.ver = v, !.rev = row[Source(v)].rev, !.strict = strict]
    BY DEF Pin
  <1>2. row[Source(v)].rev \in Nat
    BY DEF IInv, TypeOK, Rows, Source, Versions
  <1>3. job' \in JobType /\ job'.pc = "queued" /\ job'.ver = v
    BY <1>1, <1>2 DEF NoJob, JobType, JobPcs, Versions
  <1>4. UNCHANGED Unsaid
    BY DEF Pin
  <1>5. Narrated'
    BY <1>1, <1>3, <1>4 DEF Narrated, Source, Exists, Unsaid
  <1> QED BY <1>3, <1>4, <1>5, JobOnly

LEMMA RestartInv == ASSUME IInv, Restart PROVE IInv'
  <1>1. job' = [NoJob EXCEPT !.pc = "queued", !.ver = job.ver, !.rev = job.rev, !.strict = job.strict]
    BY DEF Restart
  <1>2. job' \in JobType /\ job'.pc = "queued" /\ job'.ver = job.ver
    BY <1>1 DEF IInv, TypeOK, NoJob, JobType, JobPcs, Versions
  <1>3. job.pc # "none" /\ UNCHANGED Unsaid
    BY DEF Restart
  <1>4. Narrated'
    BY <1>2, <1>3 DEF IInv, Narrated, Exists, Unsaid
  <1> QED BY <1>2, <1>3, <1>4, JobOnly

LEMMA EndInv == ASSUME IInv, End PROVE IInv'
  BY NoJobType, JobOnly DEF End, Narrated

LEMMA TakeInv == ASSUME IInv, Take PROVE IInv'
  <1> DEFINE s == Source(job.ver)
  <1>1. job \in JobType /\ s \in Versions /\ (job.ver = 0 => s = 0)
    BY DEF IInv, TypeOK, JobType, Source, Versions
  <1>2. UNCHANGED Unsaid
    BY DEF Take
  <1>3. CASE job' = NoJob
    BY <1>2, <1>3, NoJobType, JobOnly DEF Narrated
  <1>4. CASE /\ row[s].rev = job.rev /\ (job.strict => row[s].status \in Confirmed)
             /\ job' = [job EXCEPT !.pc = "taken", !.src = s]
    <2> HIDE DEF s
    <2>1. /\ job' \in JobType /\ job'.pc = "taken" /\ job'.src = s /\ job'.rev = job.rev
          /\ job'.strict = job.strict /\ job'.ver = job.ver
      BY <1>1, <1>4 DEF JobType, JobPcs
    <2>2. job.pc = "queued" /\ UNCHANGED Unsaid
      BY DEF Take
    <2>3. Exists(s)
      BY <2>2 DEF IInv, Narrated, Source, s
    <2>4. s \notin mixed => row[s].audio <= row[s].rev
      BY <1>1 DEF IInv, Marks
    <2>5. row[s].rev \in Nat /\ row[s].status \in Confirmed => s \in cleared
      BY <1>1 DEF IInv, Reviewed, TypeOK, Rows
    <2>6. row[s].rev <= row[s].rev
      <3>1. row[s].rev \in Nat
        BY <1>1 DEF IInv, TypeOK, Rows
      <3> QED BY <3>1
    <2>7. Narrated'
      BY <1>1, <1>4, <2>1, <2>2, <2>3, <2>4, <2>6 DEF IInv, Narrated, Exists, Unsaid
    <2>8. job.strict => s \in cleared
      <3>1. \A w \in Versions : row[w].status \in Confirmed => w \in cleared
        BY DEF IInv, Reviewed
      <3> QED BY <1>1, <1>4, <3>1
    <2> QED BY <2>1, <2>2, <2>7, <2>8, JobOnly
  <1>5. job' = IF row[s].rev = job.rev /\ (job.strict => row[s].status \in Confirmed)
                 THEN [job EXCEPT !.pc = "taken", !.src = s] ELSE NoJob
    BY DEF Take
  <1> QED BY <1>3, <1>4, <1>5

LEMMA SpeakInv == ASSUME IInv, Speak PROVE IInv'
  <1>1. job \in JobType /\ job.src \in Versions /\ UNCHANGED Unsaid /\ job.pc = "taken"
    BY DEF IInv, TypeOK, JobType, Speak
  <1>2. CASE job' = NoJob
    BY <1>1, <1>2, NoJobType, JobOnly DEF Narrated
  <1>3. CASE job' = [job EXCEPT !.pc = "spoken", !.text = row[job.src].segs,
                                !.torn = row[job.src].rev # job.rev, !.agreed = job.src \in cleared]
    <2>1. row[job.src].segs \in SUBSET Segments
      BY <1>1 DEF IInv, TypeOK, Rows
    <2>2. /\ job' \in JobType /\ job'.pc = "spoken" /\ job'.src = job.src /\ job'.rev = job.rev
          /\ job'.ver = job.ver /\ job'.text = row[job.src].segs /\ job'.strict = job.strict
      <3>1. (row[job.src].rev # job.rev) \in BOOLEAN /\ (job.src \in cleared) \in BOOLEAN
        OBVIOUS
      <3> DEFINE t == row[job.src].rev # job.rev
                 g == job.src \in cleared
                 x == row[job.src].segs
      <3>2. t \in BOOLEAN /\ g \in BOOLEAN /\ x \in SUBSET Segments
        BY <2>1, <3>1
      <3>3. job' = [job EXCEPT !.pc = "spoken", !.text = x, !.torn = t, !.agreed = g]
        BY <1>3
      <3>4. job'.text = x
        BY <1>1, <3>3 DEF JobType
      <3> HIDE DEF t, g, x
      <3>5. /\ job' \in JobType /\ job'.pc = "spoken" /\ job'.src = job.src /\ job'.rev = job.rev
            /\ job'.ver = job.ver /\ job'.strict = job.strict
        BY <1>1, <3>2, <3>3 DEF JobType, JobPcs
      <3> QED BY <3>4, <3>5 DEF x
    <2>3. (row[job.src].rev # job.rev => job'.torn) /\ (job.src \in cleared => job'.agreed)
      <3>1. job'.torn = (row[job.src].rev # job.rev)
        BY <1>1, <1>3 DEF JobType
      <3>2. job'.agreed = (job.src \in cleared)
        BY <1>1, <1>3 DEF JobType
      <3> QED BY <3>1, <3>2
    <2>4. Narrated'
      BY <1>1, <2>2 DEF IInv, Narrated, Exists, Unsaid
    <2>5. job.strict => job'.torn \/ job'.agreed
      BY <1>1, <2>3 DEF IInv, Reviewed
    <2> QED BY <1>1, <2>2, <2>4, <2>5, JobOnly
  <1> QED BY <1>2, <1>3 DEF Speak

LEMMA MarkInv == ASSUME IInv, Mark PROVE IInv'
  <1> DEFINE v == job.ver
  <1>1. /\ job \in JobType /\ job.src \in Versions /\ v \in Versions /\ job.rev \in Nat
        /\ TypeOK
    BY DEF IInv, TypeOK, JobType
  <1>2. /\ job.pc = "spoken"
        /\ row' = [row EXCEPT ![v].audio = IF Exists(v) THEN job.rev ELSE row[v].audio]
        /\ voiced' = IF job.text = row[v].segs THEN voiced \cup {v} ELSE voiced \ {v}
        /\ mixed' = IF Exists(v) /\ job.src # v THEN mixed \cup {v} ELSE mixed
        /\ job' = [NoJob EXCEPT !.pc = "marked", !.ver = v, !.rev = job.rev, !.strict = job.strict]
        /\ UNCHANGED <<call, cleared, writes, crew>>
    BY DEF Mark
  <1>3. job' \in JobType /\ job'.pc = "marked" /\ job'.ver = v
    BY <1>1, <1>2 DEF NoJob, JobType, JobPcs, Versions
  <1>4. \A w \in Versions :
          /\ row'[w].rev = row[w].rev /\ row'[w].status = row[w].status /\ row'[w].segs = row[w].segs
          /\ row'[w].audio = IF w = v /\ Exists(v) THEN job.rev ELSE row[w].audio
    BY <1>1, <1>2 DEF TypeOK, Rows
  <1> HIDE DEF v
  <1>5. \A w \in Versions : Exists(w)' <=> Exists(w)
    BY <1>4 DEF Exists
  <1>6. \A w \in Versions : row[w].rev \in Nat /\ row[w].audio \in Nat
    BY <1>1 DEF TypeOK, Rows
  <1>7. TypeOK'
    <2>1. row' \in [Versions -> Rows]
      BY <1>1, <1>2 DEF TypeOK, Rows
    <2> QED BY <1>1, <1>2, <1>3, <2>1 DEF TypeOK, JobType
  <1>8. \A d \in Callers : call[d].src \in Versions /\ call[d].ver \in Versions
                        /\ call[d].rev \in Nat /\ call[d].audio \in Nat
    BY <1>1 DEF TypeOK, Calls
  <1>9. Known'
    BY <1>2, <1>4, <1>5, <1>8 DEF IInv, Known, Reads
  <1>10. Copies'
    BY <1>2, <1>5, <1>8 DEF IInv, Copies, Versions
  <1>11. /\ v = 0 => job.src = 0
         /\ Exists(job.src) /\ job.rev <= row[job.src].rev
         /\ job.src \notin mixed => row[job.src].audio <= job.rev
         /\ row[job.src].rev = job.rev => job.text = row[job.src].segs
    BY <1>2 DEF IInv, Narrated, v
  <1>12. Marks'
    <2>1. 0 \notin mixed' /\ \A w \in Versions \ mixed' : row'[w].audio <= row'[w].rev
      <3>1. 0 \notin mixed'
        BY <1>2, <1>11 DEF IInv, Marks
      <3>2. \A w \in Versions \ mixed : row[w].audio <= row[w].rev
        BY DEF IInv, Marks
      <3>3. v \notin mixed' /\ Exists(v) => job.src = v
        BY <1>2
      <3>4. \A w \in Versions \ mixed' : w \notin mixed
        BY <1>2
      <3> QED BY <1>4, <1>11, <3>1, <3>2, <3>3, <3>4
    <2>2. ASSUME NEW d \in Callers, call[d].pc = "forking"
          PROVE  /\ call[d].rev <= row'[0].rev /\ call[d].audio <= call[d].rev
                 /\ row'[0].rev = call[d].rev => call[d].audio <= row'[0].audio
                 /\ row'[0].rev = call[d].rev /\ call[d].rev > 0 /\ call[d].audio >= call[d].rev => 0 \in voiced'
      <3>0. 0 \in Versions /\ 0 \notin mixed
        BY DEF Versions, IInv, Marks
      <3>1. /\ call[d].rev <= row[0].rev /\ call[d].audio <= call[d].rev
            /\ row[0].rev = call[d].rev => call[d].audio <= row[0].audio
            /\ row[0].rev = call[d].rev /\ call[d].rev > 0 /\ call[d].audio >= call[d].rev => 0 \in voiced
        BY <2>2 DEF IInv, Marks
      <3>2. CASE v # 0
        <4>1. row'[0].rev = row[0].rev /\ row'[0].audio = row[0].audio /\ (0 \in voiced => 0 \in voiced')
          BY <1>2, <1>4, <3>0, <3>2
        <4> QED BY <3>1, <4>1
      <3>3. CASE v = 0
        <4>1. job.src = 0 /\ row'[0].rev = row[0].rev /\ row[0].audio <= row'[0].audio /\ row'[0].audio = job.rev
          BY <1>4, <1>11, <3>0, <3>3
        <4>2. row[0].rev = job.rev => 0 \in voiced'
          BY <1>2, <1>11, <3>3, <4>1
        <4>3. row[0].rev = call[d].rev /\ call[d].audio >= call[d].rev => row[0].rev = job.rev
          BY <1>1, <1>6, <1>8, <1>11, <3>0, <3>1, <4>1
        <4>4. row'[0].rev = call[d].rev => call[d].audio <= row'[0].audio
          BY <1>1, <1>6, <1>8, <3>0, <3>1, <4>1
        <4> QED BY <3>1, <4>1, <4>2, <4>3, <4>4
      <3> QED BY <3>2, <3>3
    <2> QED BY <1>2, <2>1, <2>2 DEF IInv, Marks
  <1>13. Narrated'
    <2>1. Exists(v) \/ Exists(0)
      BY <1>2 DEF IInv, Narrated, v
    <2> QED BY <1>1, <1>3, <1>5, <2>1 DEF Narrated, Versions
  <1>14. Reviewed' /\ ConfirmedSpoken'
    BY <1>2, <1>3, <1>4 DEF IInv, Reviewed, ConfirmedSpoken
  <1>15. FreshIsVoiced'
    <2> SUFFICES ASSUME NEW w \in Versions, Exists(w), w \notin mixed', row[w].rev > 0,
                        row'[w].audio >= row[w].rev
                 PROVE  w \in voiced'
      BY <1>4, <1>5 DEF FreshIsVoiced
    <2>1. CASE w # v
      BY <1>2, <1>4, <2>1 DEF IInv, FreshIsVoiced
    <2>2. CASE w = v
      <3>1. job.src = v
        BY <1>2, <2>2
      <3>2. row[v].rev = job.rev
        BY <1>1, <1>4, <1>6, <1>11, <2>2, <3>1
      <3> QED BY <1>2, <1>11, <2>2, <3>1, <3>2
    <2> QED BY <2>1, <2>2
  <1> QED BY <1>7, <1>9, <1>10, <1>12, <1>13, <1>14, <1>15 DEF IInv
-----------------------------------------------------------------------------
LEMMA NextInv == ASSUME IInv, [Next]_vars PROVE IInv'
  <1>1. ASSUME UNCHANGED vars PROVE IInv'
    <2>1. UNCHANGED <<row, Spoken, cleared, writes, crew, call>>
      BY <1>1 DEF vars, Spoken
    <2>2. TypeOK' /\ Known' /\ Copies' /\ Marks'
      BY <2>1 DEF IInv, TypeOK, Known, Copies, Marks, Reads, Exists, Spoken
    <2>3. Narrated' /\ Reviewed' /\ FreshIsVoiced' /\ ConfirmedSpoken'
      BY <2>1 DEF IInv, Narrated, Reviewed, FreshIsVoiced, ConfirmedSpoken, Exists, Spoken
    <2> QED BY <2>2, <2>3 DEF IInv
  <1>2. ASSUME NEW c \in Callers, Update(c) PROVE IInv'
    BY <1>2, UpdateChecksInv, UpdateForksInv, DeleteInv, CommitInv DEF Update
  <1>3. ASSUME NEW c \in Callers, Review(c) PROVE IInv'
    BY <1>3, SetStatusInv, StatusForksInv, StatusCommitsInv DEF Review
  <1>4. ASSUME Narrate PROVE IInv'
    BY <1>4, PinInv, TakeInv, SpeakInv, MarkInv, RestartInv, EndInv DEF Narrate
  <1> QED BY <1>1, <1>2, <1>3, <1>4, OpenInv, LoadInv, EnsureExistsInv, GiveUpInv DEF Next

LEMMA InvHolds == Spec => []IInv
  BY InitInv, NextInv, PTL DEF Spec

\* The variables keep their types: no call hands the store a value outside its columns.
THEOREM TypeCorrect == Spec => []TypeOK
  <1>1. IInv => TypeOK
    BY DEF IInv
  <1> QED BY <1>1, InvHolds, PTL

\* A script shows as voiced only if it was voiced with the text it holds, whoever
\* saves, copies or confirms it meanwhile and however often the job starts over.
THEOREM FreshCorrect == Spec => []FreshIsVoiced
  <1>1. IInv => FreshIsVoiced
    BY DEF IInv
  <1> QED BY <1>1, InvHolds, PTL

\* A job for confirmed scripts speaks what a reviewer has confirmed.
THEOREM ConfirmedCorrect == Spec => []ConfirmedSpoken
  <1>1. IInv => ConfirmedSpoken
    BY DEF IInv
  <1> QED BY <1>1, InvHolds, PTL

\* A save replaces the text its author has read, the three named races apart.
THEOREM OverwriteCorrect == Spec => NoSilentOverwrite
  <1>1. ASSUME IInv, NEW c \in Callers, Saves(c)
        PROVE  \/ Replaced(c) = call[c].base
               \/ Raced(c)
               \/ call[c].blind
               \/ call[c].src # call[c].ver
    <2>1. call[c].pc \in {"deleted", "forked"}
      BY <1>1 DEF Saves
    <2> QED BY <1>1, <2>1 DEF IInv, Known, Reads, Target, Replaced, Raced
  <1>2. IInv => [\A c \in Callers : Saves(c) =>
                   \/ Replaced(c) = call[c].base
                   \/ Raced(c)
                   \/ call[c].blind
                   \/ call[c].src # call[c].ver]_vars
    BY <1>1
  <1> QED BY <1>2, InvHolds, PTL DEF NoSilentOverwrite
=============================================================================
