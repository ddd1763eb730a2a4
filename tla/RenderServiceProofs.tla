------------------------- MODULE RenderServiceProofs -------------------------
(***************************************************************************)
(* What the render service promises for any number of plans, pages, jobs   *)
(* and slots: the mapping of a plan leads to a job that is alive and to    *)
(* the only one, what a finished job lists can be downloaded, and a still  *)
(* page is reported as degraded.                                           *)
(*                                                                         *)
(* The numbering of a plan starts over only when none of its jobs is left, *)
(* so an id that is not shared is touched by one goroutine, and by no      *)
(* removal while a job has it.                                             *)
(***************************************************************************)
EXTENDS RenderService, FiniteSetTheorems, TLAPS

Alive == {"queued", "running", "succeeded"}

JobsOf(p) == {id \in Ids : jobs[id] # None /\ PlanOf(id) = p}

\* A job knows the id it has in the map.
Owned == \A id \in Ids : jobs[id] # None => job[jobs[id]].id = id

\* The state of a job whose goroutine is at work.
Staged ==
  \A r \in Runs : pc[r] # "none" =>
    /\ job[r].id \in Ids
    /\ job[r].state \in (IF pc[r] \in {"slot", "begin"} THEN {"queued", "canceled"}
                                                        ELSE {"running", "canceled"})

\* The numbers of a plan.
Counted ==
  \A p \in Plans :
    /\ attempts[p].live = Cardinality(JobsOf(p))
    /\ \A id \in JobsOf(p) : id[2] < attempts[p].next

\* Who has to do with an id that is not shared.
Alone ==
  /\ \A r \in Runs : pc[r] # "none" /\ job[r].id \notin shared =>
       /\ jobs[job[r].id] \in {r, None}
       /\ \A q \in Runs : pc[q] # "none" /\ job[q].id = job[r].id => q = r
  /\ \A d \in doomed : d[1] \notin shared => jobs[d[1]] = None

\* The files that a job is about to list.
Filed ==
  \A r \in Runs :
    /\ pc[r] = "announce" /\ work[r].out = "succeeded"
    /\ job[r].id \notin shared /\ jobs[job[r].id] = r
    => \A s \in work[r].arts : disk[job[r].id][s] # "none"

\* The still pages of directory f, for a goroutine at p that knows w.
Clean(p, f, w) ==
  /\ p \in {"lookup", "render"} => \A s \in Segs : f[s] # "still"
  /\ \/ p = "store" \/ (p = "settle" /\ w.out # "failed") \/ (p = "announce" /\ w.out = "succeeded")
     => \A s \in Segs : f[s] = "still" => s \in w.bad

Pure ==
  shared = {} =>
    /\ \A s \in Segs : cache[s] # "still"
    /\ \A r \in Runs : pc[r] # "none" => Clean(pc[r], disk[job[r].id], work[r])

IInv ==
  /\ TypeOK /\ Owned /\ Staged /\ Counted /\ Alone /\ Filed /\ Pure
  /\ MappingLive /\ OnePerPlan /\ ArtifactsKept /\ NoSilentStill

LEMMA IdsFacts ==
  /\ \A id \in Ids : PlanOf(id) \in Plans /\ id = <<id[1], id[2]>> /\ id[2] \in Nat
  /\ \A p \in Plans, n \in Nat : n < MaxAttempts[p] => <<p, n>> \in Ids
  /\ None \notin Ids /\ None \notin Runs
  /\ IsFiniteSet(Ids)
  <1> DEFINE Of(p) == {p} \X (0 .. MaxAttempts[p] - 1)
  <1>1. IsFiniteSet({Of(p) : p \in Plans})
    <2> DEFINE f == [p \in Plans |-> Of(p)]
    <2>1. f \in Surjection(Plans, {Of(p) : p \in Plans})
      BY DEF Surjection
    <2> QED BY <2>1, RenderAssumption, FS_Surjection DEF RenderAssumption
  <1>2. \A p \in Plans : IsFiniteSet(Of(p))
    <2> SUFFICES ASSUME NEW p \in Plans PROVE IsFiniteSet(Of(p))
      OBVIOUS
    <2>1. IsFiniteSet(0 .. MaxAttempts[p] - 1)
      BY RenderAssumption, FS_Interval DEF RenderAssumption
    <2> QED BY <2>1, FS_Singleton, FS_Product
  <1>3. IsFiniteSet(Ids)
    BY <1>1, <1>2, FS_UNION DEF Ids
  <1>4. Ids \subseteq Plans \X Nat
    BY RenderAssumption DEF Ids, RenderAssumption
  <1>5. \A p \in Plans, n \in Nat : n < MaxAttempts[p] => <<p, n>> \in Ids
    BY RenderAssumption DEF Ids, RenderAssumption
  <1> QED BY <1>3, <1>4, <1>5, RenderAssumption DEF PlanOf, RenderAssumption

LEMMA BlankTypes ==
  /\ NoJob \in JobRecs /\ NoJob.id = None /\ NoJob.state = "none"
  /\ NoWork \in WorkRecs /\ NoWork.out = "none"
  /\ Empty \in [Segs -> Kinds] /\ \A s \in Segs : Empty[s] = "none"
  BY DEF NoJob, JobRecs, NoWork, WorkRecs, Empty, Kinds

LEMMA JobsOfFinite ==
  \A p \in Plans : IsFiniteSet(JobsOf(p)) /\ Cardinality(JobsOf(p)) \in Nat
  <1>1. \A p \in Plans : JobsOf(p) \subseteq Ids
    BY DEF JobsOf
  <1>2. \A p \in Plans : IsFiniteSet(JobsOf(p))
    BY <1>1, IdsFacts, FS_Subset
  <1> QED BY <1>2, FS_CardinalityType

LEMMA InitInv == Init => IInv
  <1> SUFFICES ASSUME Init PROVE IInv
    OBVIOUS
  <1>1. /\ \A id \in Ids : jobs[id] = None
        /\ \A p \in Plans : byHash[p] = None /\ attempts[p] = [next |-> 0, live |-> 0]
        /\ \A r \in Runs : pc[r] = "none"
        /\ \A s \in Segs : cache[s] = "none"
        /\ doomed = {}
    BY DEF Init, Empty
  <1>2. TypeOK
    BY BlankTypes DEF Init, TypeOK
  <1>3. Owned /\ Staged /\ Alone /\ Filed /\ Pure
    BY <1>1 DEF Owned, Staged, Alone, Filed, Pure
  <1>4. Counted
    <2>1. \A p \in Plans : JobsOf(p) = {}
      BY <1>1 DEF JobsOf
    <2> QED BY <1>1, <2>1, FS_EmptySet DEF Counted
  <1>5. MappingLive /\ OnePerPlan /\ ArtifactsKept /\ NoSilentStill
    BY <1>1 DEF MappingLive, OnePerPlan, ArtifactsKept, NoSilentStill
  <1> QED BY <1>2, <1>3, <1>4, <1>5 DEF IInv
-----------------------------------------------------------------------------
(* Steps on files *)

\* A goroutine that holds a slot works in its directory and knows w afterwards.
LEMMA FileStep ==
  ASSUME IInv, NEW r \in Runs, pc[r] \in Holding, job[r].state \in {"running", "canceled"},
         NEW p \in Holding \ {"begin"}, NEW f \in [Segs -> Kinds], NEW w \in WorkRecs,
         pc' = [pc EXCEPT ![r] = p],
         disk' = [disk EXCEPT ![job[r].id] = f],
         work' = [work EXCEPT ![r] = w],
         cache' \in [Segs -> Kinds],
         UNCHANGED <<mapVars, job, stopped, doomed, shared>>,
         p = "announce" /\ w.out = "succeeded" => \A s \in w.arts : f[s] # "none",
         shared = {} => Clean(p, f, w) /\ \A s \in Segs : cache'[s] # "still"
  PROVE  IInv'
  <1>0. jobs' = jobs /\ byHash' = byHash /\ attempts' = attempts /\ job' = job
        /\ stopped' = stopped /\ doomed' = doomed /\ shared' = shared
    BY DEF mapVars
  <1>1. \A q \in Runs : /\ pc'[q] = IF q = r THEN p ELSE pc[q]
                        /\ work'[q] = IF q = r THEN w ELSE work[q]
    BY DEF IInv, TypeOK
  <1>2. \A id \in Ids : disk'[id] = IF id = job[r].id THEN f ELSE disk[id]
    BY DEF IInv, TypeOK
  <1>3. pc[r] # "none" /\ p # "none" /\ p \notin {"slot", "begin"}
    BY DEF Holding
  <1>4. job[r].id \in Ids
    BY <1>3 DEF IInv, Staged
  <1>5. TypeOK'
    BY <1>0 DEF IInv, TypeOK
  <1>6. Owned' /\ Staged'
    BY <1>0, <1>1, <1>3, <1>4 DEF IInv, Owned, Staged
  <1>7. Counted'
    BY <1>0 DEF IInv, Counted, JobsOf
  <1>8. Alone'
    BY <1>0, <1>1, <1>3 DEF IInv, Alone
  \* Nobody else looks at the directory.
  <1>9. ASSUME NEW q \in Runs, pc[q] # "none", q # r, job[q].id \notin shared
        PROVE  disk'[job[q].id] = disk[job[q].id]
    BY <1>2, <1>3, <1>9 DEF IInv, Alone, Staged
  <1>10. ASSUME NEW id \in Ids \ shared, jobs[id] # None, job[jobs[id]].state = "succeeded"
         PROVE  disk'[id] = disk[id]
    <2>1. jobs[id] \in Runs /\ job[jobs[id]].id = id
      BY <1>10 DEF IInv, TypeOK, Owned
    <2>2. jobs[id] # r
      BY <1>10
    <2>3. id # job[r].id
      BY <1>3, <1>10, <2>2 DEF IInv, Alone
    <2> QED BY <1>2, <2>3
  <1>11. Filed'
    BY <1>0, <1>1, <1>2, <1>4, <1>9 DEF IInv, Filed
  <1>12. Pure'
    <2> SUFFICES ASSUME shared = {}, NEW q \in Runs, pc'[q] # "none"
                 PROVE  Clean(pc'[q], disk'[job[q].id], work'[q])
      BY <1>0 DEF Pure
    <2>1. CASE q = r
      BY <1>1, <1>2, <1>4, <2>1
    <2>2. CASE q # r
      BY <1>1, <1>9, <2>2 DEF IInv, Pure
    <2> QED BY <2>1, <2>2
  <1>13. MappingLive' /\ OnePerPlan'
    BY <1>0 DEF IInv, MappingLive, OnePerPlan
  <1>14. ArtifactsKept' /\ NoSilentStill'
    BY <1>0, <1>10 DEF IInv, ArtifactsKept, NoSilentStill
  <1> QED BY <1>5, <1>6, <1>7, <1>8, <1>11, <1>12, <1>13, <1>14 DEF IInv

LEMMA StageFacts ==
  ASSUME IInv, NEW r \in Runs, pc[r] # "none"
  PROVE  /\ job[r] \in JobRecs /\ work[r] \in WorkRecs /\ job[r].id \in Ids
         /\ disk[job[r].id] \in [Segs -> Kinds]
         /\ PagesOf(r) \subseteq Segs
         /\ pc[r] \in Holding \ {"begin"} => job[r].state \in {"running", "canceled"}
         /\ shared = {} => Clean(pc[r], disk[job[r].id], work[r]) /\ \A s \in Segs : cache[s] # "still"
  <1>1. job[r] \in JobRecs /\ work[r] \in WorkRecs /\ job[r].id \in Ids
    BY DEF IInv, TypeOK, Staged
  <1>2. disk[job[r].id] \in [Segs -> Kinds]
    BY <1>1 DEF IInv, TypeOK
  <1>3. PagesOf(r) \subseteq Segs
    BY <1>1, IdsFacts, RenderAssumption DEF PagesOf, RenderAssumption
  <1>4. pc[r] \in Holding \ {"begin"} => job[r].state \in {"running", "canceled"}
    BY DEF IInv, Staged, Holding
  <1> QED BY <1>1, <1>2, <1>3, <1>4 DEF IInv, Pure

LEMMA DropInv == ASSUME IInv, NEW r \in Runs, Drop(r) PROVE IInv'
  <1>1. /\ pc[r] = "begin" /\ pc' = [pc EXCEPT ![r] = "announce"] /\ job[r].state = "canceled"
        /\ disk' = [disk EXCEPT ![job[r].id] = Empty]
        /\ UNCHANGED <<mapVars, job, stopped, cache, doomed, shared>>
    BY DEF Drop, Move
  <1> DEFINE w == [work[r] EXCEPT !.out = "canceled"]
  <1>2. work[r] \in WorkRecs /\ cache \in [Segs -> Kinds] /\ work \in [Runs -> WorkRecs]
    BY DEF IInv, TypeOK
  <1>3. w \in WorkRecs /\ w.out = "canceled" /\ work' = [work EXCEPT ![r] = w]
    BY <1>2 DEF WorkRecs, Drop
  <1> HIDE DEF w
  <1>4. shared = {} => Clean("announce", Empty, w) /\ \A s \in Segs : cache'[s] # "still"
    BY <1>1, <1>3 DEF Clean, IInv, Pure
  <1> QED BY <1>1, <1>2, <1>3, <1>4, BlankTypes, FileStep DEF Holding

LEMMA WipeInv == ASSUME IInv, NEW r \in Runs, Wipe(r) PROVE IInv'
  <1>1. pc[r] = "wipe" /\ UNCHANGED <<mapVars, job, stopped, cache, doomed, shared>>
    BY DEF Wipe, Move
  <1>2. /\ work[r] \in WorkRecs /\ cache \in [Segs -> Kinds] /\ disk[job[r].id] \in [Segs -> Kinds]
        /\ work \in [Runs -> WorkRecs] /\ disk \in [Ids -> [Segs -> Kinds]]
        /\ job[r].state \in {"running", "canceled"}
    BY <1>1, StageFacts DEF IInv, TypeOK, Holding
  <1>3. shared = {} => \A s \in Segs : cache'[s] # "still"
    BY <1>1 DEF IInv, Pure
  <1>4. CASE /\ pc' = [pc EXCEPT ![r] = "lookup"] /\ UNCHANGED work
             /\ disk' = [disk EXCEPT ![job[r].id] = Empty]
    <2>1. work' = [work EXCEPT ![r] = work[r]]
      BY <1>2, <1>4
    <2>2. Clean("lookup", Empty, work[r])
      BY BlankTypes DEF Clean
    <2> QED BY <1>1, <1>2, <1>3, <1>4, <2>1, <2>2, BlankTypes, FileStep DEF Holding
  <1>5. CASE /\ pc' = [pc EXCEPT ![r] = "announce"] /\ work' = [work EXCEPT ![r].out = "failed"]
             /\ disk' \in {disk, [disk EXCEPT ![job[r].id] = Empty]}
    <2> DEFINE w == [work[r] EXCEPT !.out = "failed"]
    <2>1. w \in WorkRecs /\ w.out = "failed" /\ work' = [work EXCEPT ![r] = w]
      BY <1>2, <1>5 DEF WorkRecs
    <2> HIDE DEF w
    <2>2. \A f : Clean("announce", f, w)
      BY <2>1 DEF Clean
    <2>3. PICK f \in [Segs -> Kinds] : disk' = [disk EXCEPT ![job[r].id] = f]
      <3>1. disk = [disk EXCEPT ![job[r].id] = disk[job[r].id]]
        BY <1>2
      <3> QED BY <1>2, <1>5, <3>1, BlankTypes
    <2> QED BY <1>1, <1>2, <1>3, <1>5, <2>1, <2>2, <2>3, FileStep DEF Holding
  <1> QED BY <1>4, <1>5 DEF Wipe, Move

LEMMA LookupInv == ASSUME IInv, NEW r \in Runs, Lookup(r) PROVE IInv'
  <1>1. /\ pc[r] = "lookup" /\ pc' = [pc EXCEPT ![r] = "render"]
        /\ UNCHANGED <<mapVars, job, stopped, cache, doomed, shared>>
    BY DEF Lookup, Move
  <1>2. PICK hit \in SUBSET {s \in PagesOf(r) : cache[s] # "none"} :
          /\ work' = [work EXCEPT ![r].hit = hit]
          /\ disk' = [disk EXCEPT ![job[r].id] =
                        [s \in Segs |-> IF s \in hit THEN cache[s] ELSE disk[job[r].id][s]]]
    BY DEF Lookup
  <1> DEFINE f == [s \in Segs |-> IF s \in hit THEN cache[s] ELSE disk[job[r].id][s]]
             w == [work[r] EXCEPT !.hit = hit]
  <1>3. /\ work[r] \in WorkRecs /\ cache \in [Segs -> Kinds] /\ disk[job[r].id] \in [Segs -> Kinds]
        /\ work \in [Runs -> WorkRecs] /\ job[r].state \in {"running", "canceled"}
        /\ PagesOf(r) \subseteq Segs
    BY <1>1, StageFacts DEF IInv, TypeOK, Holding
  <1>4. f \in [Segs -> Kinds] /\ disk' = [disk EXCEPT ![job[r].id] = f]
    BY <1>2, <1>3
  <1>5. w \in WorkRecs /\ work' = [work EXCEPT ![r] = w]
    BY <1>2, <1>3 DEF WorkRecs
  <1>6. shared = {} => Clean("render", f, w) /\ \A s \in Segs : cache'[s] # "still"
    BY <1>1, StageFacts DEF Clean
  <1> HIDE DEF f, w
  <1> QED BY <1>1, <1>3, <1>4, <1>5, <1>6, FileStep DEF Holding

LEMMA RenderPagesInv == ASSUME IInv, NEW r \in Runs, RenderPages(r) PROVE IInv'
  <1>1. pc[r] = "render" /\ UNCHANGED <<mapVars, job, stopped, cache, doomed, shared>>
    BY DEF RenderPages
  <1>2. PICK drawn \in [Dirty(r) -> Kinds], ok \in BOOLEAN :
          /\ pc' = [pc EXCEPT ![r] = IF ok THEN "store" ELSE "settle"]
          /\ disk' = [disk EXCEPT ![job[r].id] =
                        [s \in Segs |-> IF s \in Dirty(r) THEN drawn[s] ELSE disk[job[r].id][s]]]
          /\ work' = [work EXCEPT ![r].bad = {s \in Dirty(r) : drawn[s] # "motion"},
                                  ![r].out = IF ok THEN "none" ELSE "failed"]
    BY DEF RenderPages, Move
  <1> DEFINE f == [s \in Segs |-> IF s \in Dirty(r) THEN drawn[s] ELSE disk[job[r].id][s]]
             w == [work[r] EXCEPT !.bad = {s \in Dirty(r) : drawn[s] # "motion"},
                                  !.out = IF ok THEN "none" ELSE "failed"]
             p == IF ok THEN "store" ELSE "settle"
  <1>3. /\ work[r] \in WorkRecs /\ cache \in [Segs -> Kinds] /\ disk[job[r].id] \in [Segs -> Kinds]
        /\ work \in [Runs -> WorkRecs] /\ job[r].state \in {"running", "canceled"}
        /\ Dirty(r) \subseteq Segs
    BY <1>1, StageFacts DEF IInv, TypeOK, Holding, Dirty
  <1>4. f \in [Segs -> Kinds] /\ disk' = [disk EXCEPT ![job[r].id] = f]
    BY <1>2, <1>3
  <1>5. w \in WorkRecs /\ work' = [work EXCEPT ![r] = w] /\ w.bad = {s \in Dirty(r) : drawn[s] # "motion"}
    BY <1>2, <1>3 DEF WorkRecs
  <1>6. shared = {} => \A s \in Segs : f[s] = "still" => s \in w.bad
    BY <1>1, <1>3, <1>5, StageFacts DEF Clean
  <1>7. shared = {} => \A s \in Segs : cache'[s] # "still"
    BY <1>1 DEF IInv, Pure
  <1>8. p \in {"store", "settle"} /\ pc' = [pc EXCEPT ![r] = p]
    BY <1>2
  <1> HIDE DEF f, w, p
  <1>9. shared = {} => Clean(p, f, w)
    BY <1>6, <1>8 DEF Clean
  <1> QED BY <1>1, <1>3, <1>4, <1>5, <1>7, <1>8, <1>9, FileStep DEF Holding

LEMMA StoreSegmentsInv == ASSUME IInv, NEW r \in Runs, StoreSegments(r) PROVE IInv'
  <1>1. /\ pc[r] = "store" /\ pc' = [pc EXCEPT ![r] = "settle"]
        /\ UNCHANGED <<mapVars, job, stopped, work, disk, doomed, shared>>
    BY DEF StoreSegments, Move
  <1>2. PICK put \in SUBSET Storable(r) :
          cache' = [s \in Segs |-> IF s \in put THEN disk[job[r].id][s] ELSE cache[s]]
    BY DEF StoreSegments
  <1>3. /\ work[r] \in WorkRecs /\ cache \in [Segs -> Kinds] /\ disk[job[r].id] \in [Segs -> Kinds]
        /\ work \in [Runs -> WorkRecs] /\ job[r].state \in {"running", "canceled"}
        /\ disk \in [Ids -> [Segs -> Kinds]]
    BY <1>1, StageFacts DEF IInv, TypeOK, Holding
  <1>4. cache' \in [Segs -> Kinds]
    BY <1>2, <1>3
  <1>5. disk' = [disk EXCEPT ![job[r].id] = disk[job[r].id]] /\ work' = [work EXCEPT ![r] = work[r]]
    BY <1>1, <1>3
  <1>6. shared = {} => /\ Clean("settle", disk[job[r].id], work[r])
                       /\ \A s \in Segs : cache'[s] # "still"
    <2> SUFFICES ASSUME shared = {}
                 PROVE  /\ Clean("settle", disk[job[r].id], work[r])
                        /\ \A s \in Segs : cache'[s] # "still"
      OBVIOUS
    <2>1. \A s \in Segs : disk[job[r].id][s] = "still" => s \in work[r].bad
      BY <1>1, StageFacts DEF Clean
    <2>2. \A s \in put : s \notin work[r].bad
      BY DEF Storable
    <2>3. \A s \in Segs : cache[s] # "still"
      BY DEF IInv, Pure
    <2> QED BY <1>2, <2>1, <2>2, <2>3 DEF Clean
  <1> QED BY <1>1, <1>3, <1>4, <1>5, <1>6, FileStep DEF Holding

LEMMA SettleInv == ASSUME IInv, NEW r \in Runs, Settle(r) PROVE IInv'
  <1>1. /\ pc[r] = "settle" /\ pc' = [pc EXCEPT ![r] = "announce"]
        /\ UNCHANGED <<mapVars, job, stopped, cache, doomed, shared>>
    BY DEF Settle, Move
  <1>2. /\ work[r] \in WorkRecs /\ cache \in [Segs -> Kinds] /\ disk[job[r].id] \in [Segs -> Kinds]
        /\ work \in [Runs -> WorkRecs] /\ job[r].state \in {"running", "canceled"}
        /\ disk \in [Ids -> [Segs -> Kinds]]
    BY <1>1, StageFacts DEF IInv, TypeOK, Holding
  <1>3. shared = {} => \A s \in Segs : cache'[s] # "still"
    BY <1>1 DEF IInv, Pure
  <1>4. CASE Broke(r)
    <2> DEFINE o == IF r \in stopped THEN "canceled" ELSE "failed"
               w == [work[r] EXCEPT !.out = o]
    <2>1. o \in {"canceled", "failed"} /\ work' = [work EXCEPT ![r].out = o]
          /\ disk' = [disk EXCEPT ![job[r].id] = Empty]
      BY <1>4 DEF Settle
    <2> HIDE DEF o
    <2>2. w \in WorkRecs /\ w.out # "succeeded" /\ work' = [work EXCEPT ![r] = w]
      BY <1>2, <2>1 DEF WorkRecs
    <2> HIDE DEF w
    <2>3. Clean("announce", Empty, w)
      BY <2>2 DEF Clean
    <2> QED BY <1>1, <1>2, <1>3, <2>1, <2>2, <2>3, BlankTypes, FileStep DEF Holding
  <1>5. CASE ~Broke(r)
    <2>1. disk' = [disk EXCEPT ![job[r].id] = disk[job[r].id]]
      BY <1>2, <1>5 DEF Settle
    <2>2. CASE work' = [work EXCEPT ![r].out = "succeeded", ![r].arts = Listed(r)]
      <3> DEFINE l == Listed(r)
                 w == [work[r] EXCEPT !.out = "succeeded", !.arts = l]
      <3>1. l \in SUBSET Segs /\ \A s \in l : disk[job[r].id][s] # "none"
        BY DEF Listed
      <3>2. work' = [work EXCEPT ![r].out = "succeeded", ![r].arts = l]
        BY <2>2
      <3> HIDE DEF l
      <3>3. w \in WorkRecs /\ w.arts = l /\ w.bad = work[r].bad /\ work' = [work EXCEPT ![r] = w]
        BY <1>2, <3>1, <3>2 DEF WorkRecs
      <3> HIDE DEF w
      <3>4. shared = {} => Clean("announce", disk[job[r].id], w)
        BY <1>1, <1>5, <3>3, StageFacts DEF Clean, Broke
      <3> QED BY <1>1, <1>2, <1>3, <2>1, <3>1, <3>3, <3>4, FileStep DEF Holding
    <2>3. CASE work' = [work EXCEPT ![r].out = "failed"]
      <3> DEFINE w == [work[r] EXCEPT !.out = "failed"]
      <3>1. w \in WorkRecs /\ w.out = "failed" /\ work' = [work EXCEPT ![r] = w]
        BY <1>2, <2>3 DEF WorkRecs
      <3> HIDE DEF w
      <3>2. Clean("announce", disk[job[r].id], w)
        BY <3>1 DEF Clean
      <3> QED BY <1>1, <1>2, <1>3, <2>1, <3>1, <3>2, FileStep DEF Holding
    <2> QED BY <1>5, <2>2, <2>3 DEF Settle
  <1> QED BY <1>4, <1>5
-----------------------------------------------------------------------------
(* Steps of a goroutine on its job *)

LEMMA ReleaseFacts ==
  ASSUME IInv, NEW id \in Ids
  PROVE  /\ Release(id) \in [Plans -> Ids \cup {None}]
         /\ \A p \in Plans : Release(id)[p] = IF byHash[p] = id THEN None ELSE byHash[p]
  <1>1. byHash \in [Plans -> Ids \cup {None}] /\ PlanOf(id) \in Plans
    BY IdsFacts DEF IInv, TypeOK
  <1>2. Release(id) \in [Plans -> Ids \cup {None}]
    BY <1>1 DEF Release
  <1>3. \A p \in Plans : Release(id)[p] = IF p = PlanOf(id) /\ byHash[p] = id THEN None ELSE byHash[p]
    BY <1>1 DEF Release
  <1>4. \A p \in Plans : byHash[p] = id => p = PlanOf(id)
    BY IdsFacts DEF IInv, MappingLive
  <1> QED BY <1>2, <1>3, <1>4

\* The goroutine ends: Finish, with the slot or before it had one.
LEMMA EndStep ==
  ASSUME IInv, NEW r \in Runs, pc[r] # "none", pc' = [pc EXCEPT ![r] = "none"],
         NEW st \in States \cup {"none"}, st \notin {"queued", "running"},
         NEW arts \in SUBSET Segs, NEW deg \in SUBSET Segs,
         Finish(r, st, arts, deg),
         st = "succeeded" =>
           /\ job[r].state \in {"running", "canceled"}
           /\ job[r].id \notin shared /\ jobs[job[r].id] = r => \A s \in arts : disk[job[r].id][s] # "none"
           /\ shared = {} => \A s \in Segs : disk[job[r].id][s] = "still" => s \in deg,
         stopped' \in SUBSET Runs, NEW w \in WorkRecs, work' = [work EXCEPT ![r] = w],
         UNCHANGED <<jobs, attempts, fileVars>>
  PROVE  IInv'
  <1>1. job[r] \in JobRecs /\ job[r].id \in Ids
    BY StageFacts
  <1> DEFINE id == job[r].id
  <1>2. UNCHANGED <<jobs, attempts, disk, cache, doomed, shared>>
    BY DEF fileVars
  <1>3. PICK x \in JobRecs :
          /\ job' = [job EXCEPT ![r] = x] /\ x.id = id
          /\ \/ x.state = "canceled" /\ byHash' = Release(id)
             \/ x.state = st /\ st # "succeeded" /\ byHash' = Release(id)
             \/ /\ x.state = "succeeded" /\ st = "succeeded" /\ byHash' = byHash
                /\ x.arts = arts /\ x.degraded = deg /\ job[r].state # "canceled"
    <2>1. CASE job[r].state = "canceled" /\ st # "canceled"
      <3> DEFINE x == [job[r] EXCEPT !.degraded = deg]
      <3>1. x \in JobRecs /\ x.id = id /\ x.state = "canceled"
        BY <1>1, <2>1 DEF JobRecs
      <3>2. job' = [job EXCEPT ![r] = x] /\ byHash' = Release(id)
        BY <2>1 DEF Finish, IInv, TypeOK
      <3> QED BY <3>1, <3>2
    <2>2. CASE ~(job[r].state = "canceled" /\ st # "canceled")
      <3> DEFINE x == [id |-> id, state |-> st, arts |-> arts, degraded |-> deg]
      <3>1. x \in JobRecs /\ x.id = id /\ x.state = st /\ x.arts = arts /\ x.degraded = deg
        BY <1>1 DEF JobRecs
      <3>2. job' = [job EXCEPT ![r] = x] /\ byHash' = IF st = "succeeded" THEN byHash ELSE Release(id)
        BY <2>2 DEF Finish
      <3> HIDE DEF x
      <3> QED BY <2>2, <3>1, <3>2
    <2> QED BY <2>1, <2>2
  <1> HIDE DEF id
  <1>4. \A q \in Runs : /\ job'[q] = IF q = r THEN x ELSE job[q]
                        /\ pc'[q] = IF q = r THEN "none" ELSE pc[q]
                        /\ work'[q] = IF q = r THEN w ELSE work[q]
    BY <1>3 DEF IInv, TypeOK
  <1>5. /\ \A p \in Plans : byHash'[p] = byHash[p] \/ (byHash[p] = id /\ byHash'[p] = None)
        /\ x.state # "succeeded" => \A p \in Plans : byHash'[p] # id
        /\ byHash' \in [Plans -> Ids \cup {None}]
    <2>1. id \in Ids /\ id # None /\ byHash \in [Plans -> Ids \cup {None}]
      BY <1>1, IdsFacts DEF IInv, TypeOK, id
    <2>2. /\ Release(id) \in [Plans -> Ids \cup {None}]
          /\ \A p \in Plans : Release(id)[p] = IF byHash[p] = id THEN None ELSE byHash[p]
      BY <2>1, ReleaseFacts
    <2>3. CASE byHash' = Release(id)
      BY <2>1, <2>2, <2>3
    <2>4. CASE byHash' = byHash /\ x.state = "succeeded"
      BY <2>1, <2>4
    <2> QED BY <1>3, <2>3, <2>4
  <1>6. x.state \notin {"queued", "running"} /\ job[r].id = id /\ id \in Ids
    BY <1>1, <1>3 DEF id
  <1>7. \A i \in Ids : jobs[i] # None => jobs[i] \in Runs
    BY DEF IInv, TypeOK
  <1>8. TypeOK'
    BY <1>2, <1>3, <1>5 DEF IInv, TypeOK
  <1>9. Owned' /\ Staged'
    BY <1>2, <1>3, <1>4, <1>6, <1>7 DEF IInv, Owned, Staged
  <1>10. Counted'
    BY <1>2 DEF IInv, Counted, JobsOf
  <1>11. Alone'
    BY <1>2, <1>4, <1>6 DEF IInv, Alone
  <1>12. Filed' /\ Pure'
    BY <1>2, <1>4 DEF IInv, Filed, Pure
  <1>13. MappingLive'
    <2> SUFFICES ASSUME NEW p \in Plans, byHash'[p] # None
                 PROVE  /\ jobs[byHash'[p]] # None /\ PlanOf(byHash'[p]) = p
                        /\ job'[jobs[byHash'[p]]].state \in Alive
      BY <1>2 DEF MappingLive, Alive
    <2>1. byHash'[p] = byHash[p] /\ byHash[p] \in Ids
      BY <1>5 DEF IInv, TypeOK
    <2>2. jobs[byHash[p]] # None /\ PlanOf(byHash[p]) = p /\ job[jobs[byHash[p]]].state \in Alive
      BY <2>1 DEF IInv, MappingLive, Alive
    <2>3. CASE jobs[byHash[p]] = r
      <3>1. byHash[p] = id
        BY <2>1, <2>2, <2>3, <1>6 DEF IInv, Owned
      <3> QED BY <1>4, <1>5, <2>1, <2>2, <2>3, <3>1 DEF Alive
    <2>4. CASE jobs[byHash[p]] # r
      BY <1>4, <1>7, <2>1, <2>2, <2>4
    <2> QED BY <2>3, <2>4
  <1>14. OnePerPlan'
    <2> SUFFICES ASSUME NEW i \in Ids, jobs[i] # None, job'[jobs[i]].state \in Alive,
                        \A other \in shared : PlanOf(other) # PlanOf(i)
                 PROVE  byHash'[PlanOf(i)] = i
      BY <1>2 DEF OnePerPlan, Alive
    <2>1. i \notin shared /\ PlanOf(i) \in Plans /\ i # None
      BY IdsFacts
    <2>2. CASE jobs[i] = r
      <3>1. i = id /\ x.state = "succeeded"
        BY <1>4, <1>6, <2>2 DEF IInv, Owned, Alive
      <3>2. job[r].state = "running"
        BY <1>3, <3>1
      <3>3. byHash[PlanOf(i)] = i
        BY <2>2, <3>2 DEF IInv, OnePerPlan
      <3>4. byHash' = byHash
        BY <1>3, <3>1
      <3> QED BY <3>3, <3>4
    <2>3. CASE jobs[i] # r
      <3>1. byHash[PlanOf(i)] = i
        BY <1>4, <1>7, <2>3 DEF IInv, OnePerPlan, Alive
      <3>2. i # id
        BY <1>6, <2>1, <2>3 DEF IInv, Alone
      <3> QED BY <1>5, <2>1, <3>1, <3>2
    <2> QED BY <2>2, <2>3
  <1>15. ASSUME NEW i \in Ids, jobs[i] = r PROVE i = id
    BY <1>6, <1>15, IdsFacts DEF IInv, Owned
  <1>16. ArtifactsKept'
    <2> SUFFICES ASSUME NEW i \in Ids \ shared, jobs[i] # None, job'[jobs[i]].state = "succeeded",
                        NEW s \in job'[jobs[i]].arts
                 PROVE  disk[i][s] # "none"
      BY <1>2 DEF ArtifactsKept
    <2>1. CASE jobs[i] = r
      BY <1>3, <1>4, <1>6, <1>15, <2>1
    <2>2. CASE jobs[i] # r
      BY <1>4, <1>7, <2>2 DEF IInv, ArtifactsKept
    <2> QED BY <2>1, <2>2
  <1>17. NoSilentStill'
    <2> SUFFICES ASSUME shared = {}, NEW i \in Ids, jobs[i] # None, job'[jobs[i]].state = "succeeded",
                        NEW s \in job'[jobs[i]].arts, disk[i][s] = "still"
                 PROVE  s \in job'[jobs[i]].degraded
      BY <1>2 DEF NoSilentStill
    <2>1. CASE jobs[i] = r
      BY <1>3, <1>4, <1>6, <1>15, <2>1
    <2>2. CASE jobs[i] # r
      BY <1>4, <1>7, <2>2 DEF IInv, NoSilentStill
    <2> QED BY <2>1, <2>2
  <1> QED BY <1>8, <1>9, <1>10, <1>11, <1>12, <1>13, <1>14, <1>16, <1>17 DEF IInv

LEMMA LeaveQueueInv == ASSUME IInv, NEW r \in Runs, LeaveQueue(r) PROVE IInv'
  <1>1. /\ pc[r] = "slot" /\ pc' = [pc EXCEPT ![r] = "none"] /\ Finish(r, "canceled", {}, {})
        /\ stopped' \in SUBSET Runs /\ UNCHANGED <<jobs, attempts, fileVars>>
    BY DEF LeaveQueue, Move, IInv, TypeOK
  <1>2. work[r] \in WorkRecs /\ work' = [work EXCEPT ![r] = work[r]]
    BY DEF LeaveQueue, IInv, TypeOK
  <1>3. {} \in SUBSET Segs /\ "canceled" \in States
    BY DEF States
  <1>4. pc[r] # "none"
    BY <1>1
  <1> QED BY <1>1, <1>2, <1>3, <1>4, EndStep

LEMMA AnnounceInv == ASSUME IInv, NEW r \in Runs, Announce(r) PROVE IInv'
  <1> DEFINE deg == IF work[r].out = "succeeded" THEN work[r].bad ELSE {}
  <1>1. /\ pc[r] = "announce" /\ pc' = [pc EXCEPT ![r] = "none"]
        /\ Finish(r, work[r].out, work[r].arts, deg)
        /\ stopped' \in SUBSET Runs /\ UNCHANGED <<jobs, attempts, fileVars>>
        /\ work' = [work EXCEPT ![r] = NoWork]
    BY DEF Announce, Move, IInv, TypeOK
  <1>2. /\ work[r].out \in {"none", "succeeded", "failed", "canceled"} /\ work[r].arts \in SUBSET Segs
        /\ deg \in SUBSET Segs
    BY DEF IInv, TypeOK, WorkRecs
  <1>3. work[r].out = "succeeded" =>
          /\ job[r].state \in {"running", "canceled"}
          /\ job[r].id \notin shared /\ jobs[job[r].id] = r => \A s \in work[r].arts : disk[job[r].id][s] # "none"
          /\ shared = {} => \A s \in Segs : disk[job[r].id][s] = "still" => s \in deg
    BY <1>1, StageFacts DEF Holding, Clean, IInv, Filed
  <1> HIDE DEF deg
  <1> QED BY <1>1, <1>2, <1>3, BlankTypes, EndStep DEF States

\* A step that gives goroutine r a new position, and its job a state that fits.
LEMMA MoveStep ==
  ASSUME IInv, NEW r \in Runs, pc[r] # "none", NEW p \in {"begin", "wipe"},
         pc' = [pc EXCEPT ![r] = p],
         NEW st \in {"queued", "running", "canceled"}, job' = [job EXCEPT ![r].state = st],
         job[r].state \in {"queued", "canceled"}, st = "canceled" <=> job[r].state = "canceled",
         p = "begin" => st \in {"queued", "canceled"}, p = "wipe" => st \in {"running", "canceled"},
         UNCHANGED <<mapVars, stopped, work, fileVars>>
  PROVE  IInv'
  <1>1. UNCHANGED <<jobs, byHash, attempts, stopped, work, disk, cache, doomed, shared>>
    BY DEF mapVars, fileVars
  <1>2. \A q \in Runs :
          /\ job'[q].id = job[q].id /\ job'[q].arts = job[q].arts /\ job'[q].degraded = job[q].degraded
          /\ job'[q].state = IF q = r THEN st ELSE job[q].state
          /\ pc'[q] = IF q = r THEN p ELSE pc[q]
    BY DEF IInv, TypeOK, JobRecs
  <1>3. job' \in [Runs -> JobRecs]
    <2> DEFINE x == [job[r] EXCEPT !.state = st]
    <2>1. job[r] \in JobRecs /\ job \in [Runs -> JobRecs]
      BY DEF IInv, TypeOK
    <2>2. x \in JobRecs
      BY <2>1 DEF JobRecs, States
    <2>3. job' = [job EXCEPT ![r] = x]
      BY <2>1
    <2> HIDE DEF x
    <2> QED BY <2>1, <2>2, <2>3
  <1>4. \A id \in Ids : jobs[id] # None => jobs[id] \in Runs
    BY DEF IInv, TypeOK
  <1>5. \A p1 \in Plans : byHash[p1] # None => byHash[p1] \in Ids
    BY DEF IInv, TypeOK
  <1>6. TypeOK'
    BY <1>1, <1>3 DEF IInv, TypeOK, Holding
  <1>7. Owned' /\ Staged' /\ Counted'
    BY <1>1, <1>2, <1>4 DEF IInv, Owned, Staged, Counted, JobsOf
  <1>8. Alone'
    BY <1>1, <1>2 DEF IInv, Alone
  <1>9. Filed'
    BY <1>1, <1>2 DEF IInv, Filed
  <1>10. Pure'
    <2>1. ASSUME NEW f, NEW w PROVE Clean(p, f, w)
      BY DEF Clean
    <2> QED BY <1>1, <1>2, <2>1 DEF IInv, Pure
  <1>11. \A q \in Runs : job'[q].state \in Alive <=> job[q].state \in Alive
    BY <1>2 DEF Alive
  <1>12. MappingLive' /\ OnePerPlan'
    BY <1>1, <1>4, <1>5, <1>11 DEF IInv, MappingLive, OnePerPlan, Alive
  <1>13. ArtifactsKept' /\ NoSilentStill'
    BY <1>1, <1>2, <1>4 DEF IInv, ArtifactsKept, NoSilentStill
  <1> QED BY <1>6, <1>7, <1>8, <1>9, <1>10, <1>12, <1>13 DEF IInv

LEMMA AcquireSlotInv == ASSUME IInv, NEW r \in Runs, AcquireSlot(r) PROVE IInv'
  <1>1. /\ pc[r] = "slot" /\ pc' = [pc EXCEPT ![r] = "begin"]
        /\ UNCHANGED <<mapVars, job, stopped, work, fileVars>>
    BY DEF AcquireSlot, Move
  <1>2. job[r].state \in {"queued", "canceled"} /\ job[r] \in JobRecs /\ job \in [Runs -> JobRecs]
    BY <1>1 DEF IInv, Staged, TypeOK
  <1>3. job' = [job EXCEPT ![r].state = job[r].state]
    BY <1>1, <1>2 DEF JobRecs
  <1> QED BY <1>1, <1>2, <1>3, MoveStep

LEMMA BeginInv == ASSUME IInv, NEW r \in Runs, Begin(r) PROVE IInv'
  <1>1. /\ pc[r] = "begin" /\ pc' = [pc EXCEPT ![r] = "wipe"]
        /\ UNCHANGED <<mapVars, stopped, work, fileVars>>
        /\ job' = [job EXCEPT ![r].state = "running"] /\ job[r].state # "canceled"
    BY DEF Begin, Move
  <1>2. job[r].state = "queued"
    BY <1>1 DEF IInv, Staged
  <1> QED BY <1>1, <1>2, MoveStep
-----------------------------------------------------------------------------
(* The handlers and what happens in the background *)

LEMMA StutterInv == ASSUME IInv, UNCHANGED serviceVars PROVE IInv'
  <1>1. /\ jobs' = jobs /\ byHash' = byHash /\ attempts' = attempts /\ job' = job /\ pc' = pc
        /\ stopped' = stopped /\ work' = work /\ disk' = disk /\ cache' = cache
        /\ doomed' = doomed /\ shared' = shared
    BY DEF serviceVars
  <1>2. TypeOK'
    BY <1>1 DEF IInv, TypeOK
  <1>3. Owned' /\ Staged'
    BY <1>1 DEF IInv, Owned, Staged
  <1>4. Counted'
    BY <1>1 DEF IInv, Counted, JobsOf
  <1>5. Alone' /\ Filed'
    BY <1>1 DEF IInv, Alone, Filed
  <1>6. Pure'
    BY <1>1 DEF IInv, Pure
  <1>7. MappingLive' /\ OnePerPlan'
    BY <1>1 DEF IInv, MappingLive, OnePerPlan
  <1>8. ArtifactsKept' /\ NoSilentStill'
    BY <1>1 DEF IInv, ArtifactsKept, NoSilentStill
  <1> QED BY <1>2, <1>3, <1>4, <1>5, <1>6, <1>7, <1>8 DEF IInv

LEMMA AcceptInv == ASSUME IInv, NEW p \in Plans, Accept(p) PROVE IInv'
  <1> DEFINE id == NewId(p)
             x == [NoJob EXCEPT !.id = id, !.state = "queued"]
  <1>1. PICK r \in Runs :
          /\ Idle(r) /\ jobs' = [jobs EXCEPT ![id] = r]
          /\ job' = [job EXCEPT ![r] = x] /\ pc' = [pc EXCEPT ![r] = "slot"]
    BY DEF Accept
  <1>2. /\ byHash[p] = None /\ attempts[p].next < MaxAttempts[p]
        /\ byHash' = [byHash EXCEPT ![p] = id]
        /\ attempts' = [attempts EXCEPT ![p] = [next |-> attempts[p].next + 1, live |-> attempts[p].live + 1]]
        /\ shared' = IF Touched(id) THEN shared \cup {id} ELSE shared
        /\ UNCHANGED <<stopped, work, disk, cache, doomed>>
    BY DEF Accept
  <1>3. attempts[p].next \in Nat /\ attempts[p].live \in Nat
    BY DEF IInv, TypeOK
  <1>4. id \in Ids /\ PlanOf(id) = p /\ id[2] = attempts[p].next /\ id # None
    BY <1>2, <1>3, IdsFacts DEF NewId, PlanOf
  <1>5. jobs[id] = None
    <2> HIDE DEF id
    <2> SUFFICES ASSUME jobs[id] # None PROVE FALSE
      OBVIOUS
    <2>1. id \in JobsOf(p)
      BY <1>4 DEF JobsOf
    <2>2. id[2] < attempts[p].next
      BY <2>1 DEF IInv, Counted
    <2> QED BY <1>3, <1>4, <2>2
  <1>6. x \in JobRecs /\ x.id = id /\ x.state = "queued"
    BY <1>4 DEF NoJob, JobRecs, States
  <1>7. pc[r] = "none" /\ (\A i \in Ids : jobs[i] # r)
    BY <1>1 DEF Idle
  <1>8. Touched(id) \/ (/\ \A d \in doomed : d[1] # id
                        /\ \A q \in Runs : pc[q] = "none" \/ job[q].id # id)
    BY DEF Touched
  <1>9. Touched(id) => id \in shared'
    BY <1>2
  <1> HIDE DEF id, x
  <1>10. /\ \A i \in Ids : jobs'[i] = IF i = id THEN r ELSE jobs[i]
         /\ \A q \in Runs : job'[q] = IF q = r THEN x ELSE job[q]
         /\ \A q \in Runs : pc'[q] = IF q = r THEN "slot" ELSE pc[q]
         /\ \A q \in Plans : byHash'[q] = IF q = p THEN id ELSE byHash[q]
    BY <1>1, <1>2, <1>4 DEF IInv, TypeOK
  <1>11. /\ \A i \in Ids : jobs[i] # None => jobs[i] \in Runs
         /\ \A q \in Plans : byHash[q] # None => byHash[q] \in Ids
         /\ r # None /\ shared \subseteq shared' /\ shared' \subseteq shared \cup {id}
    BY <1>2, IdsFacts DEF IInv, TypeOK
  <1>12. TypeOK'
    <2>1. shared' \in SUBSET Ids
      BY <1>2, <1>4 DEF IInv, TypeOK
    <2>2. attempts' \in [Plans -> [next: Nat, live: Nat]]
      BY <1>2, <1>3 DEF IInv, TypeOK
    <2> QED BY <1>1, <1>2, <1>4, <1>6, <2>1, <2>2 DEF IInv, TypeOK
  <1>13. Owned'
    BY <1>6, <1>7, <1>10, <1>11 DEF IInv, Owned
  <1>14. Staged'
    BY <1>4, <1>6, <1>10 DEF IInv, Staged
  <1>15. Counted'
    <2>1. JobsOf(p)' = JobsOf(p) \cup {id} /\ id \notin JobsOf(p)
      BY <1>4, <1>5, <1>10, <1>11 DEF JobsOf
    <2>2. Cardinality(JobsOf(p)') = Cardinality(JobsOf(p)) + 1
      BY <2>1, JobsOfFinite, FS_AddElement
    <2>3. \A q \in Plans \ {p} : JobsOf(q)' = JobsOf(q)
      BY <1>4, <1>10 DEF JobsOf
    <2>4. \A i \in JobsOf(p)' : i[2] < attempts[p].next + 1
      <3>1. \A i \in JobsOf(p) : i[2] < attempts[p].next /\ i[2] \in Nat
        BY IdsFacts DEF IInv, Counted, JobsOf
      <3> QED BY <1>3, <1>4, <2>1, <3>1
    <2>5. /\ attempts'[p].next = attempts[p].next + 1 /\ attempts'[p].live = attempts[p].live + 1
          /\ \A q \in Plans \ {p} : attempts'[q] = attempts[q]
      BY <1>2 DEF IInv, TypeOK
    <2>6. attempts[p].live = Cardinality(JobsOf(p))
      BY DEF IInv, Counted
    <2>7. \A q \in Plans \ {p} : /\ attempts'[q].live = Cardinality(JobsOf(q)')
                                 /\ \A i \in JobsOf(q)' : i[2] < attempts'[q].next
      BY <2>3, <2>5 DEF IInv, Counted
    <2>8. attempts'[p].live = Cardinality(JobsOf(p)') /\ \A i \in JobsOf(p)' : i[2] < attempts'[p].next
      BY <2>2, <2>4, <2>5, <2>6
    <2> QED BY <2>7, <2>8 DEF Counted
  <1>16. Alone'
    <2>1. \A q \in Runs : pc'[q] # "none" => job'[q].id \in Ids
      BY <1>4, <1>6, <1>10 DEF IInv, Staged
    <2>2. \A d \in doomed : d[1] \in Ids
      BY DEF IInv, TypeOK
    <2>3. ASSUME NEW q \in Runs, pc'[q] # "none", job'[q].id \notin shared'
          PROVE  /\ jobs'[job'[q].id] \in {q, None}
                 /\ \A o \in Runs : pc'[o] # "none" /\ job'[o].id = job'[q].id => o = q
      <3>1. CASE q = r
        BY <1>4, <1>6, <1>8, <1>9, <1>10, <2>3, <3>1
      <3>2. CASE q # r
        <4>1. pc[q] # "none" /\ job'[q].id = job[q].id /\ job[q].id \notin shared
          BY <1>10, <1>11, <2>3, <3>2
        <4>2. job[q].id # id
          BY <1>8, <1>9, <2>3, <4>1
        <4>3. /\ jobs[job[q].id] \in {q, None}
              /\ \A o \in Runs : pc[o] # "none" /\ job[o].id = job[q].id => o = q
          BY <4>1 DEF IInv, Alone
        <4> QED BY <1>6, <1>10, <2>1, <2>3, <4>1, <4>2, <4>3
      <3> QED BY <3>1, <3>2
    <2>4. \A d \in doomed : d[1] \notin shared' => jobs'[d[1]] = None
      BY <1>8, <1>9, <1>10, <1>11, <2>2 DEF IInv, Alone
    <2> QED BY <1>2, <2>3, <2>4 DEF Alone
  <1>17. Filed'
    <2>1. \A q \in Runs : pc'[q] = "announce" => q # r /\ pc[q] = "announce" /\ job'[q] = job[q]
                                               /\ job[q].id \in Ids
      BY <1>10 DEF IInv, Staged
    <2> QED BY <1>2, <1>10, <1>11, <2>1 DEF IInv, Filed
  <1>18. Pure'
    <2>1. shared' = {} => shared = {}
      BY <1>11
    <2>2. \A f, w : Clean("slot", f, w)
      BY DEF Clean
    <2> QED BY <1>2, <1>10, <2>1, <2>2 DEF IInv, Pure
  <1>19. MappingLive'
    BY <1>2, <1>4, <1>5, <1>6, <1>7, <1>10, <1>11 DEF IInv, MappingLive
  <1>20. OnePerPlan'
    <2> SUFFICES ASSUME NEW i \in Ids, jobs'[i] # None, job'[jobs'[i]].state \in Alive,
                        \A other \in shared' : PlanOf(other) # PlanOf(i)
                 PROVE  byHash'[PlanOf(i)] = i
      BY DEF OnePerPlan, Alive
    <2>1. PlanOf(i) \in Plans
      BY IdsFacts
    <2>2. CASE i = id
      BY <1>4, <1>10, <2>2
    <2>3. CASE i # id
      <3>1. jobs'[i] = jobs[i] /\ job'[jobs[i]] = job[jobs[i]]
        BY <1>7, <1>10, <1>11, <2>3
      <3>2. byHash[PlanOf(i)] = i
        BY <1>11, <3>1 DEF IInv, OnePerPlan, Alive
      <3>3. i # None
        BY IdsFacts
      <3> QED BY <1>2, <1>10, <2>1, <3>2, <3>3
    <2> QED BY <2>2, <2>3
  <1>21. \A i \in Ids : jobs'[i] # None /\ job'[jobs'[i]].state = "succeeded" =>
            jobs'[i] = jobs[i] /\ job'[jobs'[i]] = job[jobs[i]]
    BY <1>6, <1>7, <1>10, <1>11
  <1>22. ArtifactsKept' /\ NoSilentStill'
    BY <1>2, <1>11, <1>21 DEF IInv, ArtifactsKept, NoSilentStill
  <1> QED BY <1>12, <1>13, <1>14, <1>15, <1>16, <1>17, <1>18, <1>19, <1>20, <1>22 DEF IInv

LEMMA CancelInv == ASSUME IInv, NEW id \in Ids, Cancel(id) PROVE IInv'
  <1> DEFINE r == jobs[id]
  <1>1. r \in Runs /\ job[r] \in JobRecs /\ job[r].id = id
    BY DEF Cancel, IInv, TypeOK, Owned
  <1>2. UNCHANGED <<jobs, attempts, pc, work, disk, cache, doomed, shared>>
    BY DEF Cancel, fileVars
  <1>3. CASE UNCHANGED <<byHash, job, stopped>>
    <2>1. UNCHANGED serviceVars
      BY <1>2, <1>3 DEF serviceVars
    <2> QED BY <2>1, StutterInv
  <1>4. CASE /\ job[r].state \in {"queued", "running", "canceled"} /\ byHash' = Release(id)
             /\ \/ UNCHANGED <<job, stopped>> /\ job[r].state = "canceled"
                \/ /\ job' = [job EXCEPT ![r] = [job[r] EXCEPT !.state = "canceled"]]
                   /\ stopped' = stopped \cup {r}
    <2>1. PICK x \in JobRecs : job' = [job EXCEPT ![r] = x] /\ x.id = id /\ x.state = "canceled"
      <3>1. CASE UNCHANGED <<job, stopped>> /\ job[r].state = "canceled"
        <4>1. job' = [job EXCEPT ![r] = job[r]]
          BY <1>1, <3>1 DEF IInv, TypeOK
        <4> QED BY <1>1, <3>1, <4>1
      <3>2. CASE job' = [job EXCEPT ![r] = [job[r] EXCEPT !.state = "canceled"]]
        <4> DEFINE x == [job[r] EXCEPT !.state = "canceled"]
        <4>1. x \in JobRecs /\ x.id = id /\ x.state = "canceled"
          BY <1>1 DEF JobRecs, States
        <4>2. job' = [job EXCEPT ![r] = x]
          BY <3>2
        <4> HIDE DEF x
        <4> QED BY <4>1, <4>2
      <3> QED BY <1>4, <3>1, <3>2
    <2>2. stopped' \in SUBSET Runs
      BY <1>1, <1>4 DEF IInv, TypeOK
    <2> HIDE DEF r
    <2>3. \A q \in Runs : job'[q] = IF q = r THEN x ELSE job[q]
      BY <2>1 DEF IInv, TypeOK
    <2>4. /\ byHash' \in [Plans -> Ids \cup {None}]
          /\ \A p \in Plans : byHash'[p] = IF byHash[p] = id THEN None ELSE byHash[p]
      BY <1>4, ReleaseFacts
    <2>5. \A i \in Ids : jobs[i] # None => jobs[i] \in Runs /\ (jobs[i] = r <=> i = id)
      BY <1>1, IdsFacts DEF IInv, TypeOK, Owned, r
    <2>6. id # None
      BY IdsFacts
    <2>7. TypeOK'
      BY <1>1, <1>2, <2>1, <2>2, <2>4 DEF IInv, TypeOK
    <2>8. Owned' /\ Staged' /\ Counted'
      BY <1>1, <1>2, <2>1, <2>3, <2>5 DEF IInv, Owned, Staged, Counted, JobsOf
    <2>9. Alone' /\ Filed' /\ Pure'
      BY <1>1, <1>2, <2>1, <2>3 DEF IInv, Alone, Filed, Pure
    <2>10. MappingLive'
      BY <1>2, <2>3, <2>4, <2>5 DEF IInv, MappingLive, TypeOK
    <2>11. OnePerPlan'
      <3> SUFFICES ASSUME NEW i \in Ids, jobs[i] # None, job'[jobs[i]].state \in Alive,
                          \A other \in shared : PlanOf(other) # PlanOf(i)
                   PROVE  byHash'[PlanOf(i)] = i
        BY <1>2 DEF OnePerPlan, Alive
      <3>1. i # id
        BY <2>1, <2>3, <2>5 DEF Alive
      <3>2. byHash[PlanOf(i)] = i
        BY <2>3, <2>5, <3>1 DEF IInv, OnePerPlan, Alive
      <3> QED BY <2>4, <3>1, <3>2, IdsFacts
    <2>12. ArtifactsKept' /\ NoSilentStill'
      BY <1>2, <2>1, <2>3, <2>5 DEF IInv, ArtifactsKept, NoSilentStill
    <2> QED BY <2>7, <2>8, <2>9, <2>10, <2>11, <2>12 DEF IInv
  <1> QED BY <1>3, <1>4 DEF Cancel

LEMMA SweepInv == ASSUME IInv, NEW expired \in SUBSET Ended, Sweep(expired) PROVE IInv'
  <1>1. /\ jobs' = [id \in Ids |-> IF id \in expired THEN None ELSE jobs[id]]
        /\ byHash' = [p \in Plans |-> IF byHash[p] \in expired THEN None ELSE byHash[p]]
        /\ attempts' = [p \in Plans |-> Dropped(p, expired)]
        /\ doomed' = doomed \cup {<<id, jobs[id]>> : id \in expired}
        /\ job' = [r \in Runs |-> IF pc[r] = "none" /\ \E id \in expired : jobs[id] = r
                                    THEN NoJob ELSE job[r]]
        /\ UNCHANGED <<pc, stopped, work, disk, cache, shared>>
    BY DEF Sweep, runVars
  <1>2. \A i \in Ids : jobs[i] # None => jobs[i] \in Runs /\ job[jobs[i]].id = i
    BY DEF IInv, TypeOK, Owned
  <1>3. \A i \in Ids : jobs'[i] # None => /\ i \notin expired /\ jobs'[i] = jobs[i]
                                          /\ job'[jobs[i]] = job[jobs[i]]
    <2> SUFFICES ASSUME NEW i \in Ids, jobs'[i] # None
                 PROVE  i \notin expired /\ jobs'[i] = jobs[i] /\ job'[jobs[i]] = job[jobs[i]]
      OBVIOUS
    <2>1. i \notin expired /\ jobs'[i] = jobs[i]
      BY <1>1
    <2>2. \A id \in expired : id \in Ids /\ jobs[id] # jobs[i]
      BY <1>2, <2>1 DEF Ended
    <2> QED BY <1>1, <1>2, <2>1, <2>2
  <1>4. \A p \in Plans : byHash'[p] # None => byHash'[p] = byHash[p] /\ byHash[p] \in Ids \ expired
    BY <1>1 DEF IInv, TypeOK
  <1>5. \A r \in Runs : pc[r] # "none" => job'[r] = job[r]
    BY <1>1
  <1>6. Counted' /\ attempts' \in [Plans -> [next: Nat, live: Nat]]
    <2> SUFFICES ASSUME NEW p \in Plans
                 PROVE  /\ attempts'[p].live = Cardinality(JobsOf(p)')
                        /\ \A i \in JobsOf(p)' : i[2] < attempts'[p].next
                        /\ attempts'[p] \in [next: Nat, live: Nat]
      BY <1>1 DEF Counted
    <2> DEFINE E == {id \in expired : PlanOf(id) = p}
    <2>1. JobsOf(p)' = JobsOf(p) \ E
      BY <1>1 DEF JobsOf, Ended
    <2>2. JobsOf(p) \cap E = E
      BY DEF JobsOf, Ended
    <2>3. IsFiniteSet(JobsOf(p)') /\ Cardinality(JobsOf(p)') = Cardinality(JobsOf(p)) - Cardinality(E)
      <3>1. IsFiniteSet(JobsOf(p))
        BY JobsOfFinite
      <3> HIDE DEF E
      <3>2. /\ IsFiniteSet(JobsOf(p) \ E)
            /\ Cardinality(JobsOf(p) \ E) = Cardinality(JobsOf(p)) - Cardinality(JobsOf(p) \cap E)
        BY <3>1, FS_Difference
      <3> QED BY <2>1, <2>2, <3>2
    <2>4. Cardinality(JobsOf(p)') \in Nat
      BY <2>3, FS_CardinalityType
    <2>5. attempts[p].live = Cardinality(JobsOf(p)) /\ attempts[p] \in [next: Nat, live: Nat]
      BY DEF IInv, Counted, TypeOK
    <2>6. Dropped(p, expired) = LET live == attempts[p].live - Cardinality(E)
                       IN IF live = 0 THEN [next |-> 0, live |-> 0] ELSE [attempts[p] EXCEPT !.live = live]
      BY DEF Dropped
    <2>7. attempts'[p] = Dropped(p, expired)
      BY <1>1
    <2> DEFINE n == Cardinality(JobsOf(p)')
    <2>8. attempts[p].live - Cardinality(E) = n
      BY <2>3, <2>5
    <2>9. attempts'[p] = IF n = 0 THEN [next |-> 0, live |-> 0] ELSE [attempts[p] EXCEPT !.live = n]
      BY <2>6, <2>7, <2>8
    <2> HIDE DEF E
    <2>10. CASE n = 0
      <3>1. JobsOf(p)' = {}
        BY <2>3, <2>10, FS_EmptySet
      <3> QED BY <2>9, <2>10, <3>1
    <2>11. CASE n # 0
      <3>1. attempts'[p].next = attempts[p].next
        BY <2>5, <2>9, <2>11
      <3>2. \A i \in JobsOf(p)' : i[2] < attempts[p].next
        BY <2>1 DEF IInv, Counted
      <3>3. attempts'[p].live = n /\ attempts'[p] \in [next: Nat, live: Nat]
        <4> HIDE DEF n
        <4>1. n \in Nat
          BY <2>4 DEF n
        <4> QED BY <2>5, <2>9, <2>11, <4>1
      <3> QED BY <3>1, <3>2, <3>3
    <2> QED BY <2>10, <2>11
  <1>7. TypeOK'
    <2>1. jobs' \in [Ids -> Runs \cup {None}] /\ byHash' \in [Plans -> Ids \cup {None}]
      BY <1>1 DEF IInv, TypeOK
    <2>2. job' \in [Runs -> JobRecs]
      BY <1>1, BlankTypes DEF IInv, TypeOK
    <2>3. doomed' \in SUBSET (Ids \X Runs)
      BY <1>1, <1>2 DEF IInv, TypeOK, Ended
    <2> QED BY <1>1, <1>6, <2>1, <2>2, <2>3 DEF IInv, TypeOK
  <1>8. Owned' /\ Staged'
    BY <1>1, <1>2, <1>3, <1>5 DEF IInv, Owned, Staged
  <1>9. Alone'
    <2>1. ASSUME NEW r \in Runs, pc[r] # "none", job[r].id \notin shared
          PROVE  jobs'[job[r].id] \in {r, None}
      <3>1. job[r].id \in Ids /\ jobs[job[r].id] \in {r, None}
        BY <2>1 DEF IInv, Alone, Staged
      <3> QED BY <1>1, <3>1
    <2>2. ASSUME NEW d \in doomed', d[1] \notin shared
          PROVE  jobs'[d[1]] = None
      <3>1. CASE d \in doomed
        <4>1. d[1] \in Ids /\ jobs[d[1]] = None
          BY <2>2, <3>1 DEF IInv, Alone, TypeOK
        <4> QED BY <1>1, <4>1
      <3>2. CASE d \in {<<id, jobs[id]>> : id \in expired}
        <4>1. d[1] \in expired /\ d[1] \in Ids
          BY <3>2 DEF Ended
        <4> QED BY <1>1, <4>1
      <3> QED BY <1>1, <3>1, <3>2
    <2> QED BY <1>1, <1>5, <2>1, <2>2 DEF IInv, Alone
  <1>10. Filed'
    <2> SUFFICES ASSUME NEW r \in Runs, pc[r] = "announce", work[r].out = "succeeded",
                        job'[r].id \notin shared, jobs'[job'[r].id] = r, NEW s \in work[r].arts
                 PROVE  disk[job'[r].id][s] # "none"
      BY <1>1 DEF Filed
    <2>1. job'[r] = job[r] /\ job[r].id \in Ids /\ r # None
      BY <1>5, IdsFacts DEF IInv, Staged
    <2>2. jobs[job[r].id] = r
      BY <1>3, <2>1
    <2> QED BY <2>1, <2>2 DEF IInv, Filed
  <1>11. Pure'
    BY <1>1, <1>5 DEF IInv, Pure
  <1>12. MappingLive'
    <2> SUFFICES ASSUME NEW p \in Plans, byHash'[p] # None
                 PROVE  /\ jobs'[byHash'[p]] # None /\ PlanOf(byHash'[p]) = p
                        /\ job'[jobs'[byHash'[p]]].state \in Alive
      BY DEF MappingLive, Alive
    <2>1. byHash'[p] = byHash[p] /\ byHash[p] \in Ids \ expired /\ byHash[p] # None
      BY <1>4
    <2>2. jobs[byHash[p]] # None /\ PlanOf(byHash[p]) = p /\ job[jobs[byHash[p]]].state \in Alive
      BY <2>1 DEF IInv, MappingLive, Alive
    <2>3. jobs'[byHash[p]] = jobs[byHash[p]]
      BY <1>1, <2>1
    <2> QED BY <1>3, <2>1, <2>2, <2>3
  <1>13. OnePerPlan'
    <2> SUFFICES ASSUME NEW i \in Ids, jobs'[i] # None, job'[jobs'[i]].state \in Alive,
                        \A other \in shared : PlanOf(other) # PlanOf(i)
                 PROVE  byHash'[PlanOf(i)] = i
      BY <1>1 DEF OnePerPlan, Alive
    <2>1. i \notin expired /\ byHash[PlanOf(i)] = i /\ PlanOf(i) \in Plans
      BY <1>3, IdsFacts DEF IInv, OnePerPlan, Alive
    <2> QED BY <1>1, <2>1
  <1>14. ArtifactsKept' /\ NoSilentStill'
    BY <1>1, <1>3 DEF IInv, ArtifactsKept, NoSilentStill
  <1> QED BY <1>6, <1>7, <1>8, <1>9, <1>10, <1>11, <1>12, <1>13, <1>14 DEF IInv

LEMMA RemoveDirInv == ASSUME IInv, NEW d \in doomed, RemoveDir(d) PROVE IInv'
  <1>1. /\ disk' = [disk EXCEPT ![d[1]] = Empty] /\ doomed' = doomed \ {d}
        /\ UNCHANGED <<jobs, byHash, attempts, job, pc, stopped, work, cache, shared>>
    BY DEF RemoveDir, mapVars, runVars
  <1>2. /\ d[1] \in Ids
        /\ \A i \in Ids : disk'[i] = IF i = d[1] THEN Empty ELSE disk[i]
    BY <1>1 DEF IInv, TypeOK
  <1>3. \A i \in Ids \ shared : jobs[i] # None => disk'[i] = disk[i]
    BY <1>2 DEF IInv, Alone
  <1>4. TypeOK'
    BY <1>1, BlankTypes DEF IInv, TypeOK
  <1>5. Owned' /\ Staged' /\ Counted' /\ Alone'
    BY <1>1 DEF IInv, Owned, Staged, Counted, JobsOf, Alone
  <1>6. Filed'
    BY <1>1, <1>3, IdsFacts DEF IInv, Filed, Staged
  <1>7. Pure'
    <2>1. \A p, w : Clean(p, Empty, w)
      BY BlankTypes DEF Clean
    <2> QED BY <1>1, <1>2, <2>1 DEF IInv, Pure, Staged
  <1>8. MappingLive' /\ OnePerPlan' /\ ArtifactsKept' /\ NoSilentStill'
    BY <1>1, <1>3 DEF IInv, MappingLive, OnePerPlan, ArtifactsKept, NoSilentStill
  <1> QED BY <1>4, <1>5, <1>6, <1>7, <1>8 DEF IInv

LEMMA EvictInv == ASSUME IInv, NEW s \in Segs, Evict(s) PROVE IInv'
  <1>1. /\ cache' = [cache EXCEPT ![s] = "none"]
        /\ UNCHANGED <<jobs, byHash, attempts, job, pc, stopped, work, disk, doomed, shared>>
    BY DEF Evict, mapVars, runVars
  <1>2. TypeOK'
    BY <1>1 DEF IInv, TypeOK, Kinds
  <1>3. Owned' /\ Staged' /\ Counted' /\ Alone' /\ Filed'
    BY <1>1 DEF IInv, Owned, Staged, Counted, JobsOf, Alone, Filed
  <1>4. Pure'
    BY <1>1 DEF IInv, Pure, TypeOK
  <1>5. MappingLive' /\ OnePerPlan' /\ ArtifactsKept' /\ NoSilentStill'
    BY <1>1 DEF IInv, MappingLive, OnePerPlan, ArtifactsKept, NoSilentStill
  <1> QED BY <1>2, <1>3, <1>4, <1>5 DEF IInv

LEMMA RestartInv == ASSUME IInv, Restart PROVE IInv'
  <1>1. /\ \A id \in Ids : jobs'[id] = None
        /\ \A p \in Plans : byHash'[p] = None /\ attempts'[p] = [next |-> 0, live |-> 0]
        /\ \A r \in Runs : pc'[r] = "none"
        /\ doomed' = {} /\ cache' = cache /\ shared' = shared
    BY DEF Restart
  <1>2. TypeOK'
    BY BlankTypes DEF Restart, IInv, TypeOK
  <1>3. Owned' /\ Staged' /\ Alone' /\ Filed' /\ Pure'
    BY <1>1 DEF IInv, Owned, Staged, Alone, Filed, Pure
  <1>4. Counted'
    <2>1. \A p \in Plans : JobsOf(p)' = {}
      BY <1>1 DEF JobsOf
    <2> QED BY <1>1, <2>1, FS_EmptySet DEF Counted
  <1>5. MappingLive' /\ OnePerPlan' /\ ArtifactsKept' /\ NoSilentStill'
    BY <1>1 DEF MappingLive, OnePerPlan, ArtifactsKept, NoSilentStill
  <1> QED BY <1>2, <1>3, <1>4, <1>5 DEF IInv
-----------------------------------------------------------------------------
LEMMA NextInv == ASSUME IInv, [Next]_serviceVars PROVE IInv'
  <1>1. ASSUME NEW r \in Runs, Step(r) PROVE IInv'
    BY <1>1, AcquireSlotInv, LeaveQueueInv, BeginInv, DropInv, WipeInv, LookupInv, RenderPagesInv,
       StoreSegmentsInv, SettleInv, AnnounceInv DEF Step
  <1>2. ASSUME Background PROVE IInv'
    BY <1>1, <1>2, SweepInv, RemoveDirInv, EvictInv, RestartInv DEF Background
  <1> QED BY <1>2, AcceptInv, CancelInv, StutterInv DEF Next

LEMMA InvHolds == Spec => []IInv
  BY InitInv, NextInv, PTL DEF Spec

\* The variables keep their types; in particular no plan counts fewer jobs than none.
THEOREM TypeCorrect == Spec => []TypeOK
  <1>1. IInv => TypeOK
    BY DEF IInv
  <1> QED BY <1>1, InvHolds, PTL

\* The mapping of a plan leads to a job that is in the map and has not ended badly.
THEOREM MappingCorrect == Spec => []MappingLive
  <1>1. IInv => MappingLive
    BY DEF IInv
  <1> QED BY <1>1, InvHolds, PTL

\* A plan is not rendered twice, its shared ids apart.
THEOREM OneCorrect == Spec => []OnePerPlan
  <1>1. IInv => OnePerPlan
    BY DEF IInv
  <1> QED BY <1>1, InvHolds, PTL

\* What a job has listed can be downloaded while the job is known.
THEOREM ArtifactsCorrect == Spec => []ArtifactsKept
  <1>1. IInv => ArtifactsKept
    BY DEF IInv
  <1> QED BY <1>1, InvHolds, PTL

\* A still page is reported, whether it was rendered just now or comes from the cache.
THEOREM StillCorrect == Spec => []NoSilentStill
  <1>1. IInv => NoSilentStill
    BY DEF IInv
  <1> QED BY <1>1, InvHolds, PTL
=============================================================================
