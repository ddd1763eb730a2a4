---------------------------- MODULE ConsoleProofs ----------------------------
(***************************************************************************)
(* What the console in the browser keeps: the jobs it follows and the      *)
(* animation editor.  JobEvents and AnimationSpecs have no state in        *)
(* common; their proofs stand in one module, each about its own            *)
(* specification.                                                          *)
(*                                                                         *)
(* Resuming a broken stream of job events neither repeats an event, on any *)
(* database, nor skips one on SQLite, for any number of jobs, changes and  *)
(* broken streams and any page size; and the events of one job are         *)
(* numbered in the order of its changes on both.  The numbers of all       *)
(* events differ and are below next; on SQLite the one open transaction    *)
(* has the greatest of them, on PostgreSQL a job has at most one open      *)
(* transaction, whose snapshot is newer than the row.  What is under way   *)
(* lies above last and up to the cursor.                                   *)
(*                                                                         *)
(* Animation plans, for any script, any clips and any crews.  The          *)
(* invariant is the types, which say that whatever the editor may save     *)
(* carries the number of the plan its author has seen, and that what an    *)
(* export or apply-all has read is what the row still holds, or once held. *)
(***************************************************************************)
EXTENDS JobEvents, AnimationSpecs, FiniteSetTheorems, TLAPS

Sqlite == backend = "sqlite"

\* Numbers tell events apart and come from the sequence.
Numbered ==
  /\ next >= 1
  /\ \A e \in log \cup open : 1 <= e.seq /\ e.seq < next
  /\ \A e, f \in log \cup open : e.seq = f.seq => e = f
  /\ Sqlite => \A t, u \in open : t = u
  /\ Sqlite => \A e \in log, t \in open : e.seq < t.seq

\* A transaction holds the lock of its row: its event is newer than all of that job.
Locked ==
  /\ \A t, u \in open : t.job = u.job => t = u
  /\ \A t \in open : table[t.job].n < t.snap.n
  /\ \A e \in log : e.snap.n <= table[e.job].n
  /\ \A e \in log, t \in open : e.job = t.job => e.seq < t.seq
  /\ InOrderOfChange

\* The positions of stream and console.
Placed ==
  /\ stream \subseteq log
  /\ \A e \in stream : last < e.seq /\ e.seq <= cursor
  /\ \A n \in got : n <= last
  /\ online => last <= cursor
  /\ ~online => stream = {}
  /\ cursor < next /\ last < next
  /\ Sqlite => \A t \in open : cursor < t.seq /\ last < t.seq

\* On SQLite nothing at or below the positions is missing.
Delivered ==
  Sqlite => \A e \in log :
    /\ e.seq <= last => e.seq \in got
    /\ online /\ e.seq <= cursor => e.seq \in got \/ e \in stream

IInv == TypeOK /\ IsFiniteSet(log) /\ Numbered /\ Locked /\ Placed /\ Delivered

LEMMA InitInv == Init => IInv
  <1> SUFFICES ASSUME Init PROVE IInv
    OBVIOUS
  <1>1. TypeOK
    BY EventsAssumption DEF Init, TypeOK, Event, JobRow, Absent
  <1>2. IsFiniteSet(log)
    BY FS_EmptySet DEF Init
  <1>3. Numbered /\ Locked /\ Placed /\ Delivered
    BY DEF Init, Numbered, Locked, InOrderOfChange, Placed, Delivered
  <1> QED BY <1>1, <1>2, <1>3 DEF IInv

\* The first rows of a page are closed downwards: with an event, the page has all
\* those before it that are above the cursor.
LEMMA BatchClosed ==
  ASSUME IInv, NEW after \in Nat, NEW e \in Batch(after), NEW g \in log,
         after < g.seq, g.seq <= e.seq
  PROVE  g \in Batch(after)
  <1> DEFINE Upto(x) == {f \in Since(after) : f.seq <= x.seq}
  <1>1. log \subseteq Event
    BY DEF IInv, TypeOK
  <1>2. e \in Since(after) /\ Cardinality(Upto(e)) <= Limit
    BY DEF Batch
  <1>3. e \in log /\ g \in Since(after)
    BY <1>2 DEF Since
  <1>4. IsFiniteSet(Upto(e))
    <2>1. Upto(e) \subseteq log
      BY DEF Since
    <2> QED BY <2>1, FS_Subset DEF IInv
  <1>5. Upto(g) \subseteq Upto(e)
    <2>1. \A f \in log : f.seq <= g.seq => f.seq <= e.seq
      BY <1>1, <1>3 DEF Event
    <2> QED BY <2>1 DEF Since
  <1>6. Cardinality(Upto(g)) <= Limit
    <2>1. Cardinality(Upto(g)) <= Cardinality(Upto(e))
      BY <1>4, <1>5, FS_Subset
    <2>2. IsFiniteSet(Upto(g))
      BY <1>4, <1>5, FS_Subset
    <2>3. Cardinality(Upto(g)) \in Nat /\ Cardinality(Upto(e)) \in Nat
      BY <1>4, <2>2, FS_CardinalityType
    <2> HIDE DEF Upto
    <2> QED BY <1>2, <2>1, <2>3, EventsAssumption
  <1> QED BY <1>3, <1>6 DEF Batch

\* The row and the event a transaction writes.
LEMMA ChangedType ==
  ASSUME TypeOK, NEW j \in Jobs, NEW active \in BOOLEAN
  PROVE  /\ Changed(j, active) \in JobRow
         /\ Changed(j, active).n = table[j].n + 1
         /\ [seq |-> next, job |-> j, snap |-> Changed(j, active)] \in Event
  <1>1. table[j] \in JobRow /\ table[j].n \in Nat
    BY DEF TypeOK, JobRow
  <1>2. Changed(j, active) \in JobRow /\ Changed(j, active).n = table[j].n + 1
    BY <1>1 DEF Changed, JobRow
  <1> QED BY <1>2 DEF TypeOK, Event

LEMMA TypeStep ==
  ASSUME TypeOK, [Next]_vars
  PROVE  TypeOK'
  <1> USE DEF console
  <1>1. ASSUME NEW j \in Jobs, Record(j) PROVE TypeOK'
    <2>1. PICK active \in BOOLEAN :
            open' = open \cup {[seq |-> next, job |-> j, snap |-> Changed(j, active)]}
      BY <1>1 DEF Record
    <2>2. open' \subseteq Event
      BY <2>1, ChangedType DEF TypeOK
    <2> QED BY <1>1, <2>2 DEF Record, TypeOK
  <1>2. ASSUME NEW j \in Jobs, Claim(j) PROVE TypeOK'
    <2>1. table' \in [Jobs -> JobRow]
      BY <1>2, ChangedType DEF Claim, TypeOK
    <2> QED BY <1>2, <2>1 DEF Claim, TypeOK
  <1>3. ASSUME NEW t \in open, Commit(t) PROVE TypeOK'
    <2>1. t \in Event /\ t.snap \in JobRow
      BY DEF TypeOK, Event
    <2> QED BY <1>3, <2>1 DEF Commit, TypeOK
  <1>4. ASSUME NEW t \in open, Rollback(t) PROVE TypeOK'
    <2>1. t.seq \in Nat
      BY DEF TypeOK, Event
    <2> QED BY <1>4, <2>1 DEF Rollback, TypeOK
  <1>5. CASE Poll
    <2>1. Batch(cursor) \subseteq log
      BY DEF Batch, Since
    <2>2. cursor' \in Nat
      BY <1>5, <2>1 DEF Poll, TypeOK, Event
    <2> QED BY <1>5, <2>1, <2>2 DEF Poll, TypeOK
  <1>6. CASE Receive
    <2>1. PICK e \in stream :
            /\ stream' = stream \ {e}
            /\ last' = e.seq
            /\ got' = got \cup {e.seq}
            /\ shown' = IF Listed(e.job) THEN [shown EXCEPT ![e.job] = e.snap] ELSE shown
            /\ UNCHANGED <<backend, table, next, open, log, online, cursor, drops, fetches>>
      BY <1>6 DEF Receive
    <2>2. e.seq \in Nat /\ e.snap \in JobRow
      BY DEF TypeOK, Event
    <2>3. shown' \in [Jobs -> JobRow]
      BY <2>1, <2>2 DEF TypeOK
    <2> QED BY <2>1, <2>2, <2>3 DEF TypeOK
  <1>7. CASE Connect
    BY <1>7 DEF Connect, ResumeAt, TypeOK
  <1>8. CASE Drop
    <2>1. drops' = drops + 1 /\ online' = FALSE /\ cursor' = 0 /\ stream' = {}
      BY <1>8 DEF Drop, Broken
    <2>2. UNCHANGED <<backend, table, next, open, log, last, got, shown, fetches>>
      BY <1>8 DEF Drop
    <2>3. drops' \in Nat
      BY <2>1 DEF TypeOK
    <2> QED BY <2>1, <2>2, <2>3 DEF TypeOK
  <1>9. CASE Fetch
    BY <1>9 DEF Fetch, TypeOK
  <1>10. ASSUME NEW rows \in fetches, Fetched(rows) \/ FetchFails(rows) PROVE TypeOK'
    <2>1. rows \in [Jobs -> JobRow]
      BY DEF TypeOK
    <2>2. UNCHANGED <<backend, table, next, open, log>> /\ fetches' = fetches \ {rows}
      BY <1>10 DEF Fetched, FetchFails
    <2>3. shown' \in [Jobs -> JobRow]
      BY <1>10, <2>1 DEF Fetched, FetchFails, TypeOK
    <2>4. CASE Broken /\ last' = 0 /\ got' = {} /\ drops' = 0
      <3>1. online' = FALSE /\ cursor' = 0 /\ stream' = {}
        BY <2>4 DEF Broken
      <3>2. online' \in BOOLEAN /\ cursor' \in Nat /\ stream' \subseteq Event
        BY <3>1
      <3>3. last' \in Nat /\ got' \subseteq Nat /\ drops' \in Nat
        BY <2>4
      <3> QED BY <2>2, <2>3, <3>2, <3>3 DEF TypeOK
    <2>5. CASE UNCHANGED <<online, cursor, stream, last, got, drops>>
      BY <2>2, <2>3, <2>5 DEF TypeOK
    <2> QED BY <1>10, <2>4, <2>5 DEF Fetched, FetchFails
  <1>11. CASE UNCHANGED vars
    BY <1>11 DEF vars, TypeOK
  <1> QED BY <1>1, <1>2, <1>3, <1>4, <1>5, <1>6, <1>7, <1>8, <1>9, <1>10, <1>11 DEF Next

\* The rows and the events: a transaction begins, ends, or claims.
LEMMA LockedStep ==
  ASSUME IInv, TypeOK', [Next]_vars
  PROVE  Locked'
  <1> USE DEF IInv, console
  <1>1. log \subseteq Event /\ open \subseteq Event /\ next \in Nat /\ table \in [Jobs -> JobRow]
    BY DEF TypeOK
  <1>2. /\ \A e \in log \cup open : e.seq \in Nat /\ e.job \in Jobs /\ e.snap.n \in Nat
        /\ \A j \in Jobs : table[j].n \in Nat
    BY <1>1 DEF Event, JobRow
  <1>3. ASSUME NEW j \in Jobs, Record(j) PROVE Locked'
    <2>1. PICK active \in BOOLEAN :
            open' = open \cup {[seq |-> next, job |-> j, snap |-> Changed(j, active)]}
      BY <1>3 DEF Record
    <2> DEFINE t == [seq |-> next, job |-> j, snap |-> Changed(j, active)]
    <2>2. open' = open \cup {t} /\ t.seq = next /\ t.job = j /\ t.snap.n = table[j].n + 1
      BY <2>1, ChangedType
    <2>3. UNCHANGED <<table, log>>
      BY <1>3 DEF Record
    <2>4. \A u \in open : u.job # j
      BY <1>3 DEF Record, MayWrite
    <2>5. \A e \in log : e.seq < next
      BY DEF Numbered
    <2> HIDE DEF t
    <2> QED BY <1>2, <2>2, <2>3, <2>4, <2>5 DEF Locked, InOrderOfChange
  <1>4. ASSUME NEW j \in Jobs, Claim(j) PROVE Locked'
    <2>1. UNCHANGED <<open, log>> /\ table' = [table EXCEPT ![j] = Changed(j, TRUE)]
      BY <1>4 DEF Claim
    <2>2. \A u \in open : u.job # j
      BY <1>4 DEF Claim, MayWrite
    <2>3. table'[j].n = table[j].n + 1 /\ \A i \in Jobs : i # j => table'[i] = table[i]
      BY <1>1, <2>1, ChangedType
    <2>4. \A u \in open : table'[u.job].n < u.snap.n
      BY <1>2, <2>2, <2>3 DEF Locked
    <2>5. \A e \in log : e.snap.n <= table'[e.job].n
      BY <1>2, <2>3 DEF Locked
    <2> QED BY <2>1, <2>4, <2>5 DEF Locked, InOrderOfChange
  <1>5. ASSUME NEW t \in open, Commit(t) PROVE Locked'
    <2>1. open' = open \ {t} /\ log' = log \cup {t} /\ table' = [table EXCEPT ![t.job] = t.snap]
      BY <1>5 DEF Commit
    <2>2. table'[t.job] = t.snap /\ \A i \in Jobs : i # t.job => table'[i] = table[i]
      BY <1>1, <1>2, <2>1
    <2>3. \A u \in open' : u.job # t.job
      BY <2>1 DEF Locked
    <2>4. \A u \in open' : table'[u.job].n < u.snap.n
      BY <1>2, <2>1, <2>2, <2>3 DEF Locked
    <2>5. \A e \in log' : e.snap.n <= table'[e.job].n
      BY <1>2, <2>1, <2>2 DEF Locked
    <2>6. \A e \in log', u \in open' : e.job = u.job => e.seq < u.seq
      BY <2>1, <2>3 DEF Locked
    <2>7. InOrderOfChange'
      <3>1. \A e \in log : e.job = t.job => e.seq < t.seq /\ e.snap.n < t.snap.n
        BY <1>2 DEF Locked
      <3> QED BY <1>2, <2>1, <3>1 DEF Locked, InOrderOfChange
    <2> QED BY <2>1, <2>4, <2>5, <2>6, <2>7 DEF Locked
  <1>6. ASSUME NEW t \in open, Rollback(t) PROVE Locked'
    BY <1>6 DEF Rollback, Locked, InOrderOfChange
  <1>7. CASE UNCHANGED <<table, open, log>>
    BY <1>7 DEF Locked, InOrderOfChange
  <1> QED
    BY <1>3, <1>4, <1>5, <1>6, <1>7
    DEF Next, vars, Poll, Receive, Connect, Drop, Fetch, Fetched, FetchFails

\* The transactions: numbers are drawn, published and given up.
LEMMA WriteStep ==
  ASSUME IInv, TypeOK', Locked',
         \/ \E j \in Jobs : Record(j) \/ Claim(j)
         \/ \E t \in open : Commit(t) \/ Rollback(t)
  PROVE  IInv'
  <1> USE DEF IInv, console
  <1>1. log \subseteq Event /\ open \subseteq Event /\ next \in Nat /\ cursor \in Nat /\ last \in Nat
    BY DEF TypeOK
  <1>2. ASSUME NEW j \in Jobs, Record(j) PROVE IInv'
    <2>1. PICK active \in BOOLEAN :
            open' = open \cup {[seq |-> next, job |-> j, snap |-> Changed(j, active)]}
      BY <1>2 DEF Record
    <2> DEFINE t == [seq |-> next, job |-> j, snap |-> Changed(j, active)]
    <2>2. open' = open \cup {t} /\ next' = next + 1 /\ t.seq = next
      BY <1>2, <2>1 DEF Record
    <2>3. UNCHANGED <<backend, log, online, cursor, stream, last, got>>
      BY <1>2 DEF Record
    <2>4. Sqlite => open = {}
      BY <1>2 DEF Record, MayWrite, Sqlite
    <2> HIDE DEF t
    <2>5. Numbered'
      BY <1>1, <2>2, <2>3, <2>4 DEF Numbered, Sqlite, Event
    <2>6. Placed'
      BY <1>1, <2>2, <2>3, <2>4 DEF Placed, Numbered, Sqlite, Event
    <2>7. Delivered'
      BY <2>3 DEF Delivered, Sqlite
    <2> QED BY <2>3, <2>5, <2>6, <2>7
  <1>3. ASSUME NEW j \in Jobs, Claim(j) PROVE IInv'
    <2>1. UNCHANGED <<backend, next, open, log, online, cursor, stream, last, got>>
      BY <1>3 DEF Claim
    <2> QED BY <2>1 DEF Numbered, Placed, Delivered, Sqlite
  <1>4. ASSUME NEW t \in open, Commit(t) PROVE IInv'
    <2>1. open' = open \ {t} /\ log' = log \cup {t}
      BY <1>4 DEF Commit
    <2>2. UNCHANGED <<backend, next, online, cursor, stream, last, got>>
      BY <1>4 DEF Commit
    <2>3. IsFiniteSet(log')
      BY <2>1, FS_AddElement
    <2>4. Numbered'
      BY <1>1, <2>1, <2>2 DEF Numbered, Sqlite, Event
    <2>5. Placed'
      BY <1>1, <2>1, <2>2 DEF Placed, Sqlite, Event
    <2>6. Delivered'
      <3>1. Sqlite => ~(t.seq <= last) /\ ~(t.seq <= cursor)
        BY <1>1 DEF Placed, Event
      <3> QED BY <2>1, <2>2, <3>1 DEF Delivered, Sqlite
    <2> QED BY <2>3, <2>4, <2>5, <2>6
  <1>5. ASSUME NEW t \in open, Rollback(t) PROVE IInv'
    <2>1. open' = open \ {t} /\ next' = IF Sqlite THEN t.seq ELSE next
      BY <1>5 DEF Rollback, Sqlite
    <2>2. UNCHANGED <<backend, log, online, cursor, stream, last, got>>
      BY <1>5 DEF Rollback
    <2>3. Numbered'
      <3>1. CASE Sqlite
        <4>1. open' = {}
          BY <2>1, <3>1 DEF Numbered
        <4> QED BY <1>1, <2>1, <2>2, <3>1, <4>1 DEF Numbered, Sqlite, Event
      <3>2. CASE ~Sqlite
        BY <1>1, <2>1, <2>2, <3>2 DEF Numbered, Sqlite, Event
      <3> QED BY <3>1, <3>2
    <2>4. Placed'
      BY <1>1, <2>1, <2>2 DEF Placed, Sqlite, Event
    <2>5. Delivered'
      BY <2>2 DEF Delivered, Sqlite
    <2> QED BY <2>2, <2>3, <2>4, <2>5
  <1> QED BY <1>2, <1>3, <1>4, <1>5

\* The watcher sends a page, the console receives an event.
LEMMA ReadStep ==
  ASSUME IInv, TypeOK', Locked', Poll \/ Receive
  PROVE  IInv'
  <1> USE DEF IInv, console
  <1>1. log \subseteq Event /\ open \subseteq Event /\ next \in Nat /\ cursor \in Nat /\ last \in Nat
    BY DEF TypeOK
  <1>2. CASE Poll
    <2>1. UNCHANGED <<backend, next, open, log, online, last, got>> /\ online /\ stream = {}
      BY <1>2 DEF Poll
    <2>2. PICK e \in Batch(cursor) : /\ \A f \in Batch(cursor) : f.seq <= e.seq
                                     /\ cursor' = e.seq
      BY <1>2 DEF Poll
    <2>3. stream' = Batch(cursor)
      BY <1>2 DEF Poll
    <2>4. \A f \in Batch(cursor) : f \in log /\ cursor < f.seq
      BY <1>1 DEF Batch, Since, Event
    <2>5. Numbered'
      BY <2>1 DEF Numbered, Sqlite
    <2>6. e.seq \in Nat /\ cursor < e.seq /\ e.seq < next
      BY <1>1, <2>4 DEF Numbered, Event
    <2>7. Placed'
      <3>1. \A f \in stream' : last < f.seq /\ f.seq <= cursor'
        BY <1>1, <2>1, <2>2, <2>3, <2>4 DEF Placed, Event
      <3>2. Sqlite => \A t \in open : e.seq < t.seq
        BY <2>4 DEF Numbered
      <3> QED BY <1>1, <2>1, <2>2, <2>3, <2>4, <2>6, <3>1, <3>2 DEF Placed, Sqlite, Event
    <2>8. Delivered'
      <3> SUFFICES ASSUME Sqlite, NEW g \in log, g.seq <= cursor' PROVE g.seq \in got \/ g \in stream'
        BY <2>1 DEF Delivered, Sqlite
      <3>1. CASE g.seq <= cursor
        BY <2>1, <3>1 DEF Delivered
      <3>2. CASE cursor < g.seq
        BY <2>2, <2>3, <3>2, <1>1, BatchClosed
      <3> QED BY <1>1, <3>1, <3>2 DEF Event
    <2> QED BY <2>1, <2>5, <2>7, <2>8
  <1>3. CASE Receive
    <2>1. PICK e \in stream : /\ \A f \in stream : e.seq <= f.seq
                             /\ stream' = stream \ {e}
                             /\ last' = e.seq
                             /\ got' = got \cup {e.seq}
                             /\ UNCHANGED <<backend, next, open, log, online, cursor>>
      BY <1>3 DEF Receive
    <2>2. e \in log /\ e.seq \in Nat /\ last < e.seq /\ e.seq <= cursor /\ e.seq < next
      BY <1>1 DEF Placed, Numbered, Event
    <2>3. Numbered'
      BY <2>1 DEF Numbered, Sqlite
    <2>4. Placed'
      <3>1. \A f \in stream' : e.seq < f.seq
        BY <1>1, <2>1, <2>2 DEF Placed, Numbered, Event
      <3>2. \A n \in got' : n <= last'
        BY <1>1, <2>1, <2>2 DEF Placed, TypeOK
      <3>3. Sqlite => \A t \in open : e.seq < t.seq
        BY <2>2 DEF Numbered
      <3> QED BY <2>1, <2>2, <3>1, <3>2, <3>3 DEF Placed, Sqlite
    <2>5. Delivered'
      <3> SUFFICES ASSUME Sqlite, NEW g \in log
                   PROVE  /\ g.seq <= e.seq => g.seq \in got'
                          /\ online /\ g.seq <= cursor => g.seq \in got' \/ g \in stream'
        BY <2>1 DEF Delivered, Sqlite
      <3>1. online
        BY DEF Placed
      <3>2. g.seq <= cursor => g.seq \in got \/ g \in stream
        BY <3>1 DEF Delivered
      <3>3. g.seq <= e.seq => g.seq <= cursor
        BY <1>1, <2>2 DEF Event
      <3>4. g \in stream /\ g.seq <= e.seq => g = e
        BY <1>1, <2>1, <2>2 DEF Numbered, Event
      <3> QED BY <2>1, <3>2, <3>3, <3>4
    <2> QED BY <2>1, <2>3, <2>4, <2>5
  <1> QED BY <1>2, <1>3

\* A stream that starts goes on after the last number received; a watch that starts
\* anew has received nothing.
LEMMA WatchStep ==
  ASSUME IInv, TypeOK', Locked',
         Connect \/ Drop \/ Fetch \/ \E rows \in fetches : Fetched(rows) \/ FetchFails(rows)
  PROVE  IInv'
  <1> USE DEF IInv, console
  <1>1. next \in Nat /\ last \in Nat /\ open \subseteq Event /\ log \subseteq Event
    BY DEF TypeOK
  <1>2. CASE Connect
    <2>1. stream = {} /\ stream' = {} /\ cursor' = last /\ online'
      BY <1>2 DEF Connect, ResumeAt, Placed
    <2>2. UNCHANGED <<backend, next, open, log, last, got>>
      BY <1>2 DEF Connect
    <2> QED BY <1>1, <2>1, <2>2 DEF Numbered, Placed, Delivered, Sqlite
  <1>3. ASSUME Broken, UNCHANGED <<backend, next, open, log>>,
               UNCHANGED <<last, got>> \/ (last' = 0 /\ got' = {})
        PROVE  IInv'
    <2>1. Numbered'
      BY <1>3 DEF Numbered, Sqlite
    <2>2. online' = FALSE /\ cursor' = 0 /\ stream' = {}
      BY <1>3 DEF Broken
    <2>3. \A e \in log \cup open : e.seq \in Nat /\ 1 <= e.seq
      BY <1>1 DEF Numbered, Event
    <2>4. Placed'
      BY <1>1, <1>3, <2>2, <2>3 DEF Placed, Numbered, Sqlite
    <2>5. Delivered'
      BY <1>1, <1>3, <2>2, <2>3 DEF Delivered, Sqlite
    <2> QED BY <1>3, <2>1, <2>4, <2>5
  <1>4. ASSUME UNCHANGED <<backend, next, open, log, online, cursor, stream, last, got>> PROVE IInv'
    BY <1>4 DEF Numbered, Placed, Delivered, Sqlite
  <1>5. CASE Drop
    BY <1>3, <1>5 DEF Drop
  <1>6. ASSUME NEW rows \in fetches, Fetched(rows) PROVE IInv'
    BY <1>3, <1>4, <1>6 DEF Fetched
  <1>7. CASE Fetch \/ \E rows \in fetches : FetchFails(rows)
    BY <1>4, <1>7 DEF Fetch, FetchFails
  <1> QED BY <1>2, <1>5, <1>6, <1>7

LEMMA Step == IInv /\ [Next]_vars => IInv'
  <1> SUFFICES ASSUME IInv, [Next]_vars PROVE IInv'
    OBVIOUS
  <1>1. TypeOK' /\ Locked'
    BY TypeStep, LockedStep DEF IInv
  <1>2. CASE UNCHANGED vars
    BY <1>1, <1>2 DEF vars, console, IInv, Numbered, Placed, Delivered, Sqlite
  <1> QED BY <1>1, <1>2, WriteStep, ReadStep, WatchStep DEF Next

LEMMA Inductive == Spec => []IInv
  <1> QED BY InitInv, Step, PTL DEF Spec

\* No event is sent to a console that has received it: after a broken stream WatchEvents
\* goes on above the last number received (Jobs.tsx, subscribeJobEvents).
THEOREM NoRepeatCorrect == Spec => []NoRepeat
  <1>1. IInv => NoRepeat
    BY DEF IInv, TypeOK, Placed, NoRepeat, Event
  <1> QED BY <1>1, Inductive, PTL

\* On SQLite, where numbers become visible in their order, no event is left out.
THEOREM NothingSkippedCorrect == Spec => []NothingSkipped
  <1>1. IInv => NothingSkipped
    BY DEF IInv, Delivered, NothingSkipped, Sqlite
  <1> QED BY <1>1, Inductive, PTL

\* The events of one job are numbered in the order of its changes, on either database:
\* the number is drawn under the lock of the job's row (recordJobEvent).
THEOREM InOrderCorrect == Spec => []InOrderOfChange
  <1>1. IInv => InOrderOfChange
    BY DEF IInv, Locked
  <1> QED BY <1>1, Inductive, PTL
-----------------------------------------------------------------------------
(* Animation plans (AnimationSpecs). *)

\* What an author may have had before his eyes.
Seens == {None} \cup (Versions \X (Nat \ {0}))

\* A clip whose moment a person has chosen has one.
GoodClips == {c \in Clips : c.hand => c.trigger # "static"}
Plans == [ver : Versions, rev : Nat \ {0}, clip : GoodClips]
Rows == {NoRow} \cup [rev : Nat \ {0}, clip : GoodClips]

\* Whatever the editor may save carries the number of the plan its author has seen.
Drafts == {d \in [rev : Nat, seen : Seens, clip : GoodClips] : d.rev = Number(d.seen)}
Unchosen == {d \in Drafts : ~d.clip.hand}
Asks == {a \in [kind : {"preset", "prefill"}, rev : Nat, seen : Seens,
                clip : {None} \cup GoodClips] : a.rev = Number(a.seen)}
Overs == {o \in [draft : Drafts, untouched : BOOLEAN] : o.untouched => o.draft \in Unchosen}
Calls == {NoCall} \cup [step : {"sent", "read", "saved", "refused"}, draft : Drafts,
                        over : {None} \cup Overs]

\* A draft nobody has touched holds no choice.
Editors ==
  {e \in [saved : Seens, draft : {None} \cup Drafts, conflict : {None} \cup Plans,
          untouched : BOOLEAN, ask : {None} \cup Asks, busy : BOOLEAN, waits : BOOLEAN,
          polled : Seens, later : {None} \cup Unchosen, call : Calls] :
     e.untouched => e.draft \in {None} \cup Unchosen}

PlansTyped ==
  /\ row \in [Versions -> Rows]
  /\ ed \in Editors
  /\ deck \in {None} \cup [prev : {None} \cup Plans, over : BOOLEAN]
  /\ pin \in {None} \cup Plans

\* A plan that was read: its row has gone on since, or is still as it was.
Read(plan) ==
  /\ row[plan.ver].rev >= plan.rev
  /\ row[plan.ver].rev = plan.rev => row[plan.ver].clip = plan.clip

PinRead == pin # None => Read(pin)

\* What apply-all has read it has also looked at.
DeckRead ==
  deck # None /\ deck.prev # None =>
    /\ Read(deck.prev)
    /\ ~deck.over => deck.prev.clip.label # "manual"

PlansInv == PlansTyped /\ PinRead /\ DeckRead
-----------------------------------------------------------------------------
(* What the editor and the handlers compute.                               *)

\* Generated clips are good, and no person has chosen them.
LEMMA MadeGood == ASSUME NEW c \in Made PROVE c \in GoodClips /\ ~c.hand
  <1>1. c \in Generable
    BY AnimationAssumption DEF AnimationAssumption
  <1> QED
    BY <1>1 DEF Generable, Sequenced, Bound, GoodClips, Clips, Triggers, Moments, Labels

\* Get finds nothing, or a plan that is as its row is.
LEMMA GetRead ==
  ASSUME row \in [Versions -> Rows], NEW v \in Versions
  PROVE  Get(v) \in {None} \cup Plans /\ (Get(v) # None => Read(Get(v)))
  <1>1. ASSUME NEW u \in Versions, row[u] # NoRow PROVE Plan(u) \in Plans /\ Read(Plan(u))
    <2>1. row[u] \in [rev : Nat \ {0}, clip : GoodClips]
      BY <1>1 DEF Rows
    <2> QED BY <2>1 DEF Plan, Plans, Read
  <1>2. 0 \in Versions
    BY DEF Versions
  <1> QED BY <1>1, <1>2 DEF Get

\* A draft carries the number of what its author has seen.
LEMMA DraftGood ==
  ASSUME NEW known \in Seens, NEW clip \in GoodClips
  PROVE  Draft(known, clip) \in Drafts /\ (~clip.hand => Draft(known, clip) \in Unchosen)
  <1>1. Number(known) \in Nat
    BY DEF Number, Seens
  <1> QED BY <1>1 DEF Draft, Drafts, Unchosen

LEMMA SeenGood == ASSUME NEW plan \in {None} \cup Plans PROVE Seen(plan) \in Seens
  BY DEF Seen, Seens, Plans

LEMMA DraftOfGood ==
  ASSUME NEW plan \in {None} \cup Plans
  PROVE  DraftOf(plan) \in {None} \cup Drafts
  <1>1. CASE plan = None
    BY <1>1 DEF DraftOf
  <1>2. CASE plan # None
    <2>1. plan.clip \in GoodClips
      BY <1>2 DEF Plans
    <2> QED BY <1>2, <2>1, SeenGood, DraftGood DEF DraftOf
  <1> QED BY <1>1, <1>2

\* The comparison with the stored plan changes labels only.
LEMMA ReconciledGood ==
  ASSUME NEW prev, NEW clip \in GoodClips
  PROVE  Reconciled(prev, clip) \in GoodClips
  BY DEF Reconciled, GoodClips, Clips, Labels

\* A clip in place of another leaves a draft good, if it is good.
LEMMA DraftWith ==
  ASSUME NEW draft \in Drafts, NEW clip \in GoodClips
  PROVE  [draft EXCEPT !.clip = clip] \in Drafts
  BY DEF Drafts

LEMMA DraftFields ==
  ASSUME NEW draft \in Drafts
  PROVE  /\ draft.rev \in Nat /\ draft.seen \in Seens /\ draft.clip \in GoodClips
         /\ draft.rev = Number(draft.seen)
  BY DEF Drafts

\* What a request brings: its author has seen what was saved when he asked.
LEMMA GeneratedGood ==
  ASSUME ed.ask \in Asks, NEW clip \in GoodClips
  PROVE  Generated(clip) \in Drafts /\ (~clip.hand => Generated(clip) \in Unchosen)
  BY DEF Asks, Generated, AskedRev, Drafts, Unchosen

\* A new style takes over a moment as it is.
LEMMA CarriedGood ==
  ASSUME ed.ask \in Asks, NEW clip \in GoodClips
  PROVE  /\ Carried(clip) \in GoodClips
         /\ ed.ask.clip # None /\ ed.ask.clip.trigger # "static"
              => Carried(clip).trigger = ed.ask.clip.trigger
  <1>1. ed.ask.clip \in {None} \cup GoodClips
    BY DEF Asks
  <1> QED BY <1>1 DEF Carried, GoodClips, Clips

-----------------------------------------------------------------------------
(* Every step of the editor and of its calls leaves it in order.           *)

LEMMA EditorFields ==
  ASSUME NEW e \in Editors
  PROVE  /\ e.saved \in Seens /\ e.draft \in {None} \cup Drafts
         /\ e.conflict \in {None} \cup Plans /\ e.untouched \in BOOLEAN
         /\ e.ask \in {None} \cup Asks /\ e.busy \in BOOLEAN
         /\ e.waits \in BOOLEAN /\ e.polled \in Seens
         /\ e.later \in {None} \cup Unchosen /\ e.call \in Calls
         /\ e.untouched => e.draft \in {None} \cup Unchosen
  BY DEF Editors

LEMMA CallFields ==
  ASSUME NEW call \in Calls, call # NoCall
  PROVE  /\ call.draft \in Drafts /\ call.over \in {None} \cup Overs
         /\ call.over # None => /\ call.over.draft \in Drafts
                                /\ call.over.untouched \in BOOLEAN
                                /\ call.over.untouched => call.over.draft \in Unchosen
  BY DEF Calls, Overs

LEMMA NoEditorGood == NoEditor \in Editors
  <1>1. NoCall \in Calls /\ None \in Seens
    BY DEF Calls, Seens
  <1>2. NoEditor \in [saved : Seens, draft : {None} \cup Drafts, conflict : {None} \cup Plans,
                     untouched : BOOLEAN, ask : {None} \cup Asks, busy : BOOLEAN,
                     waits : BOOLEAN, polled : Seens, later : {None} \cup Unchosen, call : Calls]
    BY <1>1 DEF NoEditor
  <1>3. NoEditor.draft = None
    BY DEF NoEditor
  <1> QED BY <1>2, <1>3 DEF Editors

LEMMA PutReadsEd == ASSUME PlansTyped, PutReads PROVE ed' \in Editors
  <1>1. ed \in Editors /\ ed.call.step = "sent"
    BY DEF PlansTyped, PutReads
  <1> DEFINE clip == Reconciled(Get(1), ed.call.draft.clip)
             call == [ed.call EXCEPT !.step = "read", !.draft = [ed.call.draft EXCEPT !.clip = clip]]
  <1>2. ed.call \in Calls /\ ed.call # NoCall
    BY <1>1, EditorFields DEF NoCall
  <1>3. ed.call.draft \in Drafts
    BY <1>2, CallFields
  <1>4. clip \in GoodClips
    BY <1>3, DraftFields, ReconciledGood
  <1>5. [ed.call.draft EXCEPT !.clip = clip] \in Drafts
    BY <1>3, <1>4, DraftWith
  <1> HIDE DEF clip
  <1>6. call \in Calls
    BY <1>2, <1>5 DEF Calls
  <1>7. ed' = [ed EXCEPT !.call = call]
    BY <1>1, <1>2 DEF PutReads, clip, Editors, Calls
  <1> HIDE DEF call
  <1> QED BY <1>1, <1>6, <1>7 DEF Editors

LEMMA PutWritesEd == ASSUME PlansTyped, PutWrites PROVE ed' \in Editors
  <1>1. ed \in Editors /\ ed.call.step = "read"
    BY DEF PlansTyped, PutWrites
  <1>2. ed.call \in Calls /\ ed.call # NoCall
    BY <1>1, EditorFields DEF NoCall
  <1>3. \A step \in {"saved", "refused"} : [ed.call EXCEPT !.step = step] \in Calls
    BY <1>2 DEF Calls
  <1>4. PICK step \in {"saved", "refused"} : ed' = [ed EXCEPT !.call = [ed.call EXCEPT !.step = step]]
    BY DEF PutWrites
  <1> QED BY <1>1, <1>3, <1>4 DEF Editors

LEMMA LoadEd == ASSUME PlansTyped, Load PROVE ed' \in Editors
  <1>1. ed \in Editors /\ row \in [Versions -> Rows] /\ 1 \in Versions
    BY DEF PlansTyped, Versions
  <1>2. PICK old \in {ed, NoEditor} :
          ed' = [NoEditor EXCEPT !.saved = Seen(Get(1)), !.draft = DraftOf(Get(1)),
                                 !.untouched = Get(1) = None,
                                 !.ask = old.ask, !.waits = old.waits,
                                 !.polled = old.polled, !.call = old.call]
    BY DEF Load
  <1>3. old \in Editors
    BY <1>1, NoEditorGood
  <1>4. Get(1) \in {None} \cup Plans
    BY <1>1, GetRead
  <1>5. Seen(Get(1)) \in Seens /\ DraftOf(Get(1)) \in {None} \cup Drafts
    BY <1>4, SeenGood, DraftOfGood
  <1>6. Get(1) = None => DraftOf(Get(1)) = None
    BY DEF DraftOf
  <1> DEFINE saved == Seen(Get(1))
             draft == DraftOf(Get(1))
             none == Get(1) = None
             new == [NoEditor EXCEPT !.saved = saved, !.draft = draft, !.untouched = none,
                                     !.ask = old.ask, !.waits = old.waits,
                                 !.polled = old.polled, !.call = old.call]
  <1>7. saved \in Seens /\ draft \in {None} \cup Drafts /\ none \in BOOLEAN /\ (none => draft = None)
    BY <1>5, <1>6
  <1>8. ed' = new
    BY <1>2
  <1> HIDE DEF saved, draft, none
  <1>9. new \in [saved : Seens, draft : {None} \cup Drafts, conflict : {None} \cup Plans,
                untouched : BOOLEAN, ask : {None} \cup Asks, busy : BOOLEAN,
                waits : BOOLEAN, polled : Seens, later : {None} \cup Unchosen, call : Calls]
    BY <1>3, <1>7, EditorFields DEF NoEditor
  <1>10. new.untouched => new.draft = None
    BY <1>7 DEF NoEditor
  <1> QED BY <1>8, <1>9, <1>10 DEF Editors

\* A change made by hand.
LEMMA ChangeEd ==
  ASSUME ed \in Editors, ed.draft # None, NEW clip \in GoodClips, Change(clip)
  PROVE  ed' \in Editors
  <1>1. [ed.draft EXCEPT !.clip = clip] \in Drafts
    BY EditorFields, DraftWith
  <1>2. ed' = [ed EXCEPT !.draft = [ed.draft EXCEPT !.clip = clip], !.untouched = FALSE]
    BY DEF Change
  <1> QED BY <1>1, <1>2 DEF Editors

LEMMA RetimeEd == ASSUME PlansTyped, Retime PROVE ed' \in Editors
  <1>1. ed \in Editors /\ ed.draft # None
    BY DEF PlansTyped, Retime, Edits
  <1>2. ed.draft.clip \in GoodClips
    BY <1>1, EditorFields, DraftFields
  <1>3. PICK t \in Moments : Change([ed.draft.clip EXCEPT !.trigger = t, !.label = "none", !.hand = TRUE])
    BY DEF Retime
  <1>4. t # "static"
    BY AnimationAssumption DEF AnimationAssumption, Moments
  <1>5. [ed.draft.clip EXCEPT !.trigger = t, !.label = "none", !.hand = TRUE] \in GoodClips
    BY <1>2, <1>4 DEF GoodClips, Clips, Triggers, Labels
  <1> QED BY <1>1, <1>3, <1>5, ChangeEd

LEMMA RevokeEd == ASSUME PlansTyped, Revoke PROVE ed' \in Editors
  <1>1. ed \in Editors /\ ed.draft # None
    BY DEF PlansTyped, Revoke, Edits
  <1>2. ed.draft.clip \in GoodClips
    BY <1>1, EditorFields, DraftFields
  <1>3. [ed.draft.clip EXCEPT !.trigger = "enter", !.label = "none", !.hand = TRUE] \in GoodClips
    BY <1>2 DEF GoodClips, Clips, Triggers, Moments, Labels
  <1> QED BY <1>1, <1>3, ChangeEd DEF Revoke

LEMMA AdjustEd == ASSUME PlansTyped, Adjust PROVE ed' \in Editors
  <1>1. ed \in Editors /\ ed.draft # None
    BY DEF PlansTyped, Adjust, Edits
  <1> QED BY <1>1, EditorFields, DraftFields, ChangeEd DEF Adjust

LEMMA AskEd == ASSUME PlansTyped, NEW kind \in {"preset", "prefill"}, Ask(kind) PROVE ed' \in Editors
  <1>1. ed \in Editors
    BY DEF PlansTyped
  <1> DEFINE clip == IF ed.draft = None THEN None ELSE ed.draft.clip
             ask == [kind |-> kind, rev |-> Number(ed.saved), seen |-> ed.saved, clip |-> clip]
  <1>2. clip \in {None} \cup GoodClips
    BY <1>1, EditorFields, DraftFields
  <1>3. Number(ed.saved) \in Nat
    BY <1>1, EditorFields DEF Number, Seens
  <1> HIDE DEF clip
  <1>4. ask \in Asks
    BY <1>1, <1>2, <1>3, EditorFields DEF Asks
  <1>5. ed' = [ed EXCEPT !.ask = ask, !.busy = ed.busy \/ kind = "prefill",
                         !.later = IF kind = "prefill" THEN None ELSE ed.later]
    BY DEF Ask, clip
  <1> HIDE DEF ask
  <1> QED BY <1>1, <1>4, <1>5 DEF Editors

LEMMA PresetArrivesEd == ASSUME PlansTyped, PresetArrives PROVE ed' \in Editors
  <1>1. ed \in Editors /\ ed.ask \in Asks
    BY EditorFields DEF PlansTyped, PresetArrives, Asked
  <1>2. PICK clip \in Made :
          ed' = [ed EXCEPT !.draft = Generated(Carried(clip)), !.untouched = FALSE, !.ask = None]
    BY DEF PresetArrives
  <1>3. Generated(Carried(clip)) \in Drafts
    BY <1>1, MadeGood, CarriedGood, GeneratedGood
  <1> QED BY <1>1, <1>2, <1>3 DEF Editors

LEMMA PrefillArrivesEd == ASSUME PlansTyped, PrefillArrives PROVE ed' \in Editors
  <1>1. ed \in Editors /\ ed.ask \in Asks
    BY EditorFields DEF PlansTyped, PrefillArrives, Asked
  <1>2. PICK clip \in Made, waits \in BOOLEAN :
          ed' = [ed EXCEPT !.draft = Generated(clip), !.untouched = TRUE, !.busy = waits,
                           !.waits = waits, !.polled = IF waits THEN ed.saved ELSE None,
                           !.ask = None]
    BY DEF PrefillArrives
  <1> DEFINE polled == IF waits THEN ed.saved ELSE None
  <1>4. polled \in Seens
    BY <1>1, EditorFields DEF Seens
  <1>5. ed' = [ed EXCEPT !.draft = Generated(clip), !.untouched = TRUE, !.busy = waits,
                         !.waits = waits, !.polled = polled, !.ask = None]
    BY <1>2
  <1> HIDE DEF polled
  <1>3. Generated(clip) \in Drafts /\ Generated(clip) \in Unchosen
    BY <1>1, MadeGood, GeneratedGood
  <1> QED BY <1>1, <1>3, <1>4, <1>5 DEF Editors

LEMMA AskFailsEd == ASSUME PlansTyped, AskFails PROVE ed' \in Editors
  BY DEF PlansTyped, AskFails, Asked, Editors

LEMMA AnsweredGood ==
  ASSUME ed \in Editors
  PROVE  /\ Answered \in Editors
         /\ \A draft \in Unchosen : /\ [Answered EXCEPT !.draft = draft] \in Editors
                                  /\ [Answered EXCEPT !.later = draft] \in Editors
  <1>1. None \in Seens /\ Unchosen \subseteq Drafts
    BY DEF Seens, Unchosen
  <1>2. Answered \in Editors
    BY <1>1 DEF Answered, Editors
  <1> HIDE DEF Answered
  <1> QED BY <1>1, <1>2 DEF Editors

LEMMA PollAsksEd == ASSUME PlansTyped, PollAsks PROVE ed' \in Editors
  BY EditorFields DEF PlansTyped, PollAsks, Editors

LEMMA PollArrivesEd == ASSUME PlansTyped, PollArrives PROVE ed' \in Editors
  <1>1. ed \in Editors
    BY DEF PlansTyped
  <1>2. PICK clip \in Made \cap Bound :
          ed' = IF Replaces THEN [Answered EXCEPT !.draft = Draft(ed.polled, clip)]
                            ELSE [Answered EXCEPT !.later = Draft(ed.polled, clip)]
    BY DEF PollArrives
  <1>3. Draft(ed.polled, clip) \in Unchosen
    BY <1>1, EditorFields, MadeGood, DraftGood
  <1> QED BY <1>1, <1>2, <1>3, AnsweredGood

LEMMA PollEndsEd == ASSUME PlansTyped, PollEnds PROVE ed' \in Editors
  BY AnsweredGood DEF PlansTyped, PollEnds

LEMMA AdoptEd == ASSUME PlansTyped, Adopt PROVE ed' \in Editors
  <1>1. ed \in Editors /\ ed.later # None
    BY DEF PlansTyped, Adopt
  <1>2. ed.later \in Drafts /\ ed.later \in Unchosen
    BY <1>1, EditorFields DEF Unchosen
  <1> QED BY <1>1, <1>2 DEF Adopt, Editors

LEMMA SaveEd == ASSUME PlansTyped, Save PROVE ed' \in Editors
  <1>1. ed \in Editors /\ ed.draft \in Drafts
    BY EditorFields DEF PlansTyped, Save, Edits
  <1>2. [step |-> "sent", draft |-> ed.draft, over |-> None] \in Calls
    BY <1>1 DEF Calls
  <1> QED BY <1>1, <1>2 DEF Save, Editors

LEMMA SaveAnswersEd == ASSUME PlansTyped, SaveAnswers PROVE ed' \in Editors
  <1> DEFINE plan == [ver |-> 1, rev |-> ed.call.draft.rev + 1, clip |-> ed.call.draft.clip]
  <1>1. ed \in Editors /\ ed.call \in Calls /\ ed.call # NoCall
    BY EditorFields DEF PlansTyped, SaveAnswers, NoCall
  <1>2. plan \in Plans
    BY <1>1, CallFields, DraftFields DEF Plans, Versions
  <1>3. ed' = [ed EXCEPT !.saved = Seen(plan), !.draft = DraftOf(plan), !.untouched = FALSE,
                         !.conflict = None, !.call = NoCall]
    BY DEF SaveAnswers
  <1> HIDE DEF plan
  <1>4. Seen(plan) \in Seens /\ DraftOf(plan) \in {None} \cup Drafts
    BY <1>2, SeenGood, DraftOfGood
  <1>5. NoCall \in Calls
    BY DEF Calls
  <1> QED BY <1>1, <1>3, <1>4, <1>5 DEF Editors

LEMMA SaveFailsEd == ASSUME PlansTyped, SaveFails PROVE ed' \in Editors
  <1>1. ed \in Editors /\ row \in [Versions -> Rows] /\ 1 \in Versions
    BY DEF PlansTyped, Versions
  <1>2. PICK latest \in {ed.conflict, None, Get(1)} :
          ed' = [ed EXCEPT !.conflict = latest, !.call = NoCall]
    BY DEF SaveFails
  <1>3. latest \in {None} \cup Plans
    BY <1>1, GetRead, EditorFields
  <1>4. NoCall \in Calls
    BY DEF Calls
  <1> QED BY <1>1, <1>2, <1>3, <1>4 DEF Editors

LEMMA OverwriteFailsEd == ASSUME PlansTyped, OverwriteFails PROVE ed' \in Editors
  <1>1. ed \in Editors /\ ed.call \in Calls /\ ed.call # NoCall /\ ed.call.over # None
    BY EditorFields DEF PlansTyped, OverwriteFails, Free
  <1>2. PICK untouched \in {FALSE, ed.call.over.untouched} :
          ed' = [ed EXCEPT !.draft = ed.call.over.draft, !.untouched = untouched, !.call = NoCall]
    BY DEF OverwriteFails
  <1>3. /\ ed.call.over.draft \in Drafts /\ untouched \in BOOLEAN
        /\ untouched => ed.call.over.draft \in Unchosen
    BY <1>1, CallFields
  <1>4. NoCall \in Calls
    BY DEF Calls
  <1> QED BY <1>1, <1>2, <1>3, <1>4 DEF Editors

LEMMA TakeLatestEd == ASSUME PlansTyped, TakeLatest PROVE ed' \in Editors
  <1>1. ed \in Editors /\ ed.conflict \in {None} \cup Plans
    BY EditorFields DEF PlansTyped
  <1>2. Seen(ed.conflict) \in Seens /\ DraftOf(ed.conflict) \in {None} \cup Drafts
    BY <1>1, SeenGood, DraftOfGood
  <1> QED BY <1>1, <1>2 DEF TakeLatest, Editors

LEMMA OverwriteEd == ASSUME PlansTyped, Overwrite PROVE ed' \in Editors
  <1>1. /\ ed \in Editors /\ ed.draft \in Drafts /\ ed.draft # None
        /\ ed.conflict \in {None} \cup Plans
    BY EditorFields DEF PlansTyped, Overwrite, Edits
  <1> DEFINE over == [draft |-> ed.draft, untouched |-> ed.untouched]
             draft == Draft(Seen(ed.conflict), ed.draft.clip)
             call == [step |-> "sent", draft |-> draft, over |-> over]
  <1>2. over \in Overs
    BY <1>1, EditorFields DEF Overs
  <1>3. draft \in Drafts
    BY <1>1, SeenGood, DraftFields, DraftGood
  <1> HIDE DEF over, draft
  <1>4. call \in Calls
    BY <1>2, <1>3 DEF Calls
  <1>5. ed' = [ed EXCEPT !.conflict = None, !.call = call]
    BY DEF Overwrite, over, draft
  <1> HIDE DEF call
  <1> QED BY <1>1, <1>4, <1>5 DEF Editors

LEMMA EditEd == ASSUME PlansTyped, Edit PROVE ed' \in Editors
  BY PutReadsEd, PutWritesEd, LoadEd, RetimeEd, RevokeEd, AdjustEd, AskEd, PresetArrivesEd,
     PrefillArrivesEd, AskFailsEd, PollAsksEd, PollArrivesEd, PollEndsEd, AdoptEd, SaveEd,
     SaveAnswersEd, SaveFailsEd, OverwriteFailsEd, TakeLatestEd, OverwriteEd
  DEF Edit

-----------------------------------------------------------------------------
(* Rows only go on; what was read stays read.                              *)

LEMMA PutGood ==
  ASSUME PlansTyped, NEW v \in Versions, NEW clip \in GoodClips, Put(v, clip)
  PROVE  /\ row' \in [Versions -> Rows]
         /\ row'[v].rev = row[v].rev + 1
         /\ \A u \in Versions : u # v => row'[u] = row[u]
  <1>1. row \in [Versions -> Rows] /\ row[v].rev \in Nat
    BY DEF PlansTyped, Rows, NoRow
  <1>2. [rev |-> row[v].rev + 1, clip |-> clip] \in Rows
    BY <1>1 DEF Rows
  <1> QED BY <1>1, <1>2 DEF Put

\* What a step does to the rows.
RowStep ==
  /\ row' \in [Versions -> Rows]
  /\ \A v \in Versions : row'[v] = row[v] \/ row'[v].rev = row[v].rev + 1

LEMMA PutStep ==
  ASSUME PlansTyped, NEW v \in Versions, NEW clip \in GoodClips, Put(v, clip)
  PROVE  RowStep
  BY PutGood DEF RowStep

LEMMA ReadKept ==
  ASSUME PlansTyped, RowStep, NEW plan \in Plans, Read(plan)
  PROVE  Read(plan)'
  <1>1. plan.ver \in Versions /\ plan.rev \in Nat
    BY DEF Plans
  <1>2. row[plan.ver].rev \in Nat
    BY <1>1 DEF PlansTyped, Rows, NoRow
  <1> QED BY <1>1, <1>2 DEF Read, RowStep

LEMMA RowsStay == ASSUME PlansTyped, UNCHANGED row PROVE RowStep
  BY DEF PlansTyped, RowStep

LEMMA OneIsVersion == 0 \in Versions /\ 1 \in Versions
  BY DEF Versions

LEMMA EditRow == ASSUME PlansTyped, Edit PROVE RowStep /\ UNCHANGED <<deck, pin>>
  <1>1. CASE PutWrites
    <2>1. ed.call.draft \in Drafts
      BY <1>1, EditorFields, CallFields DEF PlansTyped, PutWrites, NoCall
    <2>2. ed.call.draft.clip \in GoodClips
      BY <2>1, DraftFields
    <2> QED BY <1>1, <2>2, PutStep, RowsStay, OneIsVersion DEF PutWrites
  <1>2. CASE UNCHANGED <<row, deck, pin>>
    BY <1>2, RowsStay
  <1> QED
    BY <1>1, <1>2
    DEF Edit, Web, Load, Retime, Revoke, Adjust, Adopt, Ask, PresetArrives, PrefillArrives,
        AskFails, PollAsks, PollArrives, PollEnds, Save, PutReads, SaveAnswers, SaveFails, TakeLatest,
        Overwrite, OverwriteFails

LEMMA OthersSaveRow ==
  ASSUME PlansTyped, NEW v \in Versions, OthersSave(v)
  PROVE  RowStep /\ UNCHANGED <<ed, deck, pin>>
  <1>1. PICK clip \in Made, hand \in BOOLEAN :
          Put(v, Reconciled(Get(v), [clip EXCEPT !.hand = hand /\ clip.label = "none"
                                                            /\ clip.trigger # "static"]))
    BY DEF OthersSave
  <1>2. [clip EXCEPT !.hand = hand /\ clip.label = "none" /\ clip.trigger # "static"] \in GoodClips
    BY MadeGood DEF GoodClips, Clips
  <1> QED BY <1>1, <1>2, ReconciledGood, PutStep DEF OthersSave

LEMMA ApplyWritesRow ==
  ASSUME PlansTyped, ApplyWrites
  PROVE  RowStep /\ deck' = None /\ UNCHANGED <<ed, pin>>
  BY MadeGood, ReconciledGood, PutStep, RowsStay, OneIsVersion DEF ApplyWrites

\* What is read on the way is carried over a step of somebody else.
LEMMA StayRead ==
  ASSUME PlansInv, RowStep, pin' = pin, deck' = deck \/ deck' = None
  PROVE  /\ PinRead' /\ DeckRead'
         /\ deck' \in {None} \cup [prev : {None} \cup Plans, over : BOOLEAN]
         /\ pin' \in {None} \cup Plans
  <1>1. PlansTyped /\ PinRead /\ DeckRead
    BY DEF PlansInv
  <1>2. PinRead'
    BY <1>1, ReadKept DEF PinRead, PlansTyped
  <1>3. DeckRead'
    <2>1. CASE deck' = deck /\ deck # None /\ deck.prev # None
      <3>1. deck.prev \in Plans
        BY <1>1, <2>1 DEF PlansTyped
      <3> QED BY <1>1, <2>1, <3>1, ReadKept DEF DeckRead
    <2> QED BY <2>1 DEF DeckRead
  <1> QED BY <1>1, <1>2, <1>3 DEF PlansTyped

LEMMA PlansInitInv == AnimationInit => PlansInv
  <1> SUFFICES ASSUME AnimationInit PROVE PlansInv
    OBVIOUS
  <1>1. row \in [Versions -> Rows]
    <2>1. PICK old \in {NoRow} \cup {[rev |-> 1, clip |-> c] : c \in Made} :
            row = [v \in Versions |-> IF v = 0 THEN old ELSE NoRow]
      BY DEF AnimationInit
    <2>2. old \in Rows /\ NoRow \in Rows
      BY MadeGood DEF Rows
    <2> QED BY <2>1, <2>2
  <1> QED BY <1>1, NoEditorGood DEF AnimationInit, PlansInv, PlansTyped, PinRead, DeckRead

LEMMA PlansNextInv == PlansInv /\ [AnimationNext]_animationVars => PlansInv'
  <1> SUFFICES ASSUME PlansInv, [AnimationNext]_animationVars PROVE PlansInv'
    OBVIOUS
  <1>1. PlansTyped /\ PinRead /\ DeckRead /\ ed \in Editors /\ row \in [Versions -> Rows]
    BY DEF PlansInv, PlansTyped
  <1>2. ASSUME RowStep, pin' = pin, deck' = deck \/ deck' = None, ed' \in Editors PROVE PlansInv'
    BY <1>2, StayRead DEF PlansInv, PlansTyped, RowStep
  <1>3. CASE Edit
    BY <1>1, <1>2, <1>3, EditEd, EditRow
  <1>4. ASSUME NEW v \in Versions, OthersSave(v) PROVE PlansInv'
    BY <1>1, <1>2, <1>4, OthersSaveRow
  <1>5. CASE ApplyWrites
    BY <1>1, <1>2, <1>5, ApplyWritesRow
  <1>6. ASSUME NEW over \in BOOLEAN, ApplyReads(over) PROVE PlansInv'
    <2> DEFINE read == [prev |-> Get(1), over |-> over]
    <2>1. /\ Get(1) \in {None} \cup Plans
          /\ Get(1) # None => Read(Get(1))
      BY <1>1, GetRead, OneIsVersion
    <2>2. ~over /\ Get(1) # None => Get(1).clip.label # "manual"
      BY <1>6 DEF ApplyReads, Skips
    <2>3. deck' = read /\ UNCHANGED <<row, ed, pin>>
      BY <1>6 DEF ApplyReads
    <2>4. PinRead'
      BY <1>1, <2>3 DEF PinRead, Read
    <2>5. DeckRead'
      BY <2>1, <2>2, <2>3 DEF DeckRead, Read
    <2> QED BY <1>1, <2>1, <2>3, <2>4, <2>5 DEF PlansInv, PlansTyped
  <1>7. CASE PinPlan
    <2>1. /\ Get(1) \in {None} \cup Plans
          /\ Get(1) # None => Read(Get(1))
      BY <1>1, GetRead, OneIsVersion
    <2>2. pin' = Get(1) /\ UNCHANGED <<row, ed, deck>>
      BY <1>7 DEF PinPlan, Pinned
    <2>3. DeckRead'
      BY <1>1, <2>2 DEF DeckRead, Read
    <2> QED BY <1>1, <2>1, <2>2, <2>3 DEF PlansInv, PlansTyped, PinRead, Read
  <1>8. CASE Export
    <2>1. pin' = None /\ UNCHANGED <<row, ed, deck>>
      BY <1>8 DEF Export
    <2>2. DeckRead'
      BY <1>1, <2>1 DEF DeckRead, Read
    <2> QED BY <1>1, <2>1, <2>2 DEF PlansInv, PlansTyped, PinRead
  <1>9. CASE UNCHANGED animationVars
    BY <1>1, <1>2, <1>9, RowsStay DEF animationVars
  <1> QED BY <1>3, <1>4, <1>5, <1>6, <1>7, <1>8, <1>9, OneIsVersion DEF AnimationNext

LEMMA PlansInvHolds == AnimationSpec => []PlansInv
  BY PlansInitInv, PlansNextInv, PTL DEF AnimationSpec

-----------------------------------------------------------------------------
(* The properties.                                                         *)

\* The variables keep their types: whatever the editor may save, now or after the answer
\* of a request, carries the number of the plan its author has seen.
THEOREM PlansTypeCorrect == AnimationSpec => []PlansTyped
  <1>1. PlansInv => PlansTyped
    BY DEF PlansInv
  <1> QED BY <1>1, PlansInvHolds, PTL

\* What an export draws is what it was told to draw.
THEOREM ExportedCorrect == AnimationSpec => []ExportedAsPinned
  <1>1. PlansInv => ExportedAsPinned
    <2> SUFFICES ASSUME PlansInv, pin # None, Drawn # None PROVE Drawn.clip = pin.clip
      BY DEF ExportedAsPinned
    <2>1. PlansTyped /\ pin \in Plans /\ Read(pin)
      BY DEF PlansInv, PlansTyped, PinRead
    <2>2. pin.ver \in Versions /\ pin.rev \in Nat \ {0} /\ row[pin.ver].rev >= pin.rev
      BY <2>1 DEF Plans, Read
    <2>3. row[pin.ver] # NoRow
      BY <2>2 DEF NoRow
    <2>4. Get(pin.ver) = Plan(pin.ver)
      BY <2>3 DEF Get
    <2>5. Drawn = Plan(pin.ver) /\ row[pin.ver].rev = pin.rev
      BY <2>4 DEF Drawn, Plan
    <2> QED BY <2>1, <2>5 DEF Plan, Read
  <1> QED BY <1>1, PlansInvHolds, PTL

\* A call goes on to its write through PutWrites only.
LEMMA CallStep ==
  ASSUME PlansTyped, Edit, ~PutWrites, ed.call.step = "read"
  PROVE  ed'.call.step # "saved"
  <1>1. ed \in Editors
    BY DEF PlansTyped
  <1>2. CASE Load
    <2>1. PICK old \in {ed, NoEditor} :
            ed' = [NoEditor EXCEPT !.saved = Seen(Get(1)), !.draft = DraftOf(Get(1)),
                                   !.untouched = Get(1) = None,
                                   !.ask = old.ask, !.waits = old.waits,
                                 !.polled = old.polled, !.call = old.call]
      BY <1>2 DEF Load
    <2>2. ed'.call = old.call
      BY <2>1 DEF NoEditor
    <2> QED BY <2>2 DEF NoEditor, NoCall
  <1>3. CASE Save
    BY <1>3 DEF Save, Edits, Free, NoCall
  <1>4. CASE Overwrite
    BY <1>4 DEF Overwrite, Edits, Free, NoCall
  <1>5. CASE SaveAnswers \/ SaveFails \/ OverwriteFails
    <2>1. ed'.call = NoCall
      BY <1>1, <1>5 DEF SaveAnswers, SaveFails, OverwriteFails, Editors
    <2> QED BY <2>1 DEF NoCall
  <1>6. CASE Retime \/ Revoke \/ Adjust
    <2>1. PICK clip : Change(clip)
      BY <1>6 DEF Retime, Revoke, Adjust
    <2>2. ed'.call = ed.call
      BY <1>1, <2>1 DEF Change, Editors
    <2> QED BY <2>2
  <1>7. CASE Adopt \/ Ask("preset") \/ Ask("prefill")
    BY <1>1, <1>7 DEF Adopt, Ask, Editors
  <1>8. CASE PresetArrives \/ PrefillArrives \/ AskFails \/ PollAsks
    BY <1>1, <1>8 DEF PresetArrives, PrefillArrives, AskFails, PollAsks, Editors
  <1>9. CASE PollArrives \/ PollEnds
    BY <1>1, <1>9 DEF PollArrives, PollEnds, Answered, Editors
  <1>10. CASE TakeLatest
    BY <1>1, <1>10 DEF TakeLatest, Editors
  <1>11. CASE PutReads
    BY <1>11 DEF PutReads
  <1> QED BY <1>2, <1>3, <1>4, <1>5, <1>6, <1>7, <1>8, <1>9, <1>10, <1>11 DEF Edit

\* A save replaces the plan its author had before his eyes, or nothing, or the number
\* was that of a legacy plan.
THEOREM SavesCorrect == AnimationSpec => SaveReplacesSeen
  <1> DEFINE Good == Written => ed.call.draft.seen \in {<<v, row[1].rev>> : v \in Versions}
  <1>1. PlansInv /\ [AnimationNext]_animationVars => [Good]_animationVars
    <2> SUFFICES ASSUME PlansInv, [AnimationNext]_animationVars, Written
                 PROVE  ed.call.draft.seen \in {<<v, row[1].rev>> : v \in Versions}
      OBVIOUS
    <2>1. ed \in Editors /\ row[1] \in Rows /\ row[1] # NoRow
      BY OneIsVersion DEF PlansInv, PlansTyped, Written
    <2>2. ed.call.step = "read" /\ ed'.call.step = "saved"
      BY DEF Written
    <2>3. ed.call.draft \in Drafts
      BY <2>1, <2>2, EditorFields, CallFields DEF NoCall
    <2>4. MayPut(1, ed.call.draft.rev)
      <3>1. CASE PutWrites /\ ~MayPut(1, ed.call.draft.rev)
        <4>1. ed' = [ed EXCEPT !.call.step = "refused"]
          BY <3>1 DEF PutWrites
        <4>2. ed.call \in Calls /\ ed.call # NoCall
          BY <2>1, <2>2, EditorFields DEF NoCall
        <4>3. ed'.call = [ed.call EXCEPT !.step = "refused"]
          BY <2>1, <4>1 DEF Editors
        <4> QED BY <2>2, <4>2, <4>3 DEF Calls
      <3>2. CASE Edit /\ ~PutWrites
        BY <2>1, <2>2, <3>2, CallStep DEF PlansInv
      <3>3. CASE ed' = ed
        BY <2>2, <3>3
      <3> QED
        BY <3>1, <3>2, <3>3
        DEF AnimationNext, OthersSave, ApplyReads, ApplyWrites, PinPlan, Export, animationVars
    <2>5. row[1].rev \in Nat \ {0} /\ row[1].rev = Number(ed.call.draft.seen)
      BY <2>1, <2>3, <2>4, DraftFields DEF Rows, MayPut
    <2>6. ed.call.draft.seen \in Versions \X (Nat \ {0})
      BY <2>3, <2>5, DraftFields DEF Seens, Number
    <2> QED BY <2>5, <2>6 DEF Number, Seens
  <1>2. [][Good]_animationVars => SaveReplacesSeen
    BY PTL DEF SaveReplacesSeen
  <1> QED BY <1>1, <1>2, PlansInvHolds, PTL DEF AnimationSpec

\* Apply-all passes over a plan with a marked binding, whenever the mark was made,
\* unless it was told otherwise or has read the legacy plan.
THEOREM MarkedCorrect == AnimationSpec => MarkedKept
  <1> DEFINE Good ==
        deck # None /\ ~deck.over /\ deck' = None /\ row[1] # NoRow /\ row'[1] # row[1] =>
          row[1].clip.label # "manual" \/ (deck.prev # None /\ deck.prev.ver = 0)
  <1>1. PlansInv /\ [AnimationNext]_animationVars => [Good]_animationVars
    <2> SUFFICES ASSUME PlansInv, [AnimationNext]_animationVars,
                        deck # None, ~deck.over, deck' = None,
                        row[1] # NoRow, row'[1] # row[1]
                 PROVE  row[1].clip.label # "manual" \/ (deck.prev # None /\ deck.prev.ver = 0)
      OBVIOUS
    <2>1. PlansTyped /\ row[1] \in Rows
      BY OneIsVersion DEF PlansInv, PlansTyped
    <2>2. ApplyWrites
      BY <2>1, EditRow, OthersSaveRow, OneIsVersion
      DEF AnimationNext, ApplyReads, PinPlan, Export, animationVars
    <2>3. MayPut(1, Expected)
      BY <2>2 DEF ApplyWrites
    <2>4. row[1].rev \in Nat \ {0} /\ row[1].rev = Expected
      BY <2>1, <2>3 DEF Rows, MayPut
    <2>5. deck.prev # None
      BY <2>4 DEF Expected, Seen, Number
    <2>6. deck.prev \in Plans /\ deck.prev.rev = row[1].rev
      BY <2>1, <2>4, <2>5 DEF PlansTyped, Expected, Seen, Number
    <2>7. Read(deck.prev) /\ deck.prev.clip.label # "manual"
      BY <2>5 DEF PlansInv, DeckRead
    <2> QED BY <2>5, <2>6, <2>7 DEF Read, Plans, Versions
  <1>2. [][Good]_animationVars => MarkedKept
    BY PTL DEF MarkedKept
  <1> QED BY <1>1, <1>2, PlansInvHolds, PTL DEF AnimationSpec

\* A choice not saved yet survives the answers that arrive, but for a style that was
\* asked for before it was made.
THEOREM DraftCorrect == AnimationSpec => DraftKept
  <1> DEFINE Good ==
        /\ ed.draft # None /\ ed.draft.clip.hand
        /\ PresetArrives \/ PollArrives
        => \/ ed'.draft.clip.trigger = ed.draft.clip.trigger
           \/ ed.ask # ed'.ask /\ (ed.ask.clip = None \/ ed.ask.clip # ed.draft.clip)
  <1>1. PlansInv => [Good]_animationVars
    <2> SUFFICES ASSUME PlansInv, ed.draft # None, ed.draft.clip.hand, PresetArrives \/ PollArrives
                 PROVE  \/ ed'.draft.clip.trigger = ed.draft.clip.trigger
                        \/ ed.ask # ed'.ask /\ (ed.ask.clip = None \/ ed.ask.clip # ed.draft.clip)
      OBVIOUS
    <2>1. ed \in Editors /\ ed.draft \in Drafts /\ ed.draft \notin Unchosen
      BY EditorFields DEF PlansInv, PlansTyped, Unchosen
    <2>2. CASE PollArrives
      <3>1. ~Replaces
        BY <2>1, EditorFields DEF Replaces
      <3> QED BY <2>1, <2>2, <3>1 DEF PollArrives, Answered, Editors
    <2>3. CASE PresetArrives
      <3>1. PICK clip \in Made :
              ed' = [ed EXCEPT !.draft = Generated(Carried(clip)), !.untouched = FALSE, !.ask = None]
        BY <2>3 DEF PresetArrives
      <3>2. ed'.ask = None /\ ed'.draft = Generated(Carried(clip)) /\ ed.ask # None
        BY <2>1, <2>3, <3>1 DEF Editors, PresetArrives, Asked
      <3>3. CASE ed.ask.clip # None /\ ed.ask.clip = ed.draft.clip
        <4>1. ed.ask.clip.trigger # "static"
          BY <2>1, <3>3, DraftFields DEF GoodClips
        <4>2. Carried(clip).trigger = ed.draft.clip.trigger
          BY <2>1, <3>2, <3>3, <4>1, EditorFields, MadeGood, CarriedGood
        <4> QED BY <3>2, <4>2 DEF Generated
      <3> QED BY <3>2, <3>3
    <2> QED BY <2>2, <2>3
  <1>2. [][Good]_animationVars => DraftKept
    BY PTL DEF DraftKept
  <1> QED BY <1>1, <1>2, PlansInvHolds, PTL DEF AnimationSpec
=============================================================================
