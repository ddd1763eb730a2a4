-------------------------- MODULE JobBillingProofs --------------------------
(***************************************************************************)
(* Proofs about JobBilling for every set of keys, requests and executors,  *)
(* every estimate, and every bound: no narration succeeds uncharged, no    *)
(* job is charged in two months, without a fault a job that has ended      *)
(* keeps no units reserved, and every step is one of the accounts and of   *)
(* the queue, or none.                                                     *)
(***************************************************************************)
EXTENDS JobBilling, TLAPS

Pcs == {"idle", "working", "hook", "billed", "failed", "canceled", "retry", "unknown"}

States == {"absent"} \cup Queue!Runnable \cup Queue!InFlight \cup Queue!Outcome

Row == [state: Accounts!ReservationStates, units: Units \cup {0}]

\* The part of TypeOK the proofs need.
Typed ==
  /\ res \in [Keys -> [1 .. Months -> Row]]
  /\ ledger \in [Keys -> [1 .. Months -> Units \cup {Accounts!NoEntry}]]
  /\ state \in [Keys -> States]
  /\ born \in [Keys -> 1 .. Months]
  /\ month \in 1 .. Months
  /\ exe \in [Executors -> [pc: Pcs, key: Keys \cup {NoKey}]]

\* An executor that is busy has a job that was created.
ExeOnJob ==
  \A e \in Executors : exe[e].pc # "idle" =>
    exe[e].key \in Keys /\ state[exe[e].key] # "absent"

\* Narrations know no months.
OneMonth == Narration => month = 1 /\ \A k \in Keys : born[k] = 1

\* A settled reservation has its entry in the ledger.
SettledIsCharged ==
  \A k \in Keys, m \in 1 .. Months :
    res[k][m].state = "settled" => ledger[k][m] # Accounts!NoEntry

\* A job is charged in the month it was created in.
ChargedWhenBorn ==
  \A k \in Keys, m \in 1 .. Months :
    ledger[k][m] # Accounts!NoEntry => m = born[k] /\ state[k] # "absent"

\* A narration about to succeed has been charged.
BilledIsCharged ==
  \A e \in Executors : Narration /\ exe[e].pc = "billed" =>
    ledger[exe[e].key][1] # Accounts!NoEntry

Inv ==
  /\ Typed /\ ExeOnJob /\ OneMonth
  /\ SettledIsCharged /\ ChargedWhenBorn /\ BilledIsCharged /\ SucceededIsCharged

USE DEF Narration, Accounts!NoEntry, Accounts!Outstanding, Accounts!Known,
        Queue!Runnable, Queue!InFlight, Queue!Outcome, queueVars, accountVars
-----------------------------------------------------------------------------
(* What a step does to the ledger *)

\* The operations of the accounts that change the ledger or a reservation.
Charge(e) ==
  /\ e \in Executors /\ exe[e].pc = "working"
  /\ \E u \in Units : Accounts!Settle(exe[e].key, born[exe[e].key], u)

Reserving == \E k \in Keys, s \in Snaps : Accounts!Reserve(k, month, Estimate[s])

Releasing == \E k, m : Accounts!Release(k, m)

LEMMA AccountStep ==
  ASSUME [Next]_vars
  PROVE  \/ (\E e \in Executors : Charge(e)) \/ Reserving \/ Releasing
         \/ UNCHANGED accountVars
<1>1. ASSUME NEW r \in Requests, NEW k \in Keys, NEW s \in Snaps, ReserveUnits(r, k, s)
      PROVE  Reserving \/ UNCHANGED accountVars
  BY <1>1 DEF ReserveUnits, Reserving
<1>2. ASSUME NEW r \in Requests,
             \/ \E k \in Keys, s \in Snaps : TurnedDown(r, k, s)
             \/ LimitReached(r) \/ CreateJob(r) \/ CreateFails(r) \/ RequestDies(r)
      PROVE  UNCHANGED accountVars
  BY <1>2 DEF TurnedDown, LimitReached, CreateJob, CreateFails, RequestDies
<1>3. ASSUME NEW r \in Requests, ReleaseRequest(r)
      PROVE  Releasing \/ UNCHANGED accountVars
  BY <1>3 DEF ReleaseRequest, ReleaseIfOutstanding, Releasing
<1>4. ASSUME NEW k \in Keys, Cancel(k) \/ CancelDies(k) \/ RetryFailed(k)
      PROVE  UNCHANGED accountVars
  BY <1>4 DEF Cancel, CancelDies, RetryFailed
<1>5. ASSUME NEW k \in Keys, CancelRelease(k)
      PROVE  Releasing \/ UNCHANGED accountVars
  BY <1>5 DEF CancelRelease, ReleaseIfOutstanding, Releasing
<1>6. ASSUME NEW k \in Keys, NEW m \in 1 .. Months, Sweep(k, m)
      PROVE  Releasing
  BY <1>6 DEF Sweep, Releasing
<1>7. ASSUME NEW e \in Executors, NEW u \in Units, SettleUnits(e, u)
      PROVE  Charge(e) \/ UNCHANGED accountVars
  BY <1>7 DEF SettleUnits, SettleMonth, Charge
<1>8. ASSUME NEW e \in Executors,
             \/ \E k \in Keys : Claim(e, k)
             \/ \E pc \in {"failed", "canceled", "retry", "unknown"} : HandlerEnds(e, pc)
             \/ Commit(e) \/ CommitRejected(e) \/ Crash(e)
      PROVE  UNCHANGED accountVars
  BY <1>8 DEF Claim, HandlerEnds, Commit, CommitRejected, Crash
<1>9. ASSUME NEW e \in Executors, Hook(e)
      PROVE  Releasing \/ UNCHANGED accountVars
  BY <1>9 DEF Hook, ReleaseIfOutstanding, Releasing
<1>10. CASE MonthTurns
  BY <1>10 DEF MonthTurns
<1>11. CASE UNCHANGED vars
  BY <1>11 DEF vars
<1> QED
  BY <1>1, <1>2, <1>3, <1>4, <1>5, <1>6, <1>7, <1>8, <1>9, <1>10, <1>11
     DEF Next, Request, Handler
-----------------------------------------------------------------------------
(* What a step does to the jobs *)

\* A job that was created stays created, and keeps its month.
JobKept ==
  \A k \in Keys : state[k] # "absent" => state'[k] # "absent" /\ born'[k] = born[k]

JobTyped == state' \in [Keys -> States] /\ born' \in [Keys -> 1 .. Months]

\* Only an executor that has billed a job makes it succeed.
SucceedsByBilled ==
  \A k \in Keys : state'[k] = "succeeded" =>
    \/ state[k] = "succeeded"
    \/ \E e \in Executors : exe[e].pc = "billed" /\ exe[e].key = k

\* A job is born in the current month.
BornNow == \A k \in Keys : born'[k] = born[k] \/ born'[k] = month

JobFacts == JobTyped /\ JobKept /\ SucceedsByBilled /\ BornNow

LEMMA JobStep ==
  ASSUME Typed, [Next]_vars
  PROVE  JobFacts
<1> USE DEF JobFacts, JobTyped, JobKept, SucceedsByBilled, BornNow, States, Typed
<1>1. ASSUME NEW r \in Requests, CreateJob(r)
      PROVE  JobFacts
  <2> DEFINE k == req[r].key
  <2>1. CASE UNCHANGED <<state, born>>
    BY <2>1
  <2>2. CASE /\ state[k] = "absent"
             /\ state' = [state EXCEPT ![k] = "queued"]
             /\ born' = [born EXCEPT ![k] = month]
    <3> HIDE DEF k
    <3>1. \A i \in Keys : i # k => state'[i] = state[i] /\ born'[i] = born[i]
      BY <2>2
    <3>2. JobTyped
      BY <2>2
    <3>3. \A i \in Keys : state'[i] = "succeeded" => state[i] = "succeeded"
      BY <2>2
    <3>4. BornNow
      BY <2>2
    <3> QED
      BY <2>2, <3>1, <3>2, <3>3, <3>4
  <2> QED
    BY <1>1, <2>1, <2>2 DEF CreateJob, Queue!Submit
<1>2. ASSUME NEW r \in Requests,
             \/ \E k \in Keys, s \in Snaps : ReserveUnits(r, k, s) \/ TurnedDown(r, k, s)
             \/ LimitReached(r) \/ CreateFails(r) \/ ReleaseRequest(r) \/ RequestDies(r)
      PROVE  UNCHANGED jobVars
  BY <1>2 DEF ReserveUnits, TurnedDown, LimitReached, CreateFails, ReleaseRequest, RequestDies
<1>3. ASSUME NEW k \in Keys, Cancel(k)
      PROVE  JobFacts
  BY <1>3 DEF Cancel, Queue!RequestCancel
<1>4. ASSUME NEW k \in Keys, RetryFailed(k)
      PROVE  JobFacts
  BY <1>4 DEF RetryFailed, Queue!Requeue
<1>5. ASSUME NEW k \in Keys,
             CancelRelease(k) \/ CancelDies(k) \/ \E m \in 1 .. Months : Sweep(k, m)
      PROVE  UNCHANGED jobVars
  BY <1>5 DEF CancelRelease, CancelDies, Sweep
<1>6. ASSUME NEW e \in Executors, NEW k \in Keys, Claim(e, k)
      PROVE  JobFacts
  BY <1>6 DEF Claim, Queue!Acquire
<1>7. ASSUME NEW e \in Executors,
             \/ \E u \in Units : SettleUnits(e, u)
             \/ \E pc \in {"failed", "canceled", "retry", "unknown"} : HandlerEnds(e, pc)
             \/ Hook(e)
      PROVE  UNCHANGED jobVars
  BY <1>7 DEF SettleUnits, HandlerEnds, Hook
<1>8. ASSUME NEW e \in Executors, Commit(e)
      PROVE  JobFacts
  <2> DEFINE k == exe[e].key
             v == Verdict[exe[e].pc]
  <2>1. /\ state[k] \in Queue!InFlight
        /\ state' = [state EXCEPT ![k] = v]
        /\ born' = born
    BY <1>8 DEF Commit, Queue!Finish
  <2>2. exe[e].pc \in DOMAIN Verdict
    BY <1>8 DEF Commit
  <2>3. v \in Queue!Outcome \cup {"retry_wait"}
    BY <2>2 DEF Verdict
  <2>4. v = "succeeded" => exe[e].pc = "billed"
    BY <2>2 DEF Verdict
  <2> HIDE DEF k, v
  <2>5. state' \in [Keys -> States]
    BY <2>1, <2>3
  <2>6. \A i \in Keys : state'[i] = IF i = k THEN v ELSE state[i]
    BY <2>1
  <2> QED
    BY <2>1, <2>3, <2>4, <2>5, <2>6 DEF k
<1>9. ASSUME NEW e \in Executors, CommitRejected(e) \/ Crash(e)
      PROVE  UNCHANGED <<kind, state, born>>
  BY <1>9 DEF CommitRejected, Crash
<1>10. CASE MonthTurns
  BY <1>10 DEF MonthTurns, jobVars
<1>11. CASE UNCHANGED vars
  BY <1>11 DEF vars, jobVars
<1>12. UNCHANGED <<state, born>> => JobFacts
  OBVIOUS
<1> QED
  BY <1>1, <1>2, <1>3, <1>4, <1>5, <1>6, <1>7, <1>8, <1>9, <1>10, <1>11, <1>12
     DEF Next, Request, Handler, jobVars
-----------------------------------------------------------------------------
(* What a step does to the executors *)

ExeTyped == exe' \in [Executors -> [pc: Pcs, key: Keys \cup {NoKey}]]

\* An executor keeps its job or takes one that was created.
JobsTaken ==
  \A e \in Executors : exe'[e].pc # "idle" =>
    \/ exe[e].pc # "idle" /\ exe'[e].key = exe[e].key
    \/ exe'[e].key \in Keys /\ state[exe'[e].key] # "absent"

\* A job is billed by a settlement, or because it was settled before.
JustBilled(e) ==
  /\ exe[e].pc = "working"
  /\ \/ Charge(e)
     \/ UNCHANGED accountVars /\ res[exe[e].key][born[exe[e].key]].state = "settled"
     \/ ~Narration

BilledBySettlement ==
  \A e \in Executors : exe'[e].pc = "billed" =>
    exe'[e].key = exe[e].key /\ (exe[e].pc = "billed" \/ JustBilled(e))

ExeFacts == ExeTyped /\ JobsTaken /\ BilledBySettlement

LEMMA VerdictDomain == DOMAIN Verdict \subseteq Pcs /\ "idle" \notin DOMAIN Verdict
BY DEF Verdict, Pcs

\* One executor moves on to pc, or goes idle.
LEMMA GotoFacts ==
  ASSUME Typed, NEW e \in Executors, NEW pc \in Pcs, exe[e].pc # "idle",
         exe' = [exe EXCEPT ![e].pc = pc],
         pc = "billed" => JustBilled(e)
  PROVE  ExeFacts
<1>1. exe[e] \in [pc: Pcs, key: Keys \cup {NoKey}]
  BY DEF Typed
<1>2. exe'[e].pc = pc /\ exe'[e].key = exe[e].key
  BY <1>1 DEF Typed
<1>3. \A f \in Executors : f # e => exe'[f] = exe[f]
  BY DEF Typed
<1>4. ExeTyped
  BY <1>1 DEF Typed, ExeTyped
<1> QED
  BY <1>2, <1>3, <1>4 DEF ExeFacts, JobsTaken, BilledBySettlement

LEMMA SetFacts ==
  ASSUME Typed, NEW e \in Executors, NEW x \in [pc: Pcs, key: Keys \cup {NoKey}],
         exe' = [exe EXCEPT ![e] = x], x.pc # "billed",
         x.pc # "idle" => x.key \in Keys /\ state[x.key] # "absent"
  PROVE  ExeFacts
<1>1. exe'[e] = x /\ \A f \in Executors : f # e => exe'[f] = exe[f]
  BY DEF Typed
<1>2. ExeTyped
  BY DEF Typed, ExeTyped
<1> QED
  BY <1>1, <1>2 DEF ExeFacts, JobsTaken, BilledBySettlement

LEMMA IdleFacts ==
  ASSUME Typed, NEW e \in Executors, exe' = [exe EXCEPT ![e] = Idle]
  PROVE  ExeFacts
<1>1. Idle \in [pc: Pcs, key: Keys \cup {NoKey}] /\ Idle.pc = "idle"
  BY DEF Idle, Pcs
<1> QED
  BY <1>1, SetFacts

LEMMA ExeStep ==
  ASSUME Typed, [Next]_vars
  PROVE  ExeFacts
<1>1. UNCHANGED exe => ExeFacts
  BY DEF ExeFacts, ExeTyped, JobsTaken, BilledBySettlement, Typed
<1>2. ASSUME NEW e \in Executors, NEW k \in Keys, Claim(e, k)
      PROVE  ExeFacts
  <2> DEFINE x == [pc |-> IF state[k] = "cancel_requested" THEN "canceled" ELSE "working",
                   key |-> k]
  <2>1. /\ exe' = [exe EXCEPT ![e] = x]
        /\ state[k] # "absent"
    BY <1>2 DEF Claim, Queue!Acquire
  <2>2. x \in [pc: Pcs, key: Keys \cup {NoKey}] /\ x.pc # "billed" /\ x.key = k
    BY DEF Pcs
  <2> HIDE DEF x
  <2> QED
    BY <2>1, <2>2, SetFacts
<1>3. ASSUME NEW e \in Executors, NEW u \in Units, SettleUnits(e, u)
      PROVE  ExeFacts
  <2> DEFINE k == exe[e].key
  <2>1. exe[e].pc = "working"
    BY <1>3 DEF SettleUnits
  <2>2. CASE Accounts!Settle(k, born[k], u) /\ Goto(e, "billed")
    <3>1. Charge(e)
      BY <2>1, <2>2 DEF Charge
    <3> QED
      BY <2>1, <2>2, <3>1, GotoFacts DEF Goto, JustBilled, Pcs
  <2>3. CASE /\ UNCHANGED accountVars
             /\ Goto(e, IF res[k][born[k]].state # "settled" /\ SettlementFails
                        THEN "failed" ELSE "billed")
    <3>1. CASE res[k][born[k]].state # "settled" /\ SettlementFails
      BY <2>1, <2>3, <3>1, GotoFacts DEF Goto, Pcs
    <3>2. CASE ~(res[k][born[k]].state # "settled" /\ SettlementFails)
      <4>1. JustBilled(e)
        BY <2>1, <2>3, <3>2 DEF JustBilled, SettlementFails
      <4> QED
        BY <2>1, <2>3, <3>2, <4>1, GotoFacts DEF Goto, Pcs
    <3> QED
      BY <3>1, <3>2
  <2> QED
    BY <1>3, <2>2, <2>3 DEF SettleUnits, SettleMonth
<1>4. ASSUME NEW e \in Executors, NEW pc \in {"failed", "canceled", "retry", "unknown"},
             HandlerEnds(e, pc)
      PROVE  ExeFacts
  BY <1>4, GotoFacts DEF HandlerEnds, Goto, Pcs
<1>5. ASSUME NEW e \in Executors, Commit(e)
      PROVE  ExeFacts
  <2>1. exe[e].pc # "idle"
    BY <1>5, VerdictDomain DEF Commit
  <2>2. CASE exe' = [exe EXCEPT ![e] = Idle]
    BY <2>2, IdleFacts
  <2>3. CASE Goto(e, "hook")
    BY <2>1, <2>3, GotoFacts DEF Goto, Pcs
  <2> QED
    BY <1>5, <2>2, <2>3 DEF Commit
<1>6. ASSUME NEW e \in Executors, CommitRejected(e) \/ Hook(e) \/ Crash(e)
      PROVE  ExeFacts
  BY <1>6, IdleFacts DEF CommitRejected, Hook, Crash
<1>7. ASSUME NEW r \in Requests, Request(r)
      PROVE  UNCHANGED exe
  BY <1>7 DEF Request, ReserveUnits, TurnedDown, LimitReached, CreateJob, CreateFails,
              ReleaseRequest, RequestDies
<1>8. ASSUME NEW k \in Keys,
             \/ Cancel(k) \/ CancelRelease(k) \/ CancelDies(k) \/ RetryFailed(k)
             \/ \E m \in 1 .. Months : Sweep(k, m)
      PROVE  UNCHANGED exe
  BY <1>8 DEF Cancel, CancelRelease, CancelDies, RetryFailed, Sweep
<1>9. CASE MonthTurns
  BY <1>1, <1>9 DEF MonthTurns
<1>10. CASE UNCHANGED vars
  BY <1>1, <1>10 DEF vars
<1> QED
  BY <1>1, <1>2, <1>3, <1>4, <1>5, <1>6, <1>7, <1>8, <1>9, <1>10 DEF Next, Handler
-----------------------------------------------------------------------------
(* What a step does to the accounts *)

AccountsTyped ==
  /\ res' \in [Keys -> [1 .. Months -> Row]]
  /\ ledger' \in [Keys -> [1 .. Months -> Units \cup {Accounts!NoEntry}]]

\* No entry of the ledger changes.
EntriesKept ==
  \A k \in Keys, m \in 1 .. Months :
    ledger[k][m] # Accounts!NoEntry => ledger'[k][m] = ledger[k][m]

\* New ones are made for a job somebody works on, in the month it was created in.
EntriesMade ==
  \A k \in Keys, m \in 1 .. Months : ledger'[k][m] # Accounts!NoEntry =>
    \/ ledger[k][m] # Accounts!NoEntry
    \/ m = born[k] /\ \E e \in Executors : exe[e].pc = "working" /\ exe[e].key = k

SettledByEntry ==
  \A k \in Keys, m \in 1 .. Months : res'[k][m].state = "settled" =>
    res[k][m].state = "settled" \/ ledger'[k][m] # Accounts!NoEntry

ChargeMakesEntry ==
  \A e \in Executors : Charge(e) =>
    ledger'[exe[e].key][born[exe[e].key]] # Accounts!NoEntry

AccountFacts ==
  AccountsTyped /\ EntriesKept /\ EntriesMade /\ SettledByEntry

\* Closing a reservation changes one cell.
LEMMA ClosedFacts ==
  ASSUME Typed, NEW o, NEW n, NEW s \in {"settled", "released"},
         res' = Accounts!ClosedAs(o, n, s)
  PROVE  /\ res' \in [Keys -> [1 .. Months -> Row]]
         /\ \A k \in Keys, m \in 1 .. Months :
              IF k = o /\ m = n THEN res'[k][m].state = s ELSE res'[k][m] = res[k][m]
<1> DEFINE x == [state |-> s, units |-> res[o][n].units]
<1>1. CASE o \in Keys /\ n \in 1 .. Months
  <2>1. res[o] \in [1 .. Months -> Row]
    BY <1>1 DEF Typed
  <2>a. res[o][n] \in Row
    BY <1>1, <2>1
  <2>2. x \in Row
    BY <2>a DEF Row, Accounts!ReservationStates
  <2>3. res' = [res EXCEPT ![o][n] = x] /\ x.state = s
    BY DEF Accounts!ClosedAs
  <2> HIDE DEF x
  <2>4. res'[o] = [res[o] EXCEPT ![n] = x]
    BY <1>1, <2>3 DEF Typed
  <2>5. \A k \in Keys : k # o => res'[k] = res[k]
    BY <2>3 DEF Typed
  <2>6. res'[o] \in [1 .. Months -> Row]
    BY <2>1, <2>2, <2>4
  <2>7. res'[o][n] = x /\ \A m \in 1 .. Months : m # n => res'[o][m] = res[o][m]
    BY <1>1, <2>1, <2>4
  <2>8. res' \in [Keys -> [1 .. Months -> Row]]
    BY <2>3, <2>5, <2>6 DEF Typed
  <2> QED
    BY <2>3, <2>5, <2>7, <2>8
<1>2. CASE ~(o \in Keys /\ n \in 1 .. Months)
  <2>1. res' = [res EXCEPT ![o][n] = x]
    BY DEF Accounts!ClosedAs
  <2> HIDE DEF x
  <2>2. res' = res
    <3>1. CASE o \notin Keys
      BY <2>1, <3>1 DEF Typed
    <3>2. CASE o \in Keys /\ n \notin 1 .. Months
      <4>1. res[o] \in [1 .. Months -> Row]
        BY <3>2 DEF Typed
      <4>2. [res[o] EXCEPT ![n] = x] = res[o]
        BY <3>2, <4>1
      <4> QED
        BY <2>1, <3>2, <4>2 DEF Typed
    <3> QED
      BY <1>2, <3>1, <3>2
  <2> QED
    BY <1>2, <2>2 DEF Typed
<1> QED
  BY <1>1, <1>2

LEMMA ChargeFacts ==
  ASSUME Typed, ExeOnJob, NEW e \in Executors, Charge(e)
  PROVE  AccountFacts /\ ledger'[exe[e].key][born[exe[e].key]] # Accounts!NoEntry
<1> DEFINE o == exe[e].key
           n == born[o]
<1>1. o \in Keys /\ n \in 1 .. Months
  BY DEF Charge, ExeOnJob, Typed
<1>2. PICK u \in Units :
        /\ ledger' = [ledger EXCEPT ![o][n] = IF @ = Accounts!NoEntry THEN u ELSE @]
        /\ res' = Accounts!ClosedAs(o, n, "settled")
  BY DEF Charge, Accounts!Settle
<1>3. u # -1
  BY BillingAssumption DEF BillingAssumption
<1> HIDE DEF o, n
<1>4. /\ ledger' \in [Keys -> [1 .. Months -> Units \cup {Accounts!NoEntry}]]
      /\ ledger'[o][n] # Accounts!NoEntry
      /\ EntriesKept
      /\ \A k \in Keys, m \in 1 .. Months : ~(k = o /\ m = n) => ledger'[k][m] = ledger[k][m]
  BY <1>1, <1>2, <1>3 DEF Typed, EntriesKept
<1>5. EntriesMade
  BY <1>4 DEF EntriesMade, Charge, o, n
<1>6. AccountsTyped /\ SettledByEntry
  BY <1>2, <1>4, ClosedFacts DEF AccountsTyped, SettledByEntry
<1> QED
  BY <1>4, <1>5, <1>6 DEF AccountFacts, o, n

LEMMA ReserveFacts ==
  ASSUME Typed, Reserving
  PROVE  AccountFacts
<1>1. PICK k \in Keys, u \in Units :
        /\ res' = [res EXCEPT ![k][month] = [state |-> "reserved", units |-> u]]
        /\ ledger' = ledger
  BY BillingAssumption DEF BillingAssumption, Reserving, Accounts!Reserve
<1> DEFINE x == [state |-> "reserved", units |-> u]
<1>2. x \in Row /\ x.state # "settled"
  BY DEF Row, Accounts!ReservationStates
<1>3. res' = [res EXCEPT ![k][month] = x]
  BY <1>1
<1> HIDE DEF x
<1>4. res' \in [Keys -> [1 .. Months -> Row]]
  BY <1>2, <1>3 DEF Typed
<1>5. SettledByEntry
  BY <1>2, <1>3 DEF Typed, SettledByEntry
<1> QED
  BY <1>1, <1>4, <1>5 DEF Typed, AccountFacts, AccountsTyped, EntriesKept, EntriesMade

LEMMA ReleaseFacts ==
  ASSUME Typed, Releasing
  PROVE  AccountFacts
<1>1. PICK o, n : res' = Accounts!ClosedAs(o, n, "released") /\ ledger' = ledger
  BY DEF Releasing, Accounts!Release
<1>a. /\ res' \in [Keys -> [1 .. Months -> Row]]
      /\ \A k \in Keys, m \in 1 .. Months :
           IF k = o /\ m = n THEN res'[k][m].state = "released" ELSE res'[k][m] = res[k][m]
  BY <1>1, ClosedFacts
<1>b. SettledByEntry
  BY <1>a DEF SettledByEntry
<1>2. AccountsTyped /\ SettledByEntry
  BY <1>1, <1>a, <1>b DEF AccountsTyped, Typed
<1> QED
  BY <1>1, <1>2 DEF AccountFacts, EntriesKept, EntriesMade

LEMMA AccountsStep ==
  ASSUME Typed, ExeOnJob, [Next]_vars
  PROVE  AccountFacts /\ ChargeMakesEntry
<1>1. UNCHANGED accountVars => AccountFacts
  BY DEF AccountFacts, AccountsTyped, EntriesKept, EntriesMade, SettledByEntry, Typed
<1> QED
  BY <1>1, AccountStep, ChargeFacts, ReserveFacts, ReleaseFacts DEF ChargeMakesEntry
-----------------------------------------------------------------------------
(* The invariant *)

LEMMA MonthStep ==
  ASSUME [Next]_vars, Typed
  PROVE  kind' = kind /\ month' \in 1 .. Months /\ (Narration => month' = month)
<1>1. ASSUME MonthTurns
      PROVE  kind' = kind /\ month' \in 1 .. Months /\ ~Narration
  BY <1>1, BillingAssumption DEF BillingAssumption, MonthTurns, jobVars, Typed
<1>2. ASSUME NEW r \in Requests, Request(r)
      PROVE  UNCHANGED <<kind, month>>
  BY <1>2 DEF Request, ReserveUnits, TurnedDown, LimitReached, CreateJob, CreateFails,
              ReleaseRequest, RequestDies, jobVars
<1>3. ASSUME NEW k \in Keys,
             \/ Cancel(k) \/ CancelRelease(k) \/ CancelDies(k) \/ RetryFailed(k)
             \/ \E m \in 1 .. Months : Sweep(k, m)
      PROVE  UNCHANGED <<kind, month>>
  BY <1>3 DEF Cancel, CancelRelease, CancelDies, RetryFailed, Sweep, jobVars
<1>4. ASSUME NEW e \in Executors, Handler(e) \/ \E k \in Keys : Claim(e, k)
      PROVE  UNCHANGED <<kind, month>>
  BY <1>4 DEF Handler, SettleUnits, HandlerEnds, Claim, jobVars
<1>5. ASSUME NEW e \in Executors, Commit(e) \/ CommitRejected(e) \/ Hook(e) \/ Crash(e)
      PROVE  UNCHANGED <<kind, month>>
  BY <1>5 DEF Commit, CommitRejected, Hook, Crash, jobVars
<1>6. CASE UNCHANGED vars
  BY <1>6 DEF vars, jobVars, Typed
<1> QED
  BY <1>1, <1>2, <1>3, <1>4, <1>5, <1>6 DEF Next, Typed

LEMMA InitInv == Init => Inv
<1> SUFFICES ASSUME Init PROVE Inv
  OBVIOUS
<1> USE BillingAssumption DEF BillingAssumption, Init, Queue!Init
<1>1. Typed
  BY DEF Typed, Row, Accounts!ReservationStates, States, Idle, Pcs
<1>2. \A e \in Executors : exe[e].pc = "idle"
  BY DEF Idle
<1>3. ExeOnJob /\ BilledIsCharged
  BY <1>2 DEF ExeOnJob, BilledIsCharged
<1>4. OneMonth
  BY DEF OneMonth
<1>5. SettledIsCharged /\ ChargedWhenBorn /\ SucceededIsCharged
  BY DEF SettledIsCharged, ChargedWhenBorn, SucceededIsCharged
<1> QED
  BY <1>1, <1>3, <1>4, <1>5 DEF Inv

\* Each part of the invariant follows from the facts about a step.
LEMMA InvStep == Inv /\ [Next]_vars => Inv'
<1> SUFFICES ASSUME Inv, [Next]_vars PROVE Inv'
  OBVIOUS
<1>1. Typed /\ ExeOnJob /\ OneMonth
  BY DEF Inv
<1>2. JobFacts /\ ExeFacts /\ AccountFacts /\ ChargeMakesEntry
  BY <1>1, JobStep, ExeStep, AccountsStep
<1>3. kind' = kind /\ month' \in 1 .. Months /\ (Narration => month' = month)
  BY <1>1, MonthStep
<1>4. Typed'
  BY <1>2, <1>3 DEF Typed, JobFacts, JobTyped, ExeFacts, ExeTyped, AccountFacts, AccountsTyped
<1>5. ExeOnJob'
  BY <1>1, <1>2 DEF ExeOnJob, ExeFacts, JobsTaken, JobFacts, JobKept
<1>6. SettledIsCharged'
  BY <1>2 DEF Inv, SettledIsCharged, AccountFacts, SettledByEntry, EntriesKept
<1>7. ChargedWhenBorn'
  BY <1>1, <1>2 DEF Inv, ChargedWhenBorn, ExeOnJob, AccountFacts, EntriesMade,
                    JobFacts, JobKept
<1>8. OneMonth'
  <2>1. ASSUME Narration, NEW k \in Keys
        PROVE  born'[k] = 1
    BY <1>1, <1>2, <2>1 DEF OneMonth, JobFacts, BornNow
  <2> QED
    BY <1>1, <1>3, <2>1 DEF OneMonth
<1>9. BilledIsCharged'
  <2> SUFFICES ASSUME NEW e \in Executors, Narration, exe'[e].pc = "billed"
               PROVE  ledger'[exe'[e].key][1] # Accounts!NoEntry
    BY <1>3 DEF BilledIsCharged
  <2>1. exe'[e].key = exe[e].key /\ (exe[e].pc = "billed" \/ JustBilled(e))
    BY <1>2 DEF ExeFacts, BilledBySettlement
  <2>2. exe[e].pc # "idle"
    BY <2>1 DEF JustBilled
  <2>3. exe[e].key \in Keys /\ born[exe[e].key] = 1 /\ 1 \in 1 .. Months
    BY <1>1, <2>2, BillingAssumption DEF BillingAssumption, ExeOnJob, OneMonth
  <2>4. CASE ledger[exe[e].key][1] # Accounts!NoEntry
    BY <1>2, <2>1, <2>3, <2>4 DEF AccountFacts, EntriesKept
  <2>5. CASE Charge(e)
    BY <1>2, <2>1, <2>3, <2>5 DEF ChargeMakesEntry
  <2>6. CASE exe[e].pc = "billed"
    BY <2>4, <2>6 DEF Inv, BilledIsCharged
  <2>7. CASE res[exe[e].key][born[exe[e].key]].state = "settled"
    BY <2>3, <2>4, <2>7 DEF Inv, SettledIsCharged
  <2> QED
    BY <2>1, <2>5, <2>6, <2>7 DEF JustBilled
<1>10. SucceededIsCharged'
  <2> SUFFICES ASSUME NEW k \in Keys, Narration, state'[k] = "succeeded"
               PROVE  ledger'[k][1] # Accounts!NoEntry
    BY <1>3 DEF SucceededIsCharged
  <2>1. ledger[k][1] # Accounts!NoEntry
    BY <1>2 DEF JobFacts, SucceedsByBilled, Inv, SucceededIsCharged, BilledIsCharged
  <2> QED
    BY <1>2, <2>1, BillingAssumption DEF BillingAssumption, AccountFacts, EntriesKept
<1> QED
  BY <1>4, <1>5, <1>6, <1>7, <1>8, <1>9, <1>10 DEF Inv

LEMMA Invariance == Spec => []Inv
BY InitInv, InvStep, PTL DEF Spec

\* No narration succeeds without having been charged.
THEOREM ChargedCorrect == Spec => []SucceededIsCharged
<1>1. Inv => SucceededIsCharged
  BY DEF Inv
<1> QED
  BY <1>1, Invariance, PTL

\* No job is charged in two months.
THEOREM ChargedOnceCorrect == Spec => []ChargedOnce
<1>1. Inv => ChargedOnce
  BY DEF Inv, ChargedWhenBorn, ChargedOnce
<1> QED
  BY <1>1, Invariance, PTL
-----------------------------------------------------------------------------
(* Jobs that have ended are closed *)

Requesting == {"reserved", "releasing"}

RequestRow == [pc: {"idle", "done"} \cup Requesting, key: Keys \cup {NoKey},
             snap: Snaps \cup {NoSnap}, created: BOOLEAN]

Counted == faults \in Nat /\ req \in [Requests -> RequestRow]

Asking == \A r \in Requests : req[r].pc \in Requesting => req[r].key \in Keys

\* In the first month a request that goes on, and a job, have a reservation, whatever
\* has become of it; so none is made for them later.
Funded ==
  month = 1 =>
    /\ \A r \in Requests : req[r].pc \in Requesting => res[req[r].key][1].state # "none"
    /\ \A k \in Keys : state[k] # "absent" => born[k] = 1 /\ res[k][1].state # "none"

\* It is closed once the handler has passed the settlement.
ClosedWhenBilled ==
  month = 1 =>
    /\ \A e \in Executors : exe[e].pc = "billed" => res[exe[e].key][1].state # "reserved"
    /\ \A k \in Keys : state[k] = "succeeded" => res[k][1].state # "reserved"

\* Without a fault the hook of a job that has failed runs.
HookToCome ==
  faults = 0 /\ month = 1 => \A k \in Keys : state[k] = "failed" =>
    \/ res[k][1].state # "reserved"
    \/ \E e \in Executors : exe[e].pc = "hook" /\ exe[e].key = k

EndInv == Inv /\ Counted /\ Asking /\ Funded /\ ClosedWhenBilled /\ HookToCome

\* What a step does to the clock and to the count of faults.
LEMMA ClockStep ==
  ASSUME [Next]_vars, Counted, Typed
  PROVE  month' \in {month, month + 1} /\ faults' \in {faults, faults + 1}
<1>1. ASSUME NEW r \in Requests, Request(r)
      PROVE  month' = month /\ faults' \in {faults, faults + 1}
  BY <1>1 DEF Request, ReserveUnits, TurnedDown, LimitReached, CreateJob, CreateFails,
              ReleaseRequest, RequestDies, Fault
<1>2. ASSUME NEW k \in Keys,
             \/ Cancel(k) \/ CancelRelease(k) \/ CancelDies(k) \/ RetryFailed(k)
             \/ \E m \in 1 .. Months : Sweep(k, m)
      PROVE  month' = month /\ faults' \in {faults, faults + 1}
  BY <1>2 DEF Cancel, CancelRelease, CancelDies, RetryFailed, Sweep, Fault
<1>3. ASSUME NEW e \in Executors, Handler(e) \/ \E k \in Keys : Claim(e, k)
      PROVE  month' = month /\ faults' \in {faults, faults + 1}
  BY <1>3 DEF Handler, SettleUnits, HandlerEnds, Claim, Fault
<1>4. ASSUME NEW e \in Executors, Commit(e) \/ CommitRejected(e) \/ Hook(e) \/ Crash(e)
      PROVE  month' = month /\ faults' \in {faults, faults + 1}
  BY <1>4 DEF Commit, CommitRejected, Hook, Crash, Fault
<1>5. CASE MonthTurns
  BY <1>5 DEF MonthTurns
<1>6. CASE UNCHANGED vars
  BY <1>6 DEF vars
<1> QED
  BY <1>1, <1>2, <1>3, <1>4, <1>5, <1>6 DEF Next

\* A reservation is made once and closed once.
ReservationsKept ==
  \A k \in Keys, m \in 1 .. Months :
    /\ res[k][m].state # "none" => res'[k][m].state # "none"
    /\ res[k][m].state # "none" /\ res[k][m].state # "reserved" => res'[k][m].state # "reserved"

LEMMA ReservationsStep ==
  ASSUME Typed, [Next]_vars
  PROVE  ReservationsKept
<1>1. ASSUME NEW o, NEW n, NEW s \in {"settled", "released"}, res' = Accounts!ClosedAs(o, n, s)
      PROVE  ReservationsKept
  BY <1>1, ClosedFacts DEF ReservationsKept
<1>2. CASE \E e \in Executors : Charge(e)
  BY <1>1, <1>2 DEF Charge, Accounts!Settle
<1>3. CASE Releasing
  BY <1>1, <1>3 DEF Releasing, Accounts!Release
<1>4. CASE Reserving
  <2>1. PICK k \in Keys, s \in Snaps : Accounts!Reserve(k, month, Estimate[s])
    BY <1>4 DEF Reserving
  <2> DEFINE x == [state |-> "reserved", units |-> Estimate[s]]
  <2>2. res' = [res EXCEPT ![k][month] = x] /\ res[k][month].state = "none"
    BY <2>1 DEF Accounts!Reserve
  <2> HIDE DEF x
  <2>3. \A j \in Keys, m \in 1 .. Months : res[j][m].state # "none" => res'[j][m] = res[j][m]
    BY <2>2 DEF Typed
  <2> QED
    BY <2>3 DEF ReservationsKept
<1>5. CASE UNCHANGED accountVars
  BY <1>5 DEF ReservationsKept
<1> QED
  BY <1>2, <1>3, <1>4, <1>5, AccountStep

\* A request goes on with a key that has a reservation in this month.
RequestsAsk ==
  \A r \in Requests : req'[r].pc \in Requesting =>
    /\ req'[r].key \in Keys
    /\ \/ req[r].pc \in Requesting /\ req'[r].key = req[r].key
       \/ res'[req'[r].key][month'].state # "none"

RequestFacts == req' \in [Requests -> RequestRow] /\ RequestsAsk

\* One request moves on.
LEMMA RequestGoes ==
  ASSUME Typed, Counted, NEW r \in Requests, NEW pc \in {"idle", "done"} \cup Requesting,
         req' = [req EXCEPT ![r].pc = pc],
         pc \in Requesting => req[r].pc \in Requesting,
         \A q \in Requests : req[q].pc \in Requesting => req[q].key \in Keys
  PROVE  RequestFacts
<1>1. req[r] \in RequestRow
  BY DEF Counted
<1>2. req'[r].pc = pc /\ req'[r].key = req[r].key
  BY <1>1 DEF Counted, RequestRow
<1>3. \A q \in Requests : q # r => req'[q] = req[q]
  BY DEF Counted
<1>4. req' \in [Requests -> RequestRow]
  BY <1>1 DEF Counted, RequestRow
<1> QED
  BY <1>2, <1>3, <1>4 DEF RequestFacts, RequestsAsk

LEMMA RequestStep ==
  ASSUME Typed, Counted, [Next]_vars,
         \A q \in Requests : req[q].pc \in Requesting => req[q].key \in Keys
  PROVE  RequestFacts
<1>1. UNCHANGED req => RequestFacts
  BY DEF RequestFacts, RequestsAsk, Counted
<1>2. ASSUME NEW r \in Requests, NEW k \in Keys, NEW s \in Snaps, ReserveUnits(r, k, s)
      PROVE  RequestFacts
  <2>1. PICK c \in BOOLEAN :
          /\ req' = [req EXCEPT ![r] = [pc |-> "reserved", key |-> k, snap |-> s,
                                        created |-> c]]
          /\ \/ res[k][month].state # "none" /\ UNCHANGED accountVars
             \/ Accounts!Reserve(k, month, Estimate[s])
    BY <1>2 DEF ReserveUnits
  <2> DEFINE x == [pc |-> "reserved", key |-> k, snap |-> s, created |-> c]
  <2>2. x \in RequestRow /\ x.key = k
    BY DEF RequestRow, Requesting
  <2>3. req' = [req EXCEPT ![r] = x]
    BY <2>1
  <2>4. month' = month
    BY <1>2 DEF ReserveUnits
  <2>5. res'[k][month'].state # "none"
    <3>1. CASE res[k][month].state # "none" /\ UNCHANGED accountVars
      BY <2>4, <3>1
    <3>2. CASE Accounts!Reserve(k, month, Estimate[s])
      <4> DEFINE y == [state |-> "reserved", units |-> Estimate[s]]
      <4>1. res' = [res EXCEPT ![k][month] = y] /\ y.state # "none"
        BY <3>2 DEF Accounts!Reserve
      <4> HIDE DEF y
      <4>2. res'[k][month] = y
        BY <4>1 DEF Typed
      <4> QED
        BY <2>4, <4>1, <4>2
    <3> QED
      BY <2>1, <3>1, <3>2
  <2> HIDE DEF x
  <2>6. req'[r] = x /\ \A q \in Requests : q # r => req'[q] = req[q]
    BY <2>3 DEF Counted
  <2>7. req' \in [Requests -> RequestRow]
    BY <2>2, <2>3 DEF Counted
  <2> QED
    BY <2>2, <2>5, <2>6, <2>7 DEF RequestFacts, RequestsAsk
<1>3. ASSUME NEW r \in Requests,
             \/ \E k \in Keys, s \in Snaps : TurnedDown(r, k, s)
             \/ LimitReached(r) \/ ReleaseRequest(r) \/ RequestDies(r)
      PROVE  RequestFacts
  <2>1. req' = [req EXCEPT ![r].pc = "done"]
    BY <1>3 DEF TurnedDown, LimitReached, ReleaseRequest, RequestDies
  <2> QED
    BY <2>1, RequestGoes DEF Requesting
<1>4. ASSUME NEW r \in Requests, CreateJob(r) \/ CreateFails(r)
      PROVE  RequestFacts
  <2>1. /\ req[r].pc = "reserved"
        /\ \E pc \in {"done", "releasing"} : req' = [req EXCEPT ![r].pc = pc]
    BY <1>4 DEF CreateJob, CreateFails, AfterRefusal
  <2> QED
    BY <2>1, RequestGoes DEF Requesting
<1>5. ASSUME NEW k \in Keys,
             \/ Cancel(k) \/ CancelRelease(k) \/ CancelDies(k) \/ RetryFailed(k)
             \/ \E m \in 1 .. Months : Sweep(k, m)
      PROVE  UNCHANGED req
  BY <1>5 DEF Cancel, CancelRelease, CancelDies, RetryFailed, Sweep
<1>6. ASSUME NEW e \in Executors, Handler(e) \/ \E k \in Keys : Claim(e, k)
      PROVE  UNCHANGED req
  BY <1>6 DEF Handler, SettleUnits, HandlerEnds, Claim
<1>7. ASSUME NEW e \in Executors, Commit(e) \/ CommitRejected(e) \/ Hook(e) \/ Crash(e)
      PROVE  UNCHANGED req
  BY <1>7 DEF Commit, CommitRejected, Hook, Crash
<1>8. CASE MonthTurns
  BY <1>1, <1>8 DEF MonthTurns
<1>9. CASE UNCHANGED vars
  BY <1>1, <1>9 DEF vars
<1> QED
  BY <1>1, <1>2, <1>3, <1>4, <1>5, <1>6, <1>7, <1>8, <1>9 DEF Next, Request

\* A job comes from a request.
CreatedByRequest ==
  \A k \in Keys : state'[k] # "absent" =>
    \/ state[k] # "absent"
    \/ born'[k] = month /\ \E r \in Requests : req[r].pc = "reserved" /\ req[r].key = k

\* A job fails by a commit, which leaves the hook to be run.
FailsIntoHook ==
  \A k \in Keys : state'[k] = "failed" =>
    \/ state[k] = "failed"
    \/ \E e \in Executors : exe'[e].pc = "hook" /\ exe'[e].key = k

OriginFacts == CreatedByRequest /\ FailsIntoHook

LEMMA OriginStep ==
  ASSUME Typed, [Next]_vars
  PROVE  OriginFacts
<1> USE DEF OriginFacts, CreatedByRequest, FailsIntoHook, Typed
<1>1. ASSUME NEW r \in Requests, CreateJob(r)
      PROVE  OriginFacts
  <2> DEFINE k == req[r].key
  <2>1. CASE UNCHANGED <<state, born>>
    BY <2>1
  <2>2. CASE /\ state' = [state EXCEPT ![k] = "queued"]
             /\ born' = [born EXCEPT ![k] = month]
    <3>1. req[r].pc = "reserved"
      BY <1>1 DEF CreateJob
    <3> HIDE DEF k
    <3>2. \A i \in Keys : i # k => state'[i] = state[i] /\ born'[i] = born[i]
      BY <2>2
    <3>3. k \in Keys => state'[k] = "queued" /\ born'[k] = month
      BY <2>2
    <3> QED
      BY <3>1, <3>2, <3>3 DEF k
  <2> QED
    BY <1>1, <2>1, <2>2 DEF CreateJob, Queue!Submit
<1>2. ASSUME NEW r \in Requests,
             \/ \E k \in Keys, s \in Snaps : ReserveUnits(r, k, s) \/ TurnedDown(r, k, s)
             \/ LimitReached(r) \/ CreateFails(r) \/ ReleaseRequest(r) \/ RequestDies(r)
      PROVE  UNCHANGED jobVars
  BY <1>2 DEF ReserveUnits, TurnedDown, LimitReached, CreateFails, ReleaseRequest, RequestDies
<1>3. ASSUME NEW k \in Keys, Cancel(k)
      PROVE  OriginFacts
  BY <1>3 DEF Cancel, Queue!RequestCancel
<1>4. ASSUME NEW k \in Keys, RetryFailed(k)
      PROVE  OriginFacts
  BY <1>4 DEF RetryFailed, Queue!Requeue
<1>5. ASSUME NEW k \in Keys,
             CancelRelease(k) \/ CancelDies(k) \/ \E m \in 1 .. Months : Sweep(k, m)
      PROVE  UNCHANGED jobVars
  BY <1>5 DEF CancelRelease, CancelDies, Sweep
<1>6. ASSUME NEW e \in Executors, NEW k \in Keys, Claim(e, k)
      PROVE  OriginFacts
  BY <1>6 DEF Claim, Queue!Acquire
<1>7. ASSUME NEW e \in Executors,
             \/ \E u \in Units : SettleUnits(e, u)
             \/ \E pc \in {"failed", "canceled", "retry", "unknown"} : HandlerEnds(e, pc)
             \/ Hook(e)
      PROVE  UNCHANGED jobVars
  BY <1>7 DEF SettleUnits, HandlerEnds, Hook
<1>8. ASSUME NEW e \in Executors, Commit(e)
      PROVE  OriginFacts
  <2> DEFINE k == exe[e].key
             v == Verdict[exe[e].pc]
  <2>1. /\ exe[e].pc \in DOMAIN Verdict
        /\ state[k] \in Queue!InFlight
        /\ state' = [state EXCEPT ![k] = v]
    BY <1>8 DEF Commit, Queue!Finish
  <2>2. v = "failed" => exe[e].pc = "failed"
    BY <2>1 DEF Verdict
  <2>3. v = "failed" => exe'[e].pc = "hook" /\ exe'[e].key = k
    <3> SUFFICES ASSUME v = "failed" PROVE exe'[e].pc = "hook" /\ exe'[e].key = k
      OBVIOUS
    <3>1. exe' = [exe EXCEPT ![e].pc = "hook"]
      BY <1>8, <2>2 DEF Commit, HasHook, Goto
    <3>2. exe[e] \in [pc: Pcs, key: Keys \cup {NoKey}]
      OBVIOUS
    <3> QED
      BY <3>1, <3>2
  <2> HIDE DEF k, v
  <2>4. \A i \in Keys : state'[i] = IF i = k THEN v ELSE state[i]
    BY <2>1
  <2>5. \A i \in Keys : state[i] = "absent" => state'[i] = "absent"
    BY <2>1, <2>4
  <2> QED
    BY <2>3, <2>4, <2>5
<1>9. ASSUME NEW e \in Executors, CommitRejected(e) \/ Crash(e)
      PROVE  UNCHANGED <<state, born>>
  BY <1>9 DEF CommitRejected, Crash
<1>10. CASE MonthTurns
  BY <1>10 DEF MonthTurns, jobVars
<1>11. CASE UNCHANGED vars
  BY <1>11 DEF vars, jobVars
<1>12. UNCHANGED <<state, born>> => OriginFacts
  OBVIOUS
<1> QED
  BY <1>1, <1>2, <1>3, <1>4, <1>5, <1>6, <1>7, <1>8, <1>9, <1>10, <1>11, <1>12
     DEF Next, Request, Handler, jobVars

\* Who is billed now has closed the reservation of his job; who has a hook to run
\* keeps it until he has, unless he dies.
Billing(e) ==
  exe'[e].pc = "billed" =>
    /\ exe'[e].key = exe[e].key
    /\ \/ exe[e].pc = "billed"
       \/ /\ exe[e].pc = "working"
          /\ res'[exe'[e].key][born'[exe'[e].key]].state # "reserved"

Hooking(e) ==
  exe[e].pc = "hook" /\ faults' = faults =>
    \/ exe'[e] = exe[e]
    \/ res'[exe[e].key][born[exe[e].key]].state # "reserved"

HookFacts == \A e \in Executors : Billing(e) /\ Hooking(e)

\* A step of an executor that has nothing of this to do.
LEMMA OtherFacts ==
  ASSUME Typed, NEW e \in Executors, NEW x, exe' = [exe EXCEPT ![e] = x], x.pc # "billed",
         exe[e].pc # "hook" \/ faults' # faults
  PROVE  HookFacts
BY DEF Typed, HookFacts, Billing, Hooking

LEMMA OtherGoto ==
  ASSUME Typed, NEW e \in Executors, NEW pc, Goto(e, pc), pc # "billed",
         exe[e].pc # "hook" \/ faults' # faults
  PROVE  HookFacts
<1> DEFINE x == [exe[e] EXCEPT !.pc = pc]
<1>1. exe[e] \in [pc: Pcs, key: Keys \cup {NoKey}]
  BY DEF Typed
<1>2. x.pc = pc
  BY <1>1
<1>3. exe' = [exe EXCEPT ![e] = x]
  BY DEF Goto
<1> HIDE DEF x
<1> QED
  BY <1>2, <1>3, OtherFacts

LEMMA HookStep ==
  ASSUME Typed, ExeOnJob, Counted, [Next]_vars
  PROVE  HookFacts
<1>1. UNCHANGED exe => HookFacts
  BY DEF HookFacts, Billing, Hooking
<1>2. ASSUME NEW e \in Executors, NEW k \in Keys, Claim(e, k)
      PROVE  HookFacts
  <2> DEFINE x == [pc |-> IF state[k] = "cancel_requested" THEN "canceled" ELSE "working",
                   key |-> k]
  <2>1. exe' = [exe EXCEPT ![e] = x] /\ exe[e].pc = "idle"
    BY <1>2 DEF Claim
  <2>2. x.pc # "billed"
    OBVIOUS
  <2> HIDE DEF x
  <2> QED
    BY <2>1, <2>2, OtherFacts
<1>3. ASSUME NEW e \in Executors, NEW u \in Units, SettleUnits(e, u)
      PROVE  HookFacts
  <2> DEFINE k == exe[e].key
  <2>1. exe[e].pc = "working"
    BY <1>3 DEF SettleUnits
  <2>2. k \in Keys /\ born[k] \in 1 .. Months
    BY <2>1 DEF ExeOnJob, Typed
  <2>3. ASSUME res'[k][born'[k]].state # "reserved", Goto(e, "billed")
        PROVE  HookFacts
    <3>1. exe[e] \in [pc: Pcs, key: Keys \cup {NoKey}]
      BY DEF Typed
    <3>2. exe'[e].key = k /\ exe'[e].pc = "billed" /\ \A f \in Executors : f # e => exe'[f] = exe[f]
      BY <2>3, <3>1 DEF Goto, Typed
    <3> QED
      BY <2>1, <2>3, <3>2 DEF HookFacts, Billing, Hooking
  <2>4. CASE Accounts!Settle(k, born[k], u) /\ Goto(e, "billed")
    <3>1. res' = Accounts!ClosedAs(k, born[k], "settled") /\ born' = born
      BY <1>3, <2>4 DEF Accounts!Settle, SettleUnits, jobVars
    <3>2. res'[k][born[k]].state = "settled"
      BY <2>2, <3>1, ClosedFacts
    <3>3. exe' = [exe EXCEPT ![e].pc = "billed"]
      BY <2>4 DEF Goto
    <3>4. res'[k][born'[k]].state # "reserved"
      BY <3>1, <3>2, <3>3
    <3> QED
      BY <2>3, <2>4, <3>4
  <2>5. CASE /\ res[k][born[k]].state # "reserved"
             /\ UNCHANGED accountVars
             /\ Goto(e, IF res[k][born[k]].state # "settled" /\ SettlementFails
                        THEN "failed" ELSE "billed")
    <3>1. CASE Goto(e, "failed")
      BY <2>1, <3>1, OtherGoto
    <3>2. CASE Goto(e, "billed")
      <4>1. born' = born
        BY <1>3 DEF SettleUnits, jobVars
      <4>2. res'[k][born'[k]].state # "reserved"
        BY <2>5, <4>1
      <4> QED
        BY <2>3, <3>2, <4>2
    <3> QED
      BY <2>5, <3>1, <3>2
  <2> QED
    BY <1>3, <2>4, <2>5 DEF SettleUnits, SettleMonth
<1>4. ASSUME NEW e \in Executors, NEW pc \in {"failed", "canceled", "retry", "unknown"},
             HandlerEnds(e, pc)
      PROVE  HookFacts
  BY <1>4, OtherGoto DEF HandlerEnds
<1>5. ASSUME NEW e \in Executors, Commit(e) \/ CommitRejected(e)
      PROVE  HookFacts
  <2>1. exe[e].pc # "hook"
    BY <1>5 DEF Commit, CommitRejected, Verdict
  <2>2. Goto(e, "hook") \/ exe' = [exe EXCEPT ![e] = Idle]
    BY <1>5 DEF Commit, CommitRejected
  <2> QED
    BY <2>1, <2>2, OtherFacts, OtherGoto DEF Idle
<1>6. ASSUME NEW e \in Executors, Crash(e)
      PROVE  HookFacts
  <2>1. exe' = [exe EXCEPT ![e] = Idle] /\ faults' # faults
    BY <1>6 DEF Crash, Fault, Counted
  <2>2. Idle.pc # "billed"
    BY DEF Idle
  <2> QED
    BY <2>1, <2>2, OtherFacts
<1>7. ASSUME NEW e \in Executors, Hook(e)
      PROVE  HookFacts
  <2> DEFINE k == exe[e].key
  <2>1. exe[e].pc = "hook" /\ exe' = [exe EXCEPT ![e] = Idle] /\ born' = born
    BY <1>7 DEF Hook, jobVars
  <2>2. k \in Keys /\ born[k] \in 1 .. Months
    BY <2>1 DEF ExeOnJob, Typed
  <2>3. res'[k][born[k]].state # "reserved"
    <3>1. CASE Accounts!Release(k, born[k])
      BY <2>2, <3>1, ClosedFacts DEF Accounts!Release
    <3>2. CASE res[k][born[k]].state # "reserved" /\ UNCHANGED accountVars
      BY <3>2
    <3> QED
      BY <1>7, <3>1, <3>2 DEF Hook, ReleaseIfOutstanding
  <2>4. Hooking(e)
    BY <2>1, <2>3 DEF Hooking
  <2>5. exe'[e].pc = "idle" /\ \A f \in Executors : f # e => exe'[f] = exe[f]
    BY <2>1 DEF Typed, Idle
  <2> QED
    BY <2>4, <2>5 DEF HookFacts, Billing, Hooking
<1>8. ASSUME NEW r \in Requests, Request(r)
      PROVE  UNCHANGED exe
  BY <1>8 DEF Request, ReserveUnits, TurnedDown, LimitReached, CreateJob, CreateFails,
              ReleaseRequest, RequestDies
<1>9. ASSUME NEW k \in Keys,
             \/ Cancel(k) \/ CancelRelease(k) \/ CancelDies(k) \/ RetryFailed(k)
             \/ \E m \in 1 .. Months : Sweep(k, m)
      PROVE  UNCHANGED exe
  BY <1>9 DEF Cancel, CancelRelease, CancelDies, RetryFailed, Sweep
<1>10. CASE MonthTurns
  BY <1>1, <1>10 DEF MonthTurns
<1>11. CASE UNCHANGED vars
  BY <1>1, <1>11 DEF vars
<1> QED
  BY <1>1, <1>2, <1>3, <1>4, <1>5, <1>6, <1>7, <1>8, <1>9, <1>10, <1>11 DEF Next, Handler

\* A closed reservation of the first month stays closed, and a hook leaves it so.
LEMMA EndStep == EndInv /\ [Next]_vars => EndInv'
<1> SUFFICES ASSUME EndInv, [Next]_vars PROVE EndInv'
  OBVIOUS
<1>1. Inv /\ Inv' /\ Typed /\ ExeOnJob /\ Counted
  BY InvStep DEF EndInv, Inv
<1>2. /\ month' \in {month, month + 1} /\ faults' \in {faults, faults + 1}
      /\ ReservationsKept /\ OriginFacts /\ HookFacts
      /\ JobFacts /\ ExeFacts
  BY <1>1, ClockStep, ReservationsStep, OriginStep, HookStep, JobStep, ExeStep
<1>3. RequestFacts
  <2>1. \A r \in Requests : req[r].pc \in Requesting => req[r].key \in Keys
    BY DEF EndInv, Asking
  <2> QED
    BY <1>1, <2>1, RequestStep
<1>4. Counted'
  BY <1>1, <1>2, <1>3 DEF Counted, RequestFacts
<1>5. Asking'
  BY <1>3 DEF RequestFacts, RequestsAsk, Asking
<1>6. month' = 1 => month = 1
  BY <1>1, <1>2 DEF Typed
<1>7. 1 \in 1 .. Months
  BY BillingAssumption DEF BillingAssumption
<1>8. Funded'
  <2> SUFFICES ASSUME month' = 1 PROVE Funded'
    BY DEF Funded
  <2>1. Funded /\ month = 1
    BY <1>6 DEF EndInv
  <2>2. ASSUME NEW r \in Requests, req'[r].pc \in Requesting
        PROVE  res'[req'[r].key][1].state # "none"
    <3>1. CASE res'[req'[r].key][month'].state # "none"
      BY <3>1
    <3>2. CASE req[r].pc \in Requesting /\ req'[r].key = req[r].key
      <4>1. req[r].key \in Keys /\ res[req[r].key][1].state # "none"
        BY <2>1, <3>2 DEF Funded, EndInv, Asking
      <4>2. res'[req[r].key][1].state # "none"
        BY <1>2, <1>7, <4>1 DEF ReservationsKept
      <4> QED
        BY <3>2, <4>2
    <3> QED
      BY <1>3, <2>2, <3>1, <3>2 DEF RequestFacts, RequestsAsk
  <2>3. ASSUME NEW k \in Keys, state'[k] # "absent"
        PROVE  born'[k] = 1 /\ res'[k][1].state # "none"
    <3>1. res[k][1].state # "none"
      BY <1>2, <2>1, <2>3 DEF Funded, OriginFacts, CreatedByRequest, Requesting
    <3>2. born'[k] = 1
      BY <1>2, <2>1, <2>3 DEF Funded, OriginFacts, CreatedByRequest, JobFacts, JobKept
    <3> QED
      BY <1>2, <1>7, <3>1, <3>2 DEF ReservationsKept
  <2> QED
    BY <2>2, <2>3 DEF Funded
\* What was closed is closed.
<1>9. ASSUME NEW k \in Keys, month' = 1, state[k] # "absent", res[k][1].state # "reserved"
      PROVE  res'[k][1].state # "reserved"
  BY <1>2, <1>6, <1>7, <1>9 DEF EndInv, Funded, ReservationsKept
<1>10. ClosedWhenBilled'
  <2> SUFFICES ASSUME month' = 1 PROVE ClosedWhenBilled'
    BY DEF ClosedWhenBilled
  <2>1. ClosedWhenBilled /\ Funded /\ month = 1
    BY <1>6 DEF EndInv
  <2>2. ASSUME NEW e \in Executors, exe'[e].pc = "billed"
        PROVE  res'[exe'[e].key][1].state # "reserved"
    <3> DEFINE k == exe[e].key
    <3>1. /\ exe'[e].key = k
          /\ exe[e].pc = "billed" \/ exe[e].pc = "working"
          /\ exe[e].pc = "billed" \/ res'[k][born'[k]].state # "reserved"
      BY <1>2, <2>2 DEF HookFacts, Billing
    <3>2. k \in Keys /\ state[k] # "absent"
      BY <1>1, <3>1 DEF ExeOnJob
    <3>3. born'[k] = 1
      BY <1>2, <2>1, <3>2 DEF Funded, JobFacts, JobKept
    <3>4. CASE exe[e].pc = "billed"
      <4>1. res'[k][1].state # "reserved"
        BY <1>9, <2>1, <3>2, <3>4 DEF ClosedWhenBilled
      <4> QED
        BY <3>1, <4>1
    <3>5. CASE res'[k][born'[k]].state # "reserved"
      BY <3>1, <3>3, <3>5
    <3> QED
      BY <3>1, <3>4, <3>5
  <2>3. ASSUME NEW k \in Keys, state'[k] = "succeeded"
        PROVE  res'[k][1].state # "reserved"
    <3>1. res[k][1].state # "reserved" /\ state[k] # "absent"
      BY <1>1, <1>2, <2>1, <2>3 DEF JobFacts, SucceedsByBilled, ClosedWhenBilled, ExeOnJob
    <3> QED
      BY <1>9, <3>1
  <2> QED
    BY <2>2, <2>3 DEF ClosedWhenBilled
<1>11. HookToCome'
  <2> SUFFICES ASSUME faults' = 0, month' = 1, NEW k \in Keys, state'[k] = "failed"
               PROVE  \/ res'[k][1].state # "reserved"
                      \/ \E e \in Executors : exe'[e].pc = "hook" /\ exe'[e].key = k
    BY DEF HookToCome
  <2>1. /\ HookToCome /\ Funded /\ month = 1
        /\ faults = 0 /\ faults' = faults
    BY <1>1, <1>2, <1>6 DEF EndInv, Counted
  <2>2. CASE state[k] = "failed"
    <3>1. CASE res[k][1].state # "reserved"
      BY <1>9, <2>2, <3>1
    <3>2. ASSUME NEW e \in Executors, exe[e].pc = "hook", exe[e].key = k
          PROVE  exe'[e] = exe[e] \/ res'[k][1].state # "reserved"
      <4>1. born[k] = 1
        BY <2>1, <2>2 DEF Funded
      <4>2. exe'[e] = exe[e] \/ res'[k][born[k]].state # "reserved"
        BY <1>2, <2>1, <3>2 DEF HookFacts, Hooking
      <4> QED
        BY <4>1, <4>2
    <3> QED
      BY <2>1, <2>2, <3>1, <3>2 DEF HookToCome
  <2> QED
    BY <1>2, <2>2 DEF OriginFacts, FailsIntoHook
<1> QED
  BY <1>1, <1>4, <1>5, <1>8, <1>10, <1>11 DEF EndInv

LEMMA EndInit == Init => EndInv
<1> SUFFICES ASSUME Init PROVE EndInv
  OBVIOUS
<1>1. Inv
  BY InitInv
<1>2. /\ \A r \in Requests : req[r].pc = "idle"
      /\ \A e \in Executors : exe[e].pc = "idle"
      /\ \A k \in Keys : state[k] = "absent"
  BY DEF Init, Queue!Init, IdleRequest, Idle
<1>3. Counted
  BY DEF Init, Counted, RequestRow, IdleRequest
<1>4. Asking /\ Funded /\ ClosedWhenBilled /\ HookToCome
  BY <1>2 DEF Asking, Funded, ClosedWhenBilled, HookToCome, Requesting
<1> QED
  BY <1>1, <1>3, <1>4 DEF EndInv

\* Without a fault no job that has succeeded or failed keeps units reserved.
THEOREM EndedCorrect == Spec => []EndedIsClosed
<1>1. EndInv => EndedIsClosed
  <2> SUFFICES ASSUME EndInv, faults = 0, month = 1, NEW k \in Keys,
                      state[k] \in {"succeeded", "failed"}
               PROVE  ~Forgotten(k)
    BY DEF EndedIsClosed
  <2>1. born[k] = 1
    BY DEF EndInv, Funded
  <2> QED
    BY <2>1 DEF EndInv, ClosedWhenBilled, HookToCome, Forgotten, Pending
<1> QED
  BY <1>1, EndInit, EndStep, PTL DEF Spec
-----------------------------------------------------------------------------
(* Billing takes the steps of the accounts and of the queue, and no others *)

\* Whoever changes the accounts does so by an operation of Quota.
LEMMA AccountsUsed ==
  ASSUME EndInv, [Next]_vars
  PROVE  Accounts!QuotaNext \/ UNCHANGED accountVars
<1>0. Typed /\ ExeOnJob /\ Asking
  BY DEF EndInv, Inv
<1>1. ASSUME NEW k \in Keys, NEW m \in 1 .. Months,
             ReleaseIfOutstanding(k, m) \/ Accounts!Release(k, m)
      PROVE  Accounts!QuotaNext \/ UNCHANGED accountVars
  BY <1>1 DEF ReleaseIfOutstanding, Accounts!QuotaNext
<1>2. month \in 1 .. Months /\ 1 \in 1 .. Months
  BY <1>0, BillingAssumption DEF Typed, BillingAssumption
<1>3. ASSUME NEW e \in Executors, exe[e].pc # "idle"
      PROVE  exe[e].key \in Keys /\ born[exe[e].key] \in 1 .. Months
  BY <1>0, <1>3 DEF ExeOnJob, Typed
<1>4. ASSUME NEW e \in Executors, Charge(e)
      PROVE  Accounts!QuotaNext
  BY <1>3, <1>4 DEF Charge, Accounts!QuotaNext
<1>5. CASE Reserving
  <2>1. PICK k \in Keys, s \in Snaps : Accounts!Reserve(k, month, Estimate[s])
    BY <1>5 DEF Reserving
  <2>2. Estimate[s] \in Units
    BY BillingAssumption DEF BillingAssumption
  <2> QED
    BY <1>2, <2>1, <2>2 DEF Accounts!QuotaNext
<1>6. ASSUME NEW r \in Requests, ReleaseRequest(r)
      PROVE  Accounts!QuotaNext \/ UNCHANGED accountVars
  <2>1. req[r].key \in Keys
    BY <1>0, <1>6 DEF ReleaseRequest, Asking, Requesting
  <2> QED
    BY <1>1, <1>2, <1>6, <2>1 DEF ReleaseRequest
<1>7. ASSUME NEW k \in Keys, CancelRelease(k) \/ \E m \in 1 .. Months : Sweep(k, m)
      PROVE  Accounts!QuotaNext \/ UNCHANGED accountVars
  BY <1>1, <1>2, <1>7 DEF CancelRelease, Sweep
<1>8. ASSUME NEW e \in Executors, Hook(e)
      PROVE  Accounts!QuotaNext \/ UNCHANGED accountVars
  BY <1>1, <1>3, <1>8 DEF Hook
<1>9. ASSUME NEW r \in Requests, Request(r)
      PROVE  ReleaseRequest(r) \/ Reserving \/ UNCHANGED accountVars
  BY <1>9 DEF Request, ReserveUnits, TurnedDown, LimitReached, CreateJob, CreateFails,
              RequestDies, Reserving
<1>10. ASSUME NEW k \in Keys, Cancel(k) \/ CancelDies(k) \/ RetryFailed(k)
       PROVE  UNCHANGED accountVars
  BY <1>10 DEF Cancel, CancelDies, RetryFailed
<1>11. ASSUME NEW e \in Executors, NEW u \in Units, SettleUnits(e, u)
       PROVE  Charge(e) \/ UNCHANGED accountVars
  BY <1>11 DEF SettleUnits, SettleMonth, Charge
<1>12. ASSUME NEW e \in Executors,
              \/ \E k \in Keys : Claim(e, k)
              \/ \E pc \in {"failed", "canceled", "retry", "unknown"} : HandlerEnds(e, pc)
              \/ Commit(e) \/ CommitRejected(e) \/ Crash(e)
       PROVE  UNCHANGED accountVars
  BY <1>12 DEF Claim, HandlerEnds, Commit, CommitRejected, Crash
<1>13. CASE MonthTurns \/ UNCHANGED vars
  BY <1>13 DEF MonthTurns, vars
<1> QED
  BY <1>4, <1>5, <1>6, <1>7, <1>8, <1>9, <1>10, <1>11, <1>12, <1>13 DEF Next, Handler

HolderTyped == holder \in [Keys -> Executors \cup {Nobody}]

\* Whoever changes a job does what the queue lets its clients do; a crash and a
\* lost commit are its Abandon.
LEMMA QueueUsed ==
  ASSUME Typed, ExeOnJob, Asking, HolderTyped, [Next]_vars
  PROVE  Queue!Next \/ UNCHANGED queueVars
<1>1. ASSUME NEW r \in Requests, CreateJob(r)
      PROVE  Queue!Next \/ UNCHANGED queueVars
  <2>1. req[r].key \in Keys
    BY <1>1 DEF CreateJob, Asking, Requesting
  <2> QED
    BY <1>1, <2>1 DEF CreateJob, Queue!Next
<1>2. ASSUME NEW k \in Keys,
             Cancel(k) \/ RetryFailed(k) \/ \E e \in Executors : Claim(e, k)
      PROVE  Queue!Next
  BY <1>2 DEF Cancel, RetryFailed, Claim, Queue!Next
<1>3. ASSUME NEW e \in Executors, Commit(e)
      PROVE  Queue!Next
  <2>1. "idle" # exe[e].pc
    BY <1>3, VerdictDomain DEF Commit
  <2>2. exe[e].key \in Keys
    BY <2>1 DEF ExeOnJob
  <2>3. PICK s : Queue!Finish(exe[e].key, s)
    BY <1>3 DEF Commit
  <2>4. s \in Queue!Outcome \cup {"retry_wait"}
    BY <2>3 DEF Queue!Finish
  <2> QED
    BY <2>2, <2>3, <2>4 DEF Queue!Next
<1>4. ASSUME NEW e \in Executors, CommitRejected(e)
      PROVE  Queue!Next
  <2>1. holder' = [holder EXCEPT ![exe[e].key] = IF @ = e THEN Nobody ELSE @] /\ state' = state
    BY <1>4 DEF CommitRejected
  <2>2. Queue!Abandon
    BY <2>1 DEF Queue!Abandon, HolderTyped
  <2> QED
    BY <2>2 DEF Queue!Next
<1>5. ASSUME NEW e \in Executors, Crash(e)
      PROVE  Queue!Next
  <2>1. /\ holder' = [k \in Keys |-> IF holder[k] = e THEN Nobody ELSE holder[k]]
        /\ state' = state
    BY <1>5 DEF Crash
  <2>2. Queue!Abandon
    BY <2>1 DEF Queue!Abandon, HolderTyped
  <2> QED
    BY <2>2 DEF Queue!Next
<1>6. \/ \E r \in Requests : CreateJob(r)
      \/ \E k \in Keys : Cancel(k) \/ RetryFailed(k) \/ \E e \in Executors : Claim(e, k)
      \/ \E e \in Executors : Commit(e) \/ CommitRejected(e) \/ Crash(e)
      \/ UNCHANGED queueVars
  BY DEF Next, vars, jobVars, Request, Handler, ReserveUnits, TurnedDown, LimitReached,
         CreateFails, ReleaseRequest, RequestDies, CancelRelease, CancelDies, SettleUnits,
         HandlerEnds, Hook, Sweep, MonthTurns
<1> QED
  BY <1>1, <1>2, <1>3, <1>4, <1>5, <1>6

LEMMA HolderStep ==
  ASSUME HolderTyped, Queue!Next \/ UNCHANGED queueVars
  PROVE  HolderTyped'
BY DEF HolderTyped, Queue!Next, Queue!Submit, Queue!RequestCancel, Queue!Requeue,
       Queue!Acquire, Queue!Finish, Queue!Abandon

\* Requests, handlers, hooks and the sweeper change the accounts only by the operations
\* of the usage store, each on a key and a month there are; so what holds of every step
\* of Quota, like the sums on its rows, holds of theirs.
THEOREM AccountsCorrect == Spec => [][Accounts!QuotaNext]_accountVars
<1>1. EndInv /\ [Next]_vars => [Accounts!QuotaNext]_accountVars
  BY AccountsUsed
<1> QED
  BY <1>1, EndInit, EndStep, PTL DEF Spec

\* The jobs that are billed are driven as JobLifecycle allows: billing assumes of the
\* queue nothing that it does not promise.
THEOREM QueueCorrect == Spec => Queue!Spec
<1>1. Init => Queue!Init /\ HolderTyped
  BY DEF Init, Queue!Init, HolderTyped
<1>2. EndInv /\ HolderTyped /\ [Next]_vars => [Queue!Next]_(Queue!vars) /\ HolderTyped'
  <2> SUFFICES ASSUME EndInv, HolderTyped, [Next]_vars
               PROVE  [Queue!Next]_(Queue!vars) /\ HolderTyped'
    OBVIOUS
  <2>1. Typed /\ ExeOnJob /\ Asking
    BY DEF EndInv, Inv
  <2>2. Queue!Next \/ UNCHANGED queueVars
    BY <2>1, QueueUsed
  <2> QED
    BY <2>2, HolderStep DEF Queue!vars
<1> QED
  BY <1>1, <1>2, EndInit, EndStep, PTL DEF Spec, Queue!Spec
=============================================================================
