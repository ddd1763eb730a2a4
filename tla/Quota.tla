------------------------------- MODULE Quota -------------------------------
(***************************************************************************)
(* The usage accounts of one tenant (internal/usage): a quota row for each *)
(* kind of usage, a reservation for each logical operation and kind, and a *)
(* ledger.  Reserve, Settle, Release and SetLimit are one transaction each *)
(* and lock the rows they change, so each is one step.                     *)
(*                                                                         *)
(* The module is used on its own and by JobBilling, which lets requests,   *)
(* jobs and the sweeper take these steps.                                  *)
(***************************************************************************)
EXTENDS Integers, FiniteSets

CONSTANTS
  Ops,     \* logical operations: idempotency keys of requests
  Kinds,   \* kinds of usage; animation minutes have one for each month
  Units,   \* the amounts that are reserved or settled
  Limits   \* the limits of SetLimit, a negative one for no limit

ASSUME QuotaAssumption ==
  /\ Units \subseteq Nat
  /\ Limits \subseteq Int

VARIABLES
  quota,   \* Kinds -> the tenant_quotas row
  res,     \* Ops, Kinds -> the quota_reservations row
  ledger   \* Ops, Kinds -> the quantity in usage_ledger, or NoEntry

quotaVars == <<quota, res, ledger>>

NoEntry == -1

ReservationStates == {"none", "reserved", "settled", "released"}

QuotaTypeOK ==
  /\ quota \in [Kinds -> [limit: Limits \cup {-1}, reserved: Nat, consumed: Nat]]
  /\ res \in [Ops -> [Kinds -> [state: ReservationStates, units: Units \cup {0}]]]
  /\ ledger \in [Ops -> [Kinds -> Units \cup {NoEntry}]]

\* A quota row is created by the first Reserve or SetLimit; GetQuota shows the
\* same values before.
QuotaInit ==
  /\ quota = [k \in Kinds |-> [limit |-> -1, reserved |-> 0, consumed |-> 0]]
  /\ res = [o \in Ops |-> [k \in Kinds |-> [state |-> "none", units |-> 0]]]
  /\ ledger = [o \in Ops |-> [k \in Kinds |-> NoEntry]]
-----------------------------------------------------------------------------
\* Mutant: what has been consumed does not count.
FitsReserved(k, u) ==
  quota[k].limit < 0 \/ quota[k].reserved + u <= quota[k].limit

\* The condition of the UPDATE in Reserve.
Fits(k, u) ==
  quota[k].limit < 0 \/ quota[k].reserved + quota[k].consumed + u <= quota[k].limit

\* The quota row of k under new sums.
Account(k, reserved, consumed) ==
  [limit |-> quota[k].limit, reserved |-> reserved, consumed |-> consumed]

\* The reservations once that of o is closed.
ClosedAs(o, k, s) ==
  [res EXCEPT ![o][k] = [state |-> s, units |-> res[o][k].units]]

Known(o, k) == res[o][k].state # "none"

\* Reserve by a new operation.  One that is known, whatever has become of it,
\* gets its row back unchanged; one that does not fit leaves nothing behind
\* (ErrInsufficientQuota rolls the insertion back).
Reserve(o, k, u) ==
  /\ ~Known(o, k) /\ Fits(k, u)
  /\ res' = [res EXCEPT ![o][k] = [state |-> "reserved", units |-> u]]
  /\ quota' = [quota EXCEPT ![k] = Account(k, quota[k].reserved + u, quota[k].consumed)]
  /\ UNCHANGED ledger

\* GREATEST(reserved_units - $3, 0)
Unreserved(o, k) ==
  IF quota[k].reserved < res[o][k].units THEN 0 ELSE quota[k].reserved - res[o][k].units

Outstanding(o, k) == res[o][k].state = "reserved"

\* Settle of an outstanding reservation; a settled one is left as it is, and
\* any other is an error.
Settle(o, k, actual) ==
  /\ Outstanding(o, k)
  /\ quota' = [quota EXCEPT ![k] = Account(k, Unreserved(o, k),
                                              quota[k].consumed + actual)]
  /\ ledger' = [ledger EXCEPT ![o][k] = IF @ = NoEntry THEN actual ELSE @]
  /\ res' = ClosedAs(o, k, "settled")

\* Mutant: the units stay reserved.
ReleaseKeepsUnits(o, k) ==
  /\ Outstanding(o, k)
  /\ res' = ClosedAs(o, k, "released")
  /\ UNCHANGED <<quota, ledger>>

\* Release of an outstanding reservation, by its operation or by the sweeper
\* (ReleaseReservationByID); any other state makes it a no-op or an error.
Release(o, k) ==
  /\ Outstanding(o, k)
  /\ quota' = [quota EXCEPT ![k] = Account(k, Unreserved(o, k), quota[k].consumed)]
  /\ res' = ClosedAs(o, k, "released")
  /\ UNCHANGED ledger

SetLimit(k, l) ==
  /\ quota' = [quota EXCEPT ![k].limit = l]
  /\ UNCHANGED <<res, ledger>>

QuotaNext ==
  \E k \in Kinds :
    \/ \E o \in Ops : Release(o, k) \/ \E u \in Units : Reserve(o, k, u) \/ Settle(o, k, u)
    \/ \E l \in Limits : SetLimit(k, l)

QuotaSpec == QuotaInit /\ [][QuotaNext]_quotaVars
-----------------------------------------------------------------------------
\* The sum of the amounts of all operations, counted unit by unit.
Total(amount) == Cardinality(UNION {{o} \X (1 .. amount[o]) : o \in Ops})

Held(k) == [o \in Ops |-> IF Outstanding(o, k) THEN res[o][k].units ELSE 0]
Charged(k) == [o \in Ops |-> IF ledger[o][k] # NoEntry THEN ledger[o][k] ELSE 0]

\* The sums on a quota row are what the reservations and the ledger say,
\* however operations are retried, settled late or released twice: no unit is
\* counted twice and none is lost.
Balanced ==
  \A k \in Kinds :
    /\ quota[k].reserved = Total(Held(k))
    /\ quota[k].consumed = Total(Charged(k))

\* An operation is charged exactly if it was settled.
ChargedIfSettled ==
  \A o \in Ops, k \in Kinds : ledger[o][k] # NoEntry <=> res[o][k].state = "settled"

Overdrawn(k) ==
  quota[k].limit >= 0 /\ quota[k].reserved + quota[k].consumed > quota[k].limit

\* Reservations never overdraw a quota.  It is overdrawn only by an operation
\* that settles more than it reserved, or when the limit is lowered.
OverdrawnBySettle ==
  [][\A k \in Kinds : ~Overdrawn(k) /\ Overdrawn(k)' =>
       \/ quota'[k].limit # quota[k].limit
       \/ \E o \in Ops : ledger'[o][k] # ledger[o][k] /\ ledger'[o][k] > res[o][k].units]_quotaVars

\* What has been settled or released stays so: neither a replayed request nor a
\* late worker can charge an operation again.
Closed ==
  [][\A o \in Ops, k \in Kinds :
       res[o][k].state \in {"settled", "released"} => res'[o][k] = res[o][k]]_quotaVars
=============================================================================
