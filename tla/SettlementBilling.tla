------------------------- MODULE SettlementBilling -------------------------
(* How confirmed receipts become settlements: the monthly close of the      *)
(* worker, the settlement of a single delivery, the drafts finance makes by *)
(* hand, and the payment, review and approval of a settlement.              *)
(*                                                                          *)
(* Time passes in half days: an early half, 00-09 o'clock in Seoul, when    *)
(* the UTC date is still the day before, and a late half.                   *)
(*                                                                          *)
(* An operation that holds the payment lock from its reads to its commit is *)
(* one action. What follows approval is in InvoiceIssue. The persons, amounts *)
(* and originals, orders of the old system, stores that are not active and   *)
(* dead letters queued again are left out.                                   *)
EXTENDS Integers, FiniteSets

CONSTANTS
  Stores,        \* the active stores
  Monthly,       \* those with billingCycle monthly, the others per_delivery
  OnCredit,      \* those with paymentMethod monthly_credit, the others prepaid
  Receipts,      \* the receipts deliveries will bring
  StoreOf,       \* [Receipts -> Stores]
  Handlers,      \* concurrent runs of the close
  None,          \* no store
  DaysPerMonth,
  MaxTime,       \* bound: the last half day
  MaxAttempts,   \* claims the outbox makes of one event
  MaxManual,     \* bound: drafts made by hand
  MaxFaults      \* bound: failures and crashes of handlers

ASSUME StoresAssumption ==
  /\ Monthly \subseteq Stores
  /\ OnCredit \subseteq Stores
  /\ StoreOf \in [Receipts -> Stores]
  /\ None \notin Stores
ASSUME BoundsAssumption ==
  /\ DaysPerMonth \in Nat \ {0}
  /\ MaxTime \in Nat /\ MaxTime >= 2 * DaysPerMonth /\ MaxAttempts \in Nat /\ MaxManual \in Nat /\ MaxFaults \in Nat

VARIABLES now, receipt, settlement, request, event, due, step, faults

vars == <<now, receipt, settlement, request, event, due, step, faults>>

(* Days and months count from 1; day d of Seoul is the half days 2d, 2d + 1. *)
StartTime == 2 * DaysPerMonth

KstDay(t) == t \div 2

UtcDay(t) == (t - 1) \div 2

MonthOf(day) == day \div DaysPerMonth

Days == DaysPerMonth .. KstDay(MaxTime)

Months == 1 .. MonthOf(KstDay(MaxTime))

FirstDay(m) == m * DaysPerMonth

LastDay(m) == (m + 1) * DaysPerMonth - 1

DaysOf(m) == FirstDay(m) .. LastDay(m)

(* Identifiers: those of the worker are computed from what they are for.    *)
DeliveryId(r) == <<"delivery", r>>
MonthId(s, m) == <<"month", s, m>>
ManualId(n) == <<"manual", n>>

Ids == {DeliveryId(r) : r \in Receipts} \cup {MonthId(s, m) : s \in Monthly, m \in Months}
         \cup {ManualId(n) : n \in 1 .. MaxManual}

Closes == {<<"close", m>> : m \in Months}
Deliveries == {<<"delivered", r>> : r \in Receipts}
Events == Closes \cup Deliveries

ReceiptRow == [confirmed : BOOLEAN, at : Nat]

SettlementRow ==
  [status : {"none", "draft", "reviewed", "approved"}, store : Stores \cup {None},
   kind : {"none", "monthly", "per_delivery"}, from : Int, to : Int,
   receipts : SUBSET Receipts]

NoSettlement ==
  [status |-> "none", store |-> None, kind |-> "none", from |-> 0, to |-> 0,
   receipts |-> {}]

Draft(s, first, last, receipts) ==
  [status |-> "draft", store |-> s, kind |-> IF s \in Monthly THEN "monthly" ELSE "per_delivery",
   from |-> first, to |-> last, receipts |-> receipts]

EventRow == [status : {"none", "waiting", "done"}, left : 0 .. MaxAttempts]

(* A run of the close: its month, the stores its loop still has to visit,   *)
(* and the settlement it is about to create.                                *)
Step ==
  [at : {"idle", "loop", "create"}, month : Nat, todo : SUBSET Stores, row : SettlementRow]

Idle == [at |-> "idle", month |-> 0, todo |-> {}, row |-> NoSettlement]

TypeOK ==
  /\ now \in StartTime .. MaxTime
  /\ receipt \in [Receipts -> ReceiptRow]
  /\ settlement \in [Ids -> SettlementRow]
  /\ request \in [Ids -> {"none", "pending", "paid"}]
  /\ event \in [Events -> EventRow]
  /\ due \in [Months -> SUBSET Receipts]
  /\ step \in [Handlers -> Step]
  /\ faults \in 0 .. MaxFaults

Init ==
  /\ now = StartTime
  /\ receipt = [r \in Receipts |-> [confirmed |-> FALSE, at |-> 0]]
  /\ settlement = [i \in Ids |-> NoSettlement]
  /\ request = [i \in Ids |-> "none"]
  /\ event = [e \in Events |-> [status |-> "none", left |-> 0]]
  /\ due = [m \in Months |-> {}]
  /\ step = [h \in Handlers |-> Idle]
  /\ faults = 0
-----------------------------------------------------------------------------
(* Rows and claims.                                                         *)

Confirmed(s) == {r \in Receipts : receipt[r].confirmed /\ StoreOf[r] = s}

Used == UNION {settlement[i].receipts : i \in Ids}

Billed(r) == r \in Used

(* Slip: settlements claim their period only. *)
NoReceiptClaims(row) == {}

ReceiptClaims(row) == {<<"receipt", r>> : r \in row.receipts}

PeriodClaims(row) ==
  IF row.kind = "monthly" THEN {<<"period", row.store, row.from, row.to>>} ELSE {}

Claims(row) == ReceiptClaims(row) \cup PeriodClaims(row)

(* BUSINESS_KEY_CONFLICT: a claim of the new row is taken.                  *)
Conflict(row) ==
  \E i \in Ids : settlement[i].status # "none" /\ Claims(settlement[i]) \cap Claims(row) # {}

Create(i, row) ==
  /\ settlement' = [settlement EXCEPT ![i] = row]
  /\ request' = [request EXCEPT ![i] = IF row.store \in OnCredit THEN "pending" ELSE @]
-----------------------------------------------------------------------------
(* Time, deliveries and finance.                                            *)

Tick ==
  /\ now < MaxTime
  /\ now' = now + 1
  /\ UNCHANGED <<receipt, settlement, request, event, due, step, faults>>

(* completeDelivery takes the time of the receipt just before its commit,   *)
(* which may fall into the next half day. The event matters here only for   *)
(* stores that are billed per delivery.                                     *)
ConfirmReceipt(r) ==
  \E t \in {now, now - 1} \ {StartTime - 1} :
    /\ ~receipt[r].confirmed
    /\ receipt' = [receipt EXCEPT ![r] = [confirmed |-> TRUE, at |-> t]]
    /\ event' = IF StoreOf[r] \in Monthly THEN event
                ELSE [event EXCEPT ![<<"delivered", r>>] =
                        [status |-> "waiting", left |-> MaxAttempts]]
    /\ UNCHANGED <<now, settlement, request, due, step, faults>>

(* Receipts finance may put on a settlement: by the business day of Seoul.  *)
Eligible(s, first, last) ==
  {r \in Confirmed(s) : KstDay(receipt[r].at) \in first .. last /\ ~Billed(r)}

DraftSettlement(n, s, first, last) ==
  \E chosen \in SUBSET Eligible(s, first, last) \ {{}} :
    /\ settlement[ManualId(n)].status = "none"
    /\ n > 1 => settlement[ManualId(n - 1)].status # "none"
    /\ first <= last
    /\ s \notin Monthly => Cardinality(chosen) = 1
    /\ ~Conflict(Draft(s, first, last, chosen))
    /\ Create(ManualId(n), Draft(s, first, last, chosen))
    /\ UNCHANGED <<now, receipt, event, due, step, faults>>

PaymentGate(i) == settlement[i].store \in OnCredit => request[i] = "paid"

ReviewSettlement(i) ==
  /\ settlement[i].status = "draft"
  /\ PaymentGate(i)
  /\ settlement' = [settlement EXCEPT ![i].status = "reviewed"]
  /\ UNCHANGED <<now, receipt, request, event, due, step, faults>>

(* Not under the lock, but nothing else changes a reviewed settlement or    *)
(* its payment, and the version check lets one approval commit.             *)
ApproveSettlement(i) ==
  /\ settlement[i].status = "reviewed"
  /\ PaymentGate(i)
  /\ settlement' = [settlement EXCEPT ![i].status = "approved"]
  /\ UNCHANGED <<now, receipt, request, event, due, step, faults>>

(* A credit of the amount is matched, by the system or by hand; "pending" is *)
(* any request that may be matched, one under manual review included.        *)
MatchPayment(i) ==
  /\ request[i] = "pending"
  /\ request' = [request EXCEPT ![i] = "paid"]
  /\ UNCHANGED <<now, receipt, settlement, event, due, step, faults>>

(* Slip: blocked only once the settlement is approved. *)
NotApproved(i) == settlement[i].status # "approved"

(* PAYMENT_REVERSAL_BLOCKED once the review of the settlement has begun.    *)
Reversible(i) == settlement[i].status \notin {"reviewed", "approved"}

ReversePaymentMatch(i) ==
  /\ request[i] = "paid"
  /\ Reversible(i)
  /\ request' = [request EXCEPT ![i] = "pending"]
  /\ UNCHANGED <<now, receipt, settlement, event, due, step, faults>>
-----------------------------------------------------------------------------
(* The worker.                                                              *)

(* The close of the month that is over in Seoul is requested once. History: *)
(* due remembers the receipts that were there.                              *)
RunScheduled(m) ==
  /\ MonthOf(KstDay(now)) = m + 1
  /\ event[<<"close", m>>].status = "none"
  /\ event' = [event EXCEPT ![<<"close", m>>] =
                 [status |-> "waiting", left |-> MaxAttempts]]
  /\ due' = [due EXCEPT ![m] = {r \in Receipts : receipt[r].confirmed}]
  /\ UNCHANGED <<now, receipt, settlement, request, step, faults>>

Claimable(e) == event[e].status = "waiting" /\ event[e].left > 0

(* A claim, of an event that waits or whose lease ran out.                  *)
StartClose(h, m) ==
  /\ step[h].at = "idle"
  /\ Claimable(<<"close", m>>)
  /\ event' = [event EXCEPT ![<<"close", m>>].left = event[<<"close", m>>].left - 1]
  /\ step' = [step EXCEPT ![h] =
                [at |-> "loop", month |-> m, todo |-> Monthly, row |-> NoSettlement]]
  /\ UNCHANGED <<now, receipt, settlement, request, due, faults>>

(* Receipts of the month by their UTC date, not on a settlement yet.        *)
Candidates(s, m) ==
  {r \in Confirmed(s) : UtcDay(receipt[r].at) \in DaysOf(m) /\ ~Billed(r)}

ReadStore(h, s) ==
  /\ step[h].at = "loop"
  /\ s \in step[h].todo
  /\ step' = [step EXCEPT ![h] =
       LET m == step[h].month IN
       IF Candidates(s, m) = {}
         THEN [at |-> "loop", month |-> m, todo |-> step[h].todo \ {s},
               row |-> NoSettlement]
         ELSE [at |-> "create", month |-> m, todo |-> step[h].todo \ {s},
               row |-> Draft(s, FirstDay(m), LastDay(m), Candidates(s, m))]]
  /\ UNCHANGED <<now, receipt, settlement, request, event, due, faults>>

Continue(h) ==
  step' = [step EXCEPT ![h] =
             [at |-> "loop", month |-> step[h].month, todo |-> step[h].todo,
              row |-> NoSettlement]]

CloseId(h) == MonthId(step[h].row.store, step[h].month)

CreateSettlement(h) ==
  /\ step[h].at = "create"
  /\ ~Conflict(step[h].row)
  /\ Create(CloseId(h), step[h].row)
  /\ Continue(h)
  /\ UNCHANGED <<now, receipt, event, due, faults>>

(* Slip: any settlement of the period is taken for the one to be created. *)
SamePeriod(i, row) ==
  \E j \in Ids :
    /\ settlement[j].status # "none" /\ settlement[j].store = row.store
    /\ settlement[j].from = row.from /\ settlement[j].to = row.to

(* A settlement that is taken for the one to be created.                    *)
Existing(i, row) ==
  \E j \in Ids :
    /\ settlement[j].status # "none" /\ settlement[j].store = row.store
    /\ \/ j = i
       \/ /\ settlement[j].from = row.from /\ settlement[j].to = row.to
          /\ settlement[j].receipts = row.receipts

(* After a conflict the existing settlement is looked for. On credit that   *)
(* query runs in the transaction that PostgreSQL aborted with the conflict, *)
(* and fails too.                                                           *)
Resolved(i, row) == row.store \notin OnCredit /\ Existing(i, row)

AcceptExisting(h) ==
  /\ step[h].at = "create"
  /\ Conflict(step[h].row)
  /\ Resolved(CloseId(h), step[h].row)
  /\ Continue(h)
  /\ UNCHANGED <<now, receipt, settlement, request, event, due, faults>>

(* The handler throws; its other stores are left for another attempt.       *)
RejectConflict(h) ==
  /\ step[h].at = "create"
  /\ Conflict(step[h].row)
  /\ ~Resolved(CloseId(h), step[h].row)
  /\ step' = [step EXCEPT ![h] = Idle]
  /\ UNCHANGED <<now, receipt, settlement, request, event, due, faults>>

(* The handler returns. (A run that was taken over cannot complete the      *)
(* event, see Outbox; nothing here depends on that.)                        *)
Finish(h) ==
  /\ step[h].at = "loop" /\ step[h].todo = {}
  /\ event' = [event EXCEPT ![<<"close", step[h].month>>].status = "done"]
  /\ step' = [step EXCEPT ![h] = Idle]
  /\ UNCHANGED <<now, receipt, settlement, request, due, faults>>

(* A commit or the storage of an original fails, or the worker dies.        *)
Fail(h) ==
  /\ step[h].at # "idle"
  /\ faults < MaxFaults
  /\ faults' = faults + 1
  /\ step' = [step EXCEPT ![h] = Idle]
  /\ UNCHANGED <<now, receipt, settlement, request, event, due>>

DeliveryDraft(r) ==
  Draft(StoreOf[r], UtcDay(receipt[r].at), UtcDay(receipt[r].at), {r})

(* The settlement of a single delivery depends on nothing but the receipt,  *)
(* so a run of its handler is one step: it creates the settlement or finds  *)
(* it, and then completes the event or fails to.                            *)
BillDelivery(r) ==
  LET e == <<"delivered", r>> IN
  /\ Claimable(e)
  /\ IF Conflict(DeliveryDraft(r))
       THEN UNCHANGED <<settlement, request>>
       ELSE Create(DeliveryId(r), DeliveryDraft(r))
  /\ Conflict(DeliveryDraft(r)) => Resolved(DeliveryId(r), DeliveryDraft(r))
  /\ \/ /\ event' = [event EXCEPT ![e] = [status |-> "done", left |-> event[e].left - 1]]
        /\ UNCHANGED faults
     \/ /\ faults < MaxFaults
        /\ faults' = faults + 1
        /\ event' = [event EXCEPT ![e].left = event[e].left - 1]
  /\ UNCHANGED <<now, receipt, due, step>>

(* The handler of a delivery throws: on a conflict, or before its commit.   *)
RejectDelivery(r) ==
  LET e == <<"delivered", r>> IN
  /\ Claimable(e)
  /\ event' = [event EXCEPT ![e].left = event[e].left - 1]
  /\ IF Conflict(DeliveryDraft(r)) /\ ~Resolved(DeliveryId(r), DeliveryDraft(r))
       THEN UNCHANGED faults
       ELSE faults < MaxFaults /\ faults' = faults + 1
  /\ UNCHANGED <<now, receipt, settlement, request, due, step>>
-----------------------------------------------------------------------------
Finance ==
  \/ \E n \in 1 .. MaxManual : \E s \in Stores : \E first, last \in Days :
       DraftSettlement(n, s, first, last)
  \/ \E i \in Ids : \/ ReviewSettlement(i) \/ ApproveSettlement(i)
                    \/ MatchPayment(i) \/ ReversePaymentMatch(i)

Work(h) ==
  \/ \E m \in Months : StartClose(h, m)
  \/ \E s \in Monthly : ReadStore(h, s)
  \/ CreateSettlement(h) \/ AcceptExisting(h) \/ RejectConflict(h) \/ Finish(h)

Next ==
  \/ Tick
  \/ \E r \in Receipts : ConfirmReceipt(r) \/ BillDelivery(r) \/ RejectDelivery(r)
  \/ Finance
  \/ \E m \in Months : RunScheduled(m)
  \/ \E h \in Handlers : Work(h) \/ Fail(h)

Spec == Init /\ [][Next]_vars
-----------------------------------------------------------------------------
(* No delivery is billed twice, whoever drafts settlements at the same time. *)
BilledOnce ==
  \A i, j \in Ids : i # j => settlement[i].receipts \cap settlement[j].receipts = {}

(* What a store on credit is billed has been paid when it is reviewed, and   *)
(* the payment is not taken back afterwards.                                 *)
ReviewedIsPaid ==
  \A i \in Ids :
    settlement[i].status \in {"reviewed", "approved"} /\ settlement[i].store \in OnCredit
      => request[i] = "paid"

Closed(m) == event[<<"close", m>>].status = "done"

DueIn(m) == {r \in due[m] : StoreOf[r] \in Monthly}

(* An event the worker completed has done its work: a close has billed the   *)
(* receipts of its month that were there when it was requested, and a        *)
(* delivery that is billed on its own is billed. Conflicts with drafts made  *)
(* by hand and with other runs of the handler are never taken for success.   *)
DoneMeansBilled ==
  /\ \A m \in Months : Closed(m) =>
       \A r \in DueIn(m) : UtcDay(receipt[r].at) \in DaysOf(m) => Billed(r)
  /\ \A r \in Receipts : event[<<"delivered", r>>].status = "done" => Billed(r)

(* The same by business days: the close of a month bills the receipts whose  *)
(* business day in Seoul is in that month.                                   *)
BusinessMonthIsBilled ==
  \A m \in Months : Closed(m) =>
    \A r \in DueIn(m) : KstDay(receipt[r].at) \in DaysOf(m) => Billed(r)
=============================================================================
