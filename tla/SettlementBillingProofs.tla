---------------------- MODULE SettlementBillingProofs ----------------------
(* Theorems about SettlementBilling for all stores, receipts and bounds.     *)
EXTENDS SettlementBilling, TLAPS

USE StoresAssumption, BoundsAssumption

-----------------------------------------------------------------------------
(* Type correctness.                                                         *)

LEMMA BlankType == NoSettlement \in SettlementRow /\ Idle \in Step
<1>1. NoSettlement \in SettlementRow
  BY DEF NoSettlement, SettlementRow
<1>. QED  BY <1>1 DEF Idle, Step

LEMMA DraftType ==
    ASSUME NEW s \in Stores, NEW first \in Int, NEW last \in Int, NEW R \in SUBSET Receipts
    PROVE  /\ Draft(s, first, last, R) \in SettlementRow
           /\ Draft(s, first, last, R).status = "draft"
           /\ Draft(s, first, last, R).store = s
           /\ Draft(s, first, last, R).receipts = R
           /\ Draft(s, first, last, R).from = first
           /\ Draft(s, first, last, R).to = last
           /\ s \in Monthly => Draft(s, first, last, R).kind = "monthly"
  BY DEF Draft, SettlementRow

LEMMA DayTypes ==
    /\ \A t \in Nat : KstDay(t) \in Int /\ UtcDay(t) \in Int
    /\ \A m \in Nat : FirstDay(m) \in Int /\ LastDay(m) \in Int
<1>1. \A t \in Nat : KstDay(t) \in Int /\ UtcDay(t) \in Int
  BY DEF KstDay, UtcDay
<1>2. ASSUME NEW m \in Nat PROVE FirstDay(m) \in Int /\ LastDay(m) \in Int
  BY DEF FirstDay, LastDay
<1>. QED  BY <1>1, <1>2

LEMMA MonthsAreNat == Months \subseteq Nat /\ Days \subseteq Int
<1>1. \A a, b : a \in Int /\ b \in Int => a .. b \subseteq Int
  OBVIOUS
<1>2. MonthOf(KstDay(MaxTime)) \in Int /\ DaysPerMonth \in Int /\ KstDay(MaxTime) \in Int
  BY DayTypes DEF MonthOf, KstDay
<1>3. Months \subseteq Nat
  BY <1>2 DEF Months
<1>. QED  BY <1>1, <1>2, <1>3 DEF Days

LEMMA EventTypes ==
    /\ \A m \in Months : <<"close", m>> \in Events
    /\ \A r \in Receipts : <<"delivered", r>> \in Events
  BY DEF Events, Closes, Deliveries

(* What a run of the close has in hand: the settlement of its month for one  *)
(* of the stores it visits.                                                  *)
StepOK(h) ==
  \/ step[h].at = "idle"
  \/ /\ step[h].month \in Months
     /\ step[h].todo \subseteq Monthly
     /\ event[<<"close", step[h].month>>].status # "none"
     /\ step[h].at = "create" =>
          /\ step[h].row.status = "draft"
          /\ step[h].row.kind = "monthly"
          /\ step[h].row.store \in Monthly
          /\ step[h].row.from = FirstDay(step[h].month)
          /\ step[h].row.to = LastDay(step[h].month)

TypeInv == TypeOK /\ \A h \in Handlers : StepOK(h)

LEMMA TypeInit == Init => TypeInv
<1>. SUFFICES ASSUME Init PROVE TypeInv
  OBVIOUS
<1>1. StartTime \in Nat /\ StartTime <= MaxTime /\ StartTime \in StartTime .. MaxTime
  BY DEF StartTime
<1>2. TypeOK
  BY <1>1, BlankType DEF Init, TypeOK, ReceiptRow, EventRow
<1>3. \A h \in Handlers : StepOK(h)
  BY DEF Init, StepOK, Idle
<1>. QED  BY <1>2, <1>3 DEF TypeInv

LEMMA CreateType ==
    ASSUME TypeOK, NEW i \in Ids, NEW row \in SettlementRow, Create(i, row)
    PROVE  /\ settlement' \in [Ids -> SettlementRow]
           /\ request' \in [Ids -> {"none", "pending", "paid"}]
  BY DEF TypeOK, Create

LEMMA CandidatesType ==
    \A s, m : Candidates(s, m) \in SUBSET Receipts
  BY DEF Candidates, Confirmed

LEMMA IdTypes ==
    /\ \A s \in Monthly : \A m \in Months : MonthId(s, m) \in Ids
    /\ \A r \in Receipts : DeliveryId(r) \in Ids
    /\ \A n \in 1 .. MaxManual : ManualId(n) \in Ids
<1>1. \A s \in Monthly, m \in Months : MonthId(s, m) \in Ids
  BY DEF Ids
<1>2. \A r \in Receipts : DeliveryId(r) \in Ids
  BY DEF Ids
<1>3. \A n \in 1 .. MaxManual : ManualId(n) \in Ids
  BY DEF Ids
<1>. QED  BY <1>1, <1>2, <1>3

LEMMA CloseIdType ==
    ASSUME TypeInv, NEW h \in Handlers, step[h].at = "create"
    PROVE  /\ CloseId(h) \in Ids /\ CloseId(h) = MonthId(step[h].row.store, step[h].month)
           /\ step[h].row \in SettlementRow /\ step[h].row.status = "draft"
           /\ step[h].row.store \in Monthly /\ step[h].row.kind = "monthly"
           /\ step[h].month \in Months
           /\ step[h].row.from = FirstDay(step[h].month)
           /\ step[h].row.to = LastDay(step[h].month)
<1>1. step[h] \in Step /\ StepOK(h) /\ step[h].at # "idle"
  BY DEF TypeInv, TypeOK
<1>2. step[h].row \in SettlementRow
  BY <1>1 DEF Step
<1>3. step[h].row.store \in Monthly /\ step[h].month \in Months /\ step[h].row.status = "draft"
      /\ step[h].row.kind = "monthly"
      /\ step[h].row.from = FirstDay(step[h].month)
      /\ step[h].row.to = LastDay(step[h].month)
  BY <1>1 DEF StepOK
<1>. QED  BY <1>2, <1>3, IdTypes DEF CloseId

LEMMA DeliveryDraftType ==
    ASSUME TypeOK, NEW r \in Receipts
    PROVE  /\ DeliveryDraft(r) \in SettlementRow
           /\ DeliveryDraft(r).status = "draft"
           /\ DeliveryDraft(r).receipts = {r}
           /\ DeliveryId(r) \in Ids
<1>1. receipt[r].at \in Nat /\ StoreOf[r] \in Stores /\ {r} \in SUBSET Receipts
  BY DEF TypeOK, ReceiptRow
<1>2. UtcDay(receipt[r].at) \in Int
  BY <1>1, DayTypes
<1>3. DeliveryId(r) \in Ids
  BY IdTypes
<1>. QED  BY <1>1, <1>2, <1>3, DraftType DEF DeliveryDraft

LEMMA ManualDraftType ==
    ASSUME TypeOK, NEW s \in Stores, NEW first \in Days, NEW last \in Days,
           NEW chosen \in SUBSET Eligible(s, first, last)
    PROVE  /\ Draft(s, first, last, chosen) \in SettlementRow
           /\ Draft(s, first, last, chosen).status = "draft"
<1>1. chosen \in SUBSET Receipts /\ first \in Int /\ last \in Int
  BY MonthsAreNat DEF Eligible, Confirmed
<1>. QED  BY <1>1, DraftType

(* How an event changes.                                                     *)
LEMMA ClaimType ==
    ASSUME TypeOK, NEW e \in Events, Claimable(e)
    PROVE  /\ event[e].left - 1 \in 0 .. MaxAttempts
           /\ [event EXCEPT ![e].left = event[e].left - 1] \in [Events -> EventRow]
           /\ [event EXCEPT ![e] = [status |-> "done", left |-> event[e].left - 1]]
                \in [Events -> EventRow]
<1>1. event[e] \in EventRow /\ event[e].left > 0
  BY DEF TypeOK, Claimable
<1>2. event[e].left - 1 \in 0 .. MaxAttempts
  BY <1>1 DEF EventRow
<1>. QED  BY <1>1, <1>2 DEF TypeOK, EventRow

LEMMA FreshEventType ==
    /\ [status |-> "waiting", left |-> MaxAttempts] \in EventRow
    /\ \A v \in EventRow : [v EXCEPT !.status = "done"] \in EventRow
<1>1. MaxAttempts \in 0 .. MaxAttempts
  OBVIOUS
<1>. QED  BY <1>1 DEF EventRow

(* Events that were requested stay requested.                                *)
Requested(e) == event[e].status # "none"

LEMMA StepOKStable ==
    ASSUME TypeInv, NEW h \in Handlers, step'[h] = step[h],
           \A m \in Months : Requested(<<"close", m>>) => Requested(<<"close", m>>)'
    PROVE  StepOK(h)'
<1>1. StepOK(h)
  BY DEF TypeInv
<1>2. CASE step[h].at = "idle"
  BY <1>2 DEF StepOK
<1>3. CASE step[h].at # "idle"
  BY <1>1, <1>3 DEF StepOK, Requested
<1>. QED  BY <1>2, <1>3

LEMMA TypeNext == TypeInv /\ [Next]_vars => TypeInv'
<1>. SUFFICES ASSUME TypeInv, [Next]_vars PROVE TypeInv'
  OBVIOUS
<1>t. TypeOK
  BY DEF TypeInv
<1>i. ASSUME UNCHANGED step,
             \A m \in Months : Requested(<<"close", m>>) => Requested(<<"close", m>>)'
      PROVE  \A h \in Handlers : StepOK(h)'
  BY <1>i, StepOKStable
<1>0. CASE UNCHANGED vars
  <2>1. TypeOK'
    BY <1>0, <1>t DEF vars, TypeOK
  <2>. QED  BY <2>1, <1>0, <1>i DEF vars, Requested, TypeInv
<1>1. CASE Tick
  <2>1. TypeOK'
    BY <1>1, <1>t DEF Tick, TypeOK, StartTime
  <2>. QED  BY <2>1, <1>1, <1>i DEF Tick, Requested, TypeInv
<1>2. ASSUME NEW r \in Receipts, ConfirmReceipt(r) PROVE TypeInv'
  <2>1. now \in Nat /\ now >= StartTime /\ StartTime \in Nat
    BY <1>t DEF TypeOK, StartTime
  <2>2. PICK t \in {now, now - 1} \ {StartTime - 1} :
          /\ receipt' = [receipt EXCEPT ![r] = [confirmed |-> TRUE, at |-> t]]
          /\ event' = IF StoreOf[r] \in Monthly THEN event
                      ELSE [event EXCEPT ![<<"delivered", r>>] =
                              [status |-> "waiting", left |-> MaxAttempts]]
          /\ UNCHANGED <<now, settlement, request, due, step, faults>>
    BY <1>2 DEF ConfirmReceipt
  <2>3. t \in Nat
    BY <2>1, <2>2
  <2>4. receipt' \in [Receipts -> ReceiptRow]
    BY <2>2, <2>3, <1>t DEF TypeOK, ReceiptRow
  <2>5. event' \in [Events -> EventRow]
    BY <2>2, <1>t, FreshEventType DEF TypeOK
  <2>6. \A m \in Months : event'[<<"close", m>>] = event[<<"close", m>>]
    BY <2>2, <1>t, EventTypes DEF TypeOK
  <2>7. TypeOK'
    BY <2>2, <2>4, <2>5, <1>t DEF TypeOK
  <2>. QED  BY <2>2, <2>6, <2>7, <1>i DEF Requested, TypeInv
<1>3. ASSUME NEW r \in Receipts, BillDelivery(r) \/ RejectDelivery(r) PROVE TypeInv'
  <2>. DEFINE e == <<"delivered", r>>
  <2>1. e \in Events /\ Claimable(e)
    BY <1>3, EventTypes DEF BillDelivery, RejectDelivery
  <2>2. /\ settlement' \in [Ids -> SettlementRow]
        /\ request' \in [Ids -> {"none", "pending", "paid"}]
    BY <1>3, <1>t, DeliveryDraftType, CreateType DEF BillDelivery, RejectDelivery, TypeOK
  <2>3. /\ event' \in [Events -> EventRow]
        /\ \A f \in Events : f # e => event'[f] = event[f]
    BY <1>3, <2>1, <1>t, ClaimType DEF BillDelivery, RejectDelivery, TypeOK
  <2>4. faults' \in 0 .. MaxFaults
    BY <1>3, <1>t DEF BillDelivery, RejectDelivery, TypeOK
  <2>5. UNCHANGED <<now, receipt, due, step>>
    BY <1>3 DEF BillDelivery, RejectDelivery
  <2>6. \A m \in Months : event'[<<"close", m>>] = event[<<"close", m>>]
    BY <2>3, EventTypes
  <2>7. TypeOK'
    BY <2>2, <2>3, <2>4, <2>5, <1>t DEF TypeOK
  <2>. QED  BY <2>5, <2>6, <2>7, <1>i DEF Requested, TypeInv
<1>4. ASSUME NEW n \in 1 .. MaxManual, NEW s \in Stores, NEW first \in Days, NEW last \in Days,
             DraftSettlement(n, s, first, last)
      PROVE  TypeInv'
  <2>1. PICK chosen \in SUBSET Eligible(s, first, last) :
          /\ Create(ManualId(n), Draft(s, first, last, chosen))
          /\ UNCHANGED <<now, receipt, event, due, step, faults>>
    BY <1>4 DEF DraftSettlement
  <2>2. TypeOK'
    BY <2>1, <1>t, ManualDraftType, CreateType, IdTypes DEF TypeOK
  <2>. QED  BY <2>1, <2>2, <1>i DEF Requested, TypeInv
<1>5. ASSUME NEW i \in Ids, ReviewSettlement(i) \/ ApproveSettlement(i)
                            \/ MatchPayment(i) \/ ReversePaymentMatch(i)
      PROVE  TypeInv'
  <2>1. settlement' \in [Ids -> SettlementRow]
    BY <1>5, <1>t DEF ReviewSettlement, ApproveSettlement, MatchPayment, ReversePaymentMatch,
                      TypeOK, SettlementRow
  <2>2. request' \in [Ids -> {"none", "pending", "paid"}]
    BY <1>5, <1>t DEF ReviewSettlement, ApproveSettlement, MatchPayment, ReversePaymentMatch,
                      TypeOK
  <2>3. UNCHANGED <<now, receipt, event, due, step, faults>>
    BY <1>5 DEF ReviewSettlement, ApproveSettlement, MatchPayment, ReversePaymentMatch
  <2>4. TypeOK'
    BY <2>1, <2>2, <2>3, <1>t DEF TypeOK
  <2>. QED  BY <2>3, <2>4, <1>i DEF Requested, TypeInv
<1>6. ASSUME NEW m \in Months, RunScheduled(m) PROVE TypeInv'
  <2>0. event' \in [Events -> EventRow]
    BY <1>6, <1>t, FreshEventType DEF RunScheduled, TypeOK
  <2>1. TypeOK'
    BY <1>6, <2>0, <1>t DEF RunScheduled, TypeOK
  <2>2. \A k \in Months : Requested(<<"close", k>>) => Requested(<<"close", k>>)'
    BY <1>6, <1>t, EventTypes DEF RunScheduled, TypeOK, Requested
  <2>. QED  BY <1>6, <2>1, <2>2, <1>i DEF RunScheduled, TypeInv
<1>7. ASSUME NEW h \in Handlers, Work(h) \/ Fail(h) PROVE TypeInv'
  <2>. SUFFICES /\ TypeOK'
                /\ StepOK(h)'
                /\ \A g \in Handlers : g # h => step'[g] = step[g]
                /\ \A k \in Months : Requested(<<"close", k>>) => Requested(<<"close", k>>)'
    BY StepOKStable DEF TypeInv
  <2>s. step[h] \in Step /\ StepOK(h) /\ Monthly \in SUBSET Stores
    BY <1>t DEF TypeInv, TypeOK
  <2>0. ASSUME step' = [step EXCEPT ![h] = Idle] PROVE step' \in [Handlers -> Step] /\ StepOK(h)'
    BY <2>0, <1>t, BlankType DEF TypeOK, StepOK, Idle
  <2>1. ASSUME NEW m \in Months, StartClose(h, m)
        PROVE  TypeOK' /\ StepOK(h)' /\ Requested(<<"close", m>>)
    <3>1. event' \in [Events -> EventRow]
      BY <2>1, <1>t, ClaimType, EventTypes DEF StartClose
    <3>2. step' \in [Handlers -> Step]
      BY <2>1, <1>t, BlankType, MonthsAreNat DEF StartClose, TypeOK, Step
    <3>3. TypeOK'
      BY <2>1, <3>1, <3>2, <1>t DEF StartClose, TypeOK
    <3>4. Requested(<<"close", m>>) /\ event'[<<"close", m>>].status = event[<<"close", m>>].status
      BY <2>1, <1>t, EventTypes DEF StartClose, Claimable, TypeOK, EventRow, Requested
    <3>5. StepOK(h)'
      BY <2>1, <3>4, <1>t DEF StartClose, StepOK, TypeOK, Requested
    <3>. QED  BY <3>3, <3>4, <3>5
  <2>2. ASSUME NEW s \in Monthly, ReadStore(h, s) PROVE TypeOK' /\ StepOK(h)'
    <3>. DEFINE m == step[h].month
                left == step[h].todo \ {s}
                row == Draft(s, FirstDay(m), LastDay(m), Candidates(s, m))
    <3>1. /\ m \in Months /\ m \in Nat /\ left \subseteq Monthly /\ left \subseteq Stores
          /\ Requested(<<"close", m>>)
      BY <2>2, <2>s, MonthsAreNat DEF ReadStore, StepOK, Requested
    <3>2. /\ row \in SettlementRow /\ row.status = "draft" /\ row.kind = "monthly"
          /\ row.store = s /\ row.from = FirstDay(m) /\ row.to = LastDay(m)
      BY <3>1, DayTypes, CandidatesType, DraftType
    <3>. HIDE DEF m, left, row
    <3>3. \/ step' = [step EXCEPT ![h] =
                [at |-> "loop", month |-> m, todo |-> left, row |-> NoSettlement]]
          \/ step' = [step EXCEPT ![h] =
                [at |-> "create", month |-> m, todo |-> left, row |-> row]]
      BY <2>2 DEF ReadStore, m, left, row
    <3>4. step' \in [Handlers -> Step]
      BY <3>1, <3>2, <3>3, <1>t, BlankType DEF TypeOK, Step
    <3>5. UNCHANGED <<now, receipt, settlement, request, event, due, faults>>
      BY <2>2 DEF ReadStore
    <3>6. \/ step'[h] = [at |-> "loop", month |-> m, todo |-> left, row |-> NoSettlement]
          \/ step'[h] = [at |-> "create", month |-> m, todo |-> left, row |-> row]
      BY <3>3, <1>t DEF TypeOK
    <3>7. StepOK(h)'
      BY <3>1, <3>2, <3>5, <3>6 DEF StepOK, Requested
    <3>. QED  BY <3>4, <3>5, <3>7, <1>t DEF TypeOK
  <2>3. ASSUME Continue(h), step[h].at # "idle",
               \A k \in Months : Requested(<<"close", k>>) => Requested(<<"close", k>>)'
        PROVE  step' \in [Handlers -> Step] /\ StepOK(h)'
    <3>1. step'[h] = [at |-> "loop", month |-> step[h].month, todo |-> step[h].todo,
                      row |-> NoSettlement]
      BY <2>3, <1>t DEF Continue, TypeOK
    <3>2. StepOK(h)'
      BY <2>3, <2>s, <3>1 DEF StepOK, Requested
    <3>. QED  BY <2>3, <2>s, <3>2, <1>t, BlankType DEF Continue, TypeOK, Step
  <2>4. ASSUME CreateSettlement(h) PROVE TypeOK' /\ StepOK(h)' /\ UNCHANGED event
    <3>1. CloseId(h) \in Ids /\ step[h].row \in SettlementRow
      BY <2>4, CloseIdType DEF CreateSettlement
    <3>2. /\ settlement' \in [Ids -> SettlementRow]
          /\ request' \in [Ids -> {"none", "pending", "paid"}]
      BY <2>4, <3>1, <1>t, CreateType DEF CreateSettlement
    <3>3. UNCHANGED <<now, receipt, event, due, faults>>
      BY <2>4 DEF CreateSettlement
    <3>4. step' \in [Handlers -> Step] /\ StepOK(h)'
      BY <2>3, <2>4, <3>3 DEF CreateSettlement, Requested
    <3>. QED  BY <3>2, <3>3, <3>4, <1>t DEF TypeOK
  <2>5. ASSUME AcceptExisting(h) PROVE TypeOK' /\ StepOK(h)' /\ UNCHANGED event
    <3>1. UNCHANGED <<now, receipt, settlement, request, event, due, faults>>
      BY <2>5 DEF AcceptExisting
    <3>2. step' \in [Handlers -> Step] /\ StepOK(h)'
      BY <2>3, <2>5, <3>1 DEF AcceptExisting, Requested
    <3>. QED  BY <3>1, <3>2, <1>t DEF TypeOK
  <2>6. ASSUME RejectConflict(h) \/ Fail(h) PROVE TypeOK' /\ StepOK(h)' /\ UNCHANGED event
    <3>1. step' \in [Handlers -> Step] /\ StepOK(h)'
      BY <2>0, <2>6 DEF RejectConflict, Fail
    <3>2. UNCHANGED <<now, receipt, settlement, request, event, due>> /\ faults' \in 0 .. MaxFaults
      BY <2>6, <1>t DEF RejectConflict, Fail, TypeOK
    <3>. QED  BY <3>1, <3>2, <1>t DEF TypeOK
  <2>7. ASSUME Finish(h) PROVE TypeOK' /\ StepOK(h)'
    <3>1. step' \in [Handlers -> Step] /\ StepOK(h)'
      BY <2>0, <2>7 DEF Finish
    <3>2. event' \in [Events -> EventRow]
      BY <2>7, <1>t DEF Finish, TypeOK, EventRow
    <3>. QED  BY <2>7, <3>1, <3>2, <1>t DEF Finish, TypeOK
  <2>8. \A g \in Handlers : g # h => step'[g] = step[g]
    BY <1>7, <1>t DEF Work, Fail, StartClose, ReadStore, CreateSettlement, AcceptExisting,
                      RejectConflict, Finish, Continue, TypeOK
  <2>9. \A k \in Months : Requested(<<"close", k>>) => Requested(<<"close", k>>)'
    <3>1. ASSUME NEW m \in Months, StartClose(h, m)
          PROVE  \A k \in Months : Requested(<<"close", k>>) => Requested(<<"close", k>>)'
      <4>1. event \in [Events -> [status : {"none", "waiting", "done"}, left : 0 .. MaxAttempts]]
        BY <1>t DEF TypeOK, EventRow
      <4>2. event' = [event EXCEPT ![<<"close", m>>].left = event[<<"close", m>>].left - 1]
        BY <3>1 DEF StartClose
      <4>3. \A e \in Events : event'[e].status = event[e].status
        BY <4>1, <4>2
      <4>. QED  BY <4>3, EventTypes DEF Requested
    <3>2. CASE Finish(h)
      BY <3>2, <1>t, EventTypes DEF Finish, TypeOK, EventRow, Requested
    <3>3. CASE UNCHANGED event
      BY <3>3 DEF Requested
    <3>. QED  BY <1>7, <2>4, <2>5, <2>6, <3>1, <3>2, <3>3 DEF Work, ReadStore
  <2>. QED  BY <1>7, <2>1, <2>2, <2>4, <2>5, <2>6, <2>7, <2>8, <2>9 DEF Work
<1>. QED  BY <1>0, <1>1, <1>2, <1>3, <1>4, <1>5, <1>6, <1>7 DEF Next, Finance

(* Rows keep their types; a run of the close works on a requested month.     *)
THEOREM TypeCorrect == Spec => []TypeOK
<1>1. TypeInv => TypeOK
  BY DEF TypeInv
<1>. QED  BY <1>1, TypeInit, TypeNext, PTL DEF Spec
-----------------------------------------------------------------------------
(* Settlements: what their rows say, and how they come to be.                *)

Exists(i) == settlement[i].status # "none"

RowsBlank == \A i \in Ids : ~Exists(i) => settlement[i].receipts = {}

(* A row under a computed identifier is what the identifier is computed from. *)
IdFits(i, row) ==
  /\ \A s \in Monthly : \A m \in Months : i = MonthId(s, m) =>
       /\ row.kind = "monthly" /\ row.store = s
       /\ row.from = FirstDay(m) /\ row.to = LastDay(m)
       /\ Requested(<<"close", m>>)
  /\ \A r \in Receipts : i = DeliveryId(r) => r \in row.receipts

RowsInv ==
  /\ RowsBlank
  /\ \A i \in Ids : Exists(i) => IdFits(i, settlement[i])

LEMMA IdsDiffer ==
    /\ \A n : \A s : \A m : ManualId(n) # MonthId(s, m)
    /\ \A n : \A r : ManualId(n) # DeliveryId(r)
    /\ \A r : \A s : \A m : DeliveryId(r) # MonthId(s, m)
    /\ \A r, q : DeliveryId(r) = DeliveryId(q) => r = q
    /\ \A s, t : \A m, k : MonthId(s, m) = MonthId(t, k) => s = t /\ m = k
<1>1. "manual" # "month" /\ "manual" # "delivery" /\ "delivery" # "month"
  OBVIOUS
<1>2. \A n, s, m : ManualId(n)[1] = "manual" /\ MonthId(s, m)[1] = "month"
                     /\ DeliveryId(n)[1] = "delivery" /\ DeliveryId(n)[2] = n
                     /\ MonthId(s, m)[2] = s /\ MonthId(s, m)[3] = m
  BY DEF ManualId, MonthId, DeliveryId
<1>. QED  BY <1>1, <1>2

(* Claims keep the receipts of settlements apart.                            *)
LEMMA ClaimsKeepApart ==
    ASSUME NEW row, ~Conflict(row), NEW j \in Ids, Exists(j)
    PROVE  settlement[j].receipts \cap row.receipts = {}
<1>1. SUFFICES ASSUME NEW r \in settlement[j].receipts, r \in row.receipts PROVE FALSE
  OBVIOUS
<1>2. <<"receipt", r>> \in Claims(settlement[j]) /\ <<"receipt", r>> \in Claims(row)
  BY <1>1 DEF Claims, ReceiptClaims
<1>. QED  BY <1>2 DEF Conflict, Exists

(* What one creates is not there yet.                                        *)
LEMMA MonthIsFree ==
    ASSUME RowsInv, NEW s \in Monthly, NEW m \in Months, NEW row, ~Conflict(row),
           row.kind = "monthly", row.store = s, row.from = FirstDay(m), row.to = LastDay(m)
    PROVE  ~Exists(MonthId(s, m))
<1>. DEFINE i == MonthId(s, m)
            c == <<"period", s, FirstDay(m), LastDay(m)>>
<1>1. SUFFICES ASSUME Exists(i) PROVE FALSE
  OBVIOUS
<1>2. i \in Ids
  BY IdTypes
<1>3. /\ settlement[i].kind = "monthly" /\ settlement[i].store = s
      /\ settlement[i].from = FirstDay(m) /\ settlement[i].to = LastDay(m)
  <2>1. IdFits(i, settlement[i])
    BY <1>1, <1>2 DEF RowsInv
  <2>. QED  BY <2>1 DEF IdFits
<1>4. c \in Claims(settlement[i]) /\ c \in Claims(row)
  BY <1>3 DEF Claims, PeriodClaims
<1>. QED  BY <1>1, <1>2, <1>4 DEF Conflict, Exists

LEMMA DeliveryIsFree ==
    ASSUME RowsInv, NEW r \in Receipts, NEW row, ~Conflict(row), r \in row.receipts
    PROVE  ~Exists(DeliveryId(r))
<1>1. SUFFICES ASSUME Exists(DeliveryId(r)) PROVE FALSE
  OBVIOUS
<1>2. DeliveryId(r) \in Ids
  BY IdTypes
<1>3. r \in settlement[DeliveryId(r)].receipts
  BY <1>1, <1>2 DEF RowsInv, IdFits
<1>. QED  BY <1>1, <1>2, <1>3, ClaimsKeepApart

(* Every way to create a settlement is a creation of this kind.              *)
Created(i, row) ==
  /\ ~Exists(i) /\ ~Conflict(row) /\ IdFits(i, row)
  /\ row.status = "draft"
  /\ Create(i, row)

LEMMA Creations ==
    ASSUME TypeInv, RowsInv, [Next]_vars
    PROVE  \/ UNCHANGED <<settlement, request>>
           \/ \E i \in Ids : \E row \in SettlementRow : Created(i, row)
           \/ \E i \in Ids : \/ ReviewSettlement(i) \/ ApproveSettlement(i)
                             \/ MatchPayment(i) \/ ReversePaymentMatch(i)
<1>t. TypeOK
  BY DEF TypeInv
<1>1. ASSUME NEW r \in Receipts, BillDelivery(r), ~Conflict(DeliveryDraft(r))
      PROVE  Created(DeliveryId(r), DeliveryDraft(r))
  <2>1. /\ DeliveryDraft(r).status = "draft" /\ DeliveryDraft(r).receipts = {r}
    BY <1>t, DeliveryDraftType
  <2>2. ~Exists(DeliveryId(r))
    BY <1>1, <2>1, DeliveryIsFree
  <2>3. IdFits(DeliveryId(r), DeliveryDraft(r))
    BY <2>1, IdsDiffer DEF IdFits
  <2>. QED  BY <1>1, <2>1, <2>2, <2>3 DEF Created, BillDelivery
<1>2. ASSUME NEW n \in 1 .. MaxManual, NEW s \in Stores, NEW first \in Days, NEW last \in Days,
             DraftSettlement(n, s, first, last)
      PROVE  \E i \in Ids : \E row \in SettlementRow : Created(i, row)
  <2>1. PICK chosen \in SUBSET Eligible(s, first, last) :
          /\ settlement[ManualId(n)].status = "none"
          /\ ~Conflict(Draft(s, first, last, chosen))
          /\ Create(ManualId(n), Draft(s, first, last, chosen))
    BY <1>2 DEF DraftSettlement
  <2>2. IdFits(ManualId(n), Draft(s, first, last, chosen))
    BY IdsDiffer DEF IdFits
  <2>3. Created(ManualId(n), Draft(s, first, last, chosen))
    BY <2>1, <2>2, <1>t, ManualDraftType DEF Created, Exists
  <2>. QED  BY <2>3, <1>t, ManualDraftType, IdTypes
<1>3. ASSUME NEW h \in Handlers, CreateSettlement(h)
      PROVE  \E i \in Ids : \E row \in SettlementRow : Created(i, row)
  <2>. DEFINE row == step[h].row
              s == step[h].row.store
              m == step[h].month
  <2>1. /\ CloseId(h) \in Ids /\ CloseId(h) = MonthId(s, m) /\ row \in SettlementRow
        /\ row.status = "draft" /\ s \in Monthly /\ row.kind = "monthly" /\ m \in Months
        /\ row.from = FirstDay(m) /\ row.to = LastDay(m)
    BY <1>3, CloseIdType DEF CreateSettlement
  <2>2. Requested(<<"close", m>>)
    BY <1>3 DEF CreateSettlement, TypeInv, StepOK, Requested
  <2>3. ~Exists(MonthId(s, m))
    BY <1>3, <2>1, MonthIsFree DEF CreateSettlement
  <2>4. IdFits(MonthId(s, m), row)
    BY <2>1, <2>2, IdsDiffer DEF IdFits
  <2>5. Created(CloseId(h), row)
    BY <1>3, <2>1, <2>3, <2>4 DEF CreateSettlement, Created
  <2>. QED  BY <2>1, <2>5
<1>4. ASSUME NEW r \in Receipts, BillDelivery(r)
      PROVE  \/ UNCHANGED <<settlement, request>>
             \/ \E i \in Ids : \E row \in SettlementRow : Created(i, row)
  BY <1>1, <1>4, <1>t, DeliveryDraftType DEF BillDelivery
<1>. QED  BY <1>2, <1>3, <1>4
          DEF Next, Finance, Work, vars, Tick, ConfirmReceipt, RejectDelivery, RunScheduled,
              StartClose, ReadStore, AcceptExisting, RejectConflict, Finish, Fail

LEMMA CreatedRows ==
    ASSUME TypeOK, NEW i \in Ids, NEW row \in SettlementRow, Created(i, row)
    PROVE  /\ settlement'[i] = row
           /\ \A j \in Ids : j # i => settlement'[j] = settlement[j] /\ request'[j] = request[j]
  BY DEF Created, Create, TypeOK

(* A step of finance on a settlement changes its status or its payment.      *)
LEMMA MarkedRows ==
    ASSUME TypeOK, NEW i \in Ids,
           \/ ReviewSettlement(i) \/ ApproveSettlement(i)
           \/ MatchPayment(i) \/ ReversePaymentMatch(i)
    PROVE  /\ \A j \in Ids :
                /\ settlement'[j].receipts = settlement[j].receipts
                /\ settlement'[j].kind = settlement[j].kind
                /\ settlement'[j].store = settlement[j].store
                /\ settlement'[j].from = settlement[j].from
                /\ settlement'[j].to = settlement[j].to
                /\ Exists(j)' <=> Exists(j)
           /\ \A j \in Ids : j # i => settlement'[j] = settlement[j] /\ request'[j] = request[j]
<1>1. CASE ReviewSettlement(i)
  BY <1>1 DEF ReviewSettlement, TypeOK, SettlementRow, Exists
<1>2. CASE ApproveSettlement(i)
  BY <1>2 DEF ApproveSettlement, TypeOK, SettlementRow, Exists
<1>3. CASE MatchPayment(i) \/ ReversePaymentMatch(i)
  BY <1>3 DEF MatchPayment, ReversePaymentMatch, TypeOK, Exists
<1>. QED  BY <1>1, <1>2, <1>3

LEMMA RequestedStable ==
    ASSUME TypeInv, [Next]_vars, NEW m \in Months, Requested(<<"close", m>>)
    PROVE  Requested(<<"close", m>>)'
<1>. DEFINE e == <<"close", m>>
<1>t. /\ event \in [Events -> [status : {"none", "waiting", "done"}, left : 0 .. MaxAttempts]]
      /\ \A h \in Handlers : step[h] \in Step
      /\ e \in Events /\ \A r \in Receipts : <<"delivered", r>> \in Events /\ <<"delivered", r>> # e
  BY EventTypes DEF TypeInv, TypeOK, EventRow
<1>1. ASSUME NEW r \in Receipts, ConfirmReceipt(r) \/ BillDelivery(r) \/ RejectDelivery(r)
      PROVE  event'[e] = event[e]
  BY <1>1, <1>t DEF ConfirmReceipt, BillDelivery, RejectDelivery
<1>2. ASSUME NEW k \in Months, RunScheduled(k) PROVE event'[e] = event[e]
  BY <1>2, <1>t DEF RunScheduled, Requested
<1>3. ASSUME NEW h \in Handlers, NEW k \in Months, StartClose(h, k) PROVE event'[e].status = event[e].status
  <2>1. event' = [event EXCEPT ![<<"close", k>>].left = event[<<"close", k>>].left - 1]
    BY <1>3 DEF StartClose
  <2>. QED  BY ONLY <2>1, <1>t
<1>4. ASSUME NEW h \in Handlers, Finish(h) PROVE event'[e].status = event[e].status \/ event'[e].status = "done"
  <2>1. event' = [event EXCEPT ![<<"close", step[h].month>>].status = "done"]
    BY <1>4 DEF Finish
  <2>. QED  BY ONLY <2>1, <1>t
<1>. QED  BY <1>1, <1>2, <1>3, <1>4
          DEF Next, Finance, Work, vars, Tick, DraftSettlement, ReviewSettlement,
              ApproveSettlement, MatchPayment, ReversePaymentMatch, ReadStore,
              CreateSettlement, AcceptExisting, RejectConflict, Fail, Requested

LEMMA RowsNext == TypeInv /\ RowsInv /\ [Next]_vars => RowsInv'
<1>. SUFFICES ASSUME TypeInv, RowsInv, [Next]_vars PROVE RowsInv'
  OBVIOUS
<1>t. TypeOK
  BY DEF TypeInv
<1>1. \A m \in Months : Requested(<<"close", m>>) => Requested(<<"close", m>>)'
  BY RequestedStable
<1>2. ASSUME NEW i, NEW row, IdFits(i, row) PROVE IdFits(i, row)'
  BY <1>1, <1>2 DEF IdFits
<1>3. CASE UNCHANGED <<settlement, request>>
  <2>1. \A i : Exists(i)' <=> Exists(i)
    BY <1>3 DEF Exists
  <2>2. ASSUME NEW i \in Ids, Exists(i) PROVE IdFits(i, settlement[i])'
    <3>1. IdFits(i, settlement[i])
      BY <2>2 DEF RowsInv
    <3>. QED  BY <3>1, <1>1, <1>3 DEF IdFits
  <2>. QED  BY <2>1, <2>2, <1>3 DEF RowsInv, RowsBlank
<1>4. ASSUME NEW i \in Ids, NEW row \in SettlementRow, Created(i, row) PROVE RowsInv'
  <2>1. /\ settlement'[i] = row /\ row.status = "draft" /\ IdFits(i, row)
        /\ \A j \in Ids : j # i => settlement'[j] = settlement[j]
    BY <1>4, <1>t, CreatedRows DEF Created
  <2>2. ASSUME NEW j \in Ids, Exists(j)' PROVE IdFits(j, settlement[j])'
    <3>1. CASE j = i
      BY <3>1, <2>1, <1>1 DEF IdFits
    <3>2. CASE j # i
      <4>1. IdFits(j, settlement[j]) /\ settlement'[j] = settlement[j]
        BY <3>2, <2>1, <2>2 DEF RowsInv, Exists
      <4>. QED  BY <4>1, <1>1 DEF IdFits
    <3>. QED  BY <3>1, <3>2
  <2>3. RowsBlank'
    BY <2>1 DEF RowsInv, RowsBlank, Exists
  <2>. QED  BY <2>2, <2>3 DEF RowsInv
<1>5. ASSUME NEW i \in Ids, \/ ReviewSettlement(i) \/ ApproveSettlement(i)
                           \/ MatchPayment(i) \/ ReversePaymentMatch(i)
      PROVE  RowsInv'
  <2>1. \A j \in Ids :
          /\ settlement'[j].receipts = settlement[j].receipts
          /\ settlement'[j].kind = settlement[j].kind
          /\ settlement'[j].store = settlement[j].store
          /\ settlement'[j].from = settlement[j].from
          /\ settlement'[j].to = settlement[j].to
          /\ Exists(j)' <=> Exists(j)
    BY <1>5, <1>t, MarkedRows
  <2>2. ASSUME NEW j \in Ids, Exists(j)' PROVE IdFits(j, settlement[j])'
    <3>1. IdFits(j, settlement[j])
      BY <2>1, <2>2 DEF RowsInv
    <3>. QED  BY <3>1, <2>1, <1>1 DEF IdFits
  <2>3. RowsBlank'
    BY <2>1 DEF RowsInv, RowsBlank
  <2>. QED  BY <2>2, <2>3 DEF RowsInv
<1>. QED  BY <1>3, <1>4, <1>5, Creations

LEMMA RowsInit == Init => RowsInv
  BY DEF Init, RowsInv, RowsBlank, Exists, NoSettlement

-----------------------------------------------------------------------------
(* No delivery is billed twice, and what is reviewed is paid.                *)

MoneyInv == BilledOnce /\ ReviewedIsPaid

LEMMA MoneyNext == TypeInv /\ RowsInv /\ MoneyInv /\ [Next]_vars => MoneyInv'
<1>. SUFFICES ASSUME TypeInv, RowsInv, MoneyInv, [Next]_vars PROVE MoneyInv'
  OBVIOUS
<1>t. TypeOK
  BY DEF TypeInv
<1>1. CASE UNCHANGED <<settlement, request>>
  BY <1>1 DEF MoneyInv, BilledOnce, ReviewedIsPaid
<1>2. ASSUME NEW i \in Ids, NEW row \in SettlementRow, Created(i, row) PROVE MoneyInv'
  <2>1. /\ settlement'[i] = row /\ row.status = "draft" /\ ~Conflict(row)
        /\ \A j \in Ids : j # i => settlement'[j] = settlement[j] /\ request'[j] = request[j]
    BY <1>2, <1>t, CreatedRows DEF Created
  <2>2. ASSUME NEW j \in Ids PROVE settlement[j].receipts \cap row.receipts = {}
    BY <2>1, ClaimsKeepApart DEF RowsInv, RowsBlank
  <2>3. BilledOnce'
    BY <2>1, <2>2 DEF MoneyInv, BilledOnce
  <2>4. ReviewedIsPaid'
    BY <2>1 DEF MoneyInv, ReviewedIsPaid
  <2>. QED  BY <2>3, <2>4 DEF MoneyInv
<1>3. ASSUME NEW i \in Ids, \/ ReviewSettlement(i) \/ ApproveSettlement(i)
                           \/ MatchPayment(i) \/ ReversePaymentMatch(i)
      PROVE  MoneyInv'
  <2>1. /\ \A j \in Ids : settlement'[j].receipts = settlement[j].receipts
        /\ \A j \in Ids : settlement'[j].store = settlement[j].store
        /\ \A j \in Ids : j # i => settlement'[j] = settlement[j] /\ request'[j] = request[j]
    BY <1>3, <1>t, MarkedRows
  <2>2. BilledOnce'
    BY <2>1 DEF MoneyInv, BilledOnce
  <2>3. \/ request'[i] = "paid" \/ settlement'[i].status \notin {"reviewed", "approved"}
        \/ settlement'[i].store \notin OnCredit
    <3>1. CASE ReviewSettlement(i) \/ ApproveSettlement(i)
      BY <3>1, <2>1 DEF ReviewSettlement, ApproveSettlement, PaymentGate
    <3>2. CASE MatchPayment(i)
      BY <3>2, <1>t DEF MatchPayment, TypeOK
    <3>3. CASE ReversePaymentMatch(i)
      BY <3>3 DEF ReversePaymentMatch, Reversible
    <3>. QED  BY <1>3, <3>1, <3>2, <3>3
  <2>4. ReviewedIsPaid'
    BY <2>1, <2>3 DEF MoneyInv, ReviewedIsPaid
  <2>. QED  BY <2>2, <2>4 DEF MoneyInv
<1>. QED  BY <1>1, <1>2, <1>3, Creations

LEMMA MoneyInit == Init => MoneyInv
  BY DEF Init, MoneyInv, BilledOnce, ReviewedIsPaid, NoSettlement

(* No receipt is on two settlements, whoever drafts them.                    *)
THEOREM NoDoubleBilling == Spec => []BilledOnce
<1>1. MoneyInv => BilledOnce
  BY DEF MoneyInv
<1>. QED  BY <1>1, TypeInit, TypeNext, RowsInit, RowsNext, MoneyInit, MoneyNext, PTL DEF Spec

(* A reviewed settlement of a store on credit is paid, and stays paid.       *)
THEOREM PaidReviews == Spec => []ReviewedIsPaid
<1>1. MoneyInv => ReviewedIsPaid
  BY DEF MoneyInv
<1>. QED  BY <1>1, TypeInit, TypeNext, RowsInit, RowsNext, MoneyInit, MoneyNext, PTL DEF Spec

-----------------------------------------------------------------------------
(* A settlement stands: under whatever identifier the worker or finance      *)
(* create another one, what is billed to whom for which period is not        *)
(* changed, its review goes on and not back, and once it has begun the       *)
(* payment of a store on credit is not touched.                              *)
Onward ==
  {<<"draft", "draft">>, <<"draft", "reviewed">>, <<"reviewed", "reviewed">>,
   <<"reviewed", "approved">>, <<"approved", "approved">>}

Stands(i) ==
  /\ settlement'[i].store = settlement[i].store /\ settlement'[i].kind = settlement[i].kind
  /\ settlement'[i].from = settlement[i].from /\ settlement'[i].to = settlement[i].to
  /\ settlement'[i].receipts = settlement[i].receipts
  /\ <<settlement[i].status, settlement'[i].status>> \in Onward
  /\ settlement[i].status # "draft" /\ settlement[i].store \in OnCredit
       => request'[i] = request[i]

SettlementsStand == [][\A i \in Ids : Exists(i) => Stands(i)]_vars

LEMMA StatusGoesOn ==
    ASSUME TypeOK, MoneyInv, NEW i \in Ids, Exists(i),
           \/ ReviewSettlement(i) \/ ApproveSettlement(i)
           \/ MatchPayment(i) \/ ReversePaymentMatch(i)
    PROVE  /\ <<settlement[i].status, settlement'[i].status>> \in Onward
           /\ settlement[i].status # "draft" /\ settlement[i].store \in OnCredit
                => request'[i] = request[i]
<1>1. settlement[i].status \in {"draft", "reviewed", "approved"} /\ settlement \in [Ids -> SettlementRow]
  BY DEF TypeOK, SettlementRow, Exists
<1>2. CASE ReviewSettlement(i) \/ ApproveSettlement(i)
  <2>1. /\ UNCHANGED request
        /\ \/ settlement[i].status = "draft" /\ settlement'[i].status = "reviewed"
           \/ settlement[i].status = "reviewed" /\ settlement'[i].status = "approved"
    BY <1>1, <1>2 DEF ReviewSettlement, ApproveSettlement, SettlementRow
  <2>. QED  BY <2>1 DEF Onward
<1>3. CASE MatchPayment(i)
  <2>1. UNCHANGED settlement /\ request[i] = "pending"
    BY <1>3 DEF MatchPayment
  <2>2. settlement[i].status # "draft" => settlement[i].store \notin OnCredit
    BY <1>1, <2>1 DEF MoneyInv, ReviewedIsPaid
  <2>. QED  BY <1>1, <2>1, <2>2 DEF Onward
<1>4. CASE ReversePaymentMatch(i)
  <2>1. UNCHANGED settlement /\ settlement[i].status = "draft"
    BY <1>1, <1>4 DEF ReversePaymentMatch, Reversible
  <2>. QED  BY <2>1 DEF Onward
<1>. QED  BY <1>2, <1>3, <1>4

(* Neither finance nor the worker undoes or rewrites a settlement, on which  *)
(* its tax invoice rests (createSettlement, reviewSettlement,                *)
(* approveSettlement and reversePaymentMatch of service.ts).                 *)
THEOREM Standing == Spec => SettlementsStand
<1>1. TypeInv /\ RowsInv /\ MoneyInv /\ [Next]_vars
        => [\A i \in Ids : Exists(i) => Stands(i)]_vars
  <2>. SUFFICES ASSUME TypeInv, RowsInv, MoneyInv, [Next]_vars, NEW i \in Ids, Exists(i)
                PROVE  Stands(i)
    OBVIOUS
  <2>t. TypeOK
    BY DEF TypeInv
  <2>s. <<settlement[i].status, settlement[i].status>> \in Onward
    BY <2>t DEF TypeOK, SettlementRow, Exists, Onward
  <2>1. CASE settlement'[i] = settlement[i] /\ request'[i] = request[i]
    BY <2>1, <2>s DEF Stands
  <2>2. ASSUME NEW j \in Ids, NEW row \in SettlementRow, Created(j, row) PROVE Stands(i)
    <3>1. j # i
      BY <2>2 DEF Created
    <3>. QED  BY <2>1, <2>2, <2>t, <3>1, CreatedRows
  <2>3. ASSUME NEW j \in Ids, \/ ReviewSettlement(j) \/ ApproveSettlement(j)
                             \/ MatchPayment(j) \/ ReversePaymentMatch(j)
        PROVE  Stands(i)
    <3>1. CASE j # i
      BY <2>1, <2>3, <2>t, <3>1, MarkedRows
    <3>2. CASE j = i
      BY <2>3, <2>t, <3>2, MarkedRows, StatusGoesOn DEF Stands
    <3>. QED  BY <3>1, <3>2
  <2>4. CASE UNCHANGED <<settlement, request>>
    BY <2>1, <2>4
  <2>. QED  BY <2>2, <2>3, <2>4, Creations
<1>. QED  BY <1>1, TypeInit, TypeNext, RowsInit, RowsNext, MoneyInit, MoneyNext, PTL
          DEF Spec, SettlementsStand

-----------------------------------------------------------------------------
(* A completed event has done its work.                                      *)

(* What a close of month m has to bill of store s.                           *)
DueOf(m, s) == {r \in due[m] : StoreOf[r] = s /\ UtcDay(receipt[r].at) \in DaysOf(m)}

Covered(m, s) == \A r \in DueOf(m, s) : Billed(r)

CreatesFor(h, s) == step[h].at = "create" /\ step[h].row.store = s

(* A run has covered the stores it has left behind, but for the one whose    *)
(* settlement it is about to create; and that settlement is complete.        *)
RunCovers(h) ==
  step[h].at # "idle" =>
    /\ \A s \in Monthly \ step[h].todo : Covered(step[h].month, s) \/ CreatesFor(h, s)
    /\ step[h].at = "create" =>
         \A r \in DueOf(step[h].month, step[h].row.store) : Billed(r) \/ r \in step[h].row.receipts

DueConfirmed == \A m \in Months : due[m] \subseteq {r \in Receipts : receipt[r].confirmed}

MonthsCovered ==
  \A m \in Months : \A s \in Monthly : Exists(MonthId(s, m)) => Covered(m, s)

ClosedCovered ==
  \A m \in Months : Closed(m) => \A s \in Monthly : Covered(m, s)

DeliveriesBilled ==
  \A r \in Receipts : event[<<"delivered", r>>].status = "done" => Billed(r)

CoverInv ==
  /\ DueConfirmed /\ MonthsCovered /\ ClosedCovered /\ DeliveriesBilled
  /\ \A h \in Handlers : RunCovers(h)

LEMMA CoverInit == Init => CoverInv
<1>. SUFFICES ASSUME Init PROVE CoverInv
  OBVIOUS
<1>1. DueConfirmed
  BY DEF Init, DueConfirmed
<1>2. MonthsCovered
  BY IdTypes DEF Init, MonthsCovered, Exists, NoSettlement
<1>3. ClosedCovered /\ DeliveriesBilled
  BY EventTypes DEF Init, ClosedCovered, Closed, DeliveriesBilled
<1>4. \A h \in Handlers : RunCovers(h)
  BY DEF Init, RunCovers, Idle
<1>. QED  BY <1>1, <1>2, <1>3, <1>4 DEF CoverInv

(* What is billed stays billed.                                              *)
LEMMA BilledStable ==
    ASSUME TypeInv, RowsInv, [Next]_vars, NEW r, Billed(r)
    PROVE  Billed(r)'
<1>t. TypeOK
  BY DEF TypeInv
<1>1. PICK j \in Ids : r \in settlement[j].receipts
  BY DEF Billed, Used
<1>2. CASE UNCHANGED <<settlement, request>>
  BY <1>1, <1>2 DEF Billed, Used
<1>3. ASSUME NEW i \in Ids, NEW row \in SettlementRow, Created(i, row) PROVE Billed(r)'
  <2>1. j # i
    BY <1>1, <1>3 DEF Created, RowsInv, RowsBlank
  <2>2. settlement'[j] = settlement[j]
    BY <1>3, <1>t, <2>1, CreatedRows
  <2>. QED  BY <1>1, <2>2 DEF Billed, Used
<1>4. ASSUME NEW i \in Ids, \/ ReviewSettlement(i) \/ ApproveSettlement(i)
                           \/ MatchPayment(i) \/ ReversePaymentMatch(i)
      PROVE  Billed(r)'
  <2>1. settlement'[j].receipts = settlement[j].receipts
    BY <1>4, <1>t, MarkedRows
  <2>. QED  BY <1>1, <2>1 DEF Billed, Used
<1>. QED  BY <1>2, <1>3, <1>4, Creations

LEMMA DueStable ==
    ASSUME TypeInv, CoverInv, [Next]_vars, NEW m \in Months, Requested(<<"close", m>>)
    PROVE  /\ due'[m] = due[m]
           /\ \A r \in due[m] : receipt'[r] = receipt[r]
           /\ \A s : DueOf(m, s)' = DueOf(m, s)
<1>t. TypeOK
  BY DEF TypeInv
<1>1. due'[m] = due[m]
  <2>1. ASSUME NEW k \in Months, RunScheduled(k) PROVE due'[m] = due[m]
    BY <2>1, <1>t DEF RunScheduled, TypeOK, Requested
  <2>2. ASSUME NEW r \in Receipts, ConfirmReceipt(r) PROVE UNCHANGED due
    BY <2>2 DEF ConfirmReceipt
  <2>. QED  BY <2>1, <2>2
            DEF Next, Finance, Work, vars, Tick, BillDelivery, RejectDelivery,
                DraftSettlement, ReviewSettlement, ApproveSettlement, MatchPayment,
                ReversePaymentMatch, StartClose, ReadStore, CreateSettlement,
                AcceptExisting, RejectConflict, Finish, Fail
<1>2. ASSUME NEW r \in due[m] PROVE receipt'[r] = receipt[r]
  <2>0. receipt[r].confirmed /\ r \in Receipts
    BY DEF CoverInv, DueConfirmed
  <2>1. ASSUME NEW q \in Receipts, ConfirmReceipt(q) PROVE receipt'[r] = receipt[r]
    BY <2>0, <2>1, <1>t DEF ConfirmReceipt, TypeOK
  <2>. QED  BY <2>1
            DEF Next, Finance, Work, vars, Tick, BillDelivery, RejectDelivery, RunScheduled,
                DraftSettlement, ReviewSettlement, ApproveSettlement, MatchPayment,
                ReversePaymentMatch, StartClose, ReadStore, CreateSettlement,
                AcceptExisting, RejectConflict, Finish, Fail
<1>3. \A s : DueOf(m, s)' = DueOf(m, s)
  BY <1>1, <1>2 DEF DueOf
<1>. QED  BY <1>1, <1>2, <1>3

LEMMA CoveredStable ==
    ASSUME TypeInv, RowsInv, CoverInv, [Next]_vars, NEW m \in Months,
           Requested(<<"close", m>>), NEW s, Covered(m, s)
    PROVE  Covered(m, s)'
<1>1. DueOf(m, s)' = DueOf(m, s)
  BY DueStable
<1>. QED  BY <1>1, BilledStable DEF Covered

LEMMA DueConfirmedNext == TypeInv /\ CoverInv /\ [Next]_vars => DueConfirmed'
<1>. SUFFICES ASSUME TypeInv, CoverInv, [Next]_vars, NEW m \in Months, NEW r \in due'[m]
              PROVE  r \in Receipts /\ receipt'[r].confirmed
  BY DEF DueConfirmed
<1>t. TypeOK /\ DueConfirmed
  BY DEF TypeInv, CoverInv
<1>1. CASE \E k \in Months : RunScheduled(k)
  BY <1>1, <1>t DEF RunScheduled, TypeOK, DueConfirmed
<1>2. CASE \E q \in Receipts : ConfirmReceipt(q)
  BY <1>2, <1>t DEF ConfirmReceipt, TypeOK, DueConfirmed
<1>3. CASE UNCHANGED <<due, receipt>>
  BY <1>3, <1>t DEF DueConfirmed
<1>. QED  BY <1>1, <1>2, <1>3
          DEF Next, Finance, Work, vars, Tick, BillDelivery, RejectDelivery,
              DraftSettlement, ReviewSettlement, ApproveSettlement, MatchPayment,
              ReversePaymentMatch, StartClose, ReadStore, CreateSettlement,
              AcceptExisting, RejectConflict, Finish, Fail

(* Only the close creates a settlement of a month.                           *)
LEMMA MonthCreated ==
    ASSUME TypeInv, RowsInv, [Next]_vars, NEW s \in Monthly, NEW m \in Months,
           ~Exists(MonthId(s, m)), Exists(MonthId(s, m))'
    PROVE  \E h \in Handlers : CreateSettlement(h) /\ CloseId(h) = MonthId(s, m)
<1>. DEFINE i == MonthId(s, m)
<1>t. TypeOK /\ i \in Ids
  BY IdTypes DEF TypeInv
<1>1. ASSUME NEW j \in Ids, NEW row, Create(j, row) PROVE j = i
  BY <1>1, <1>t DEF Create, TypeOK, Exists
<1>2. ASSUME NEW r \in Receipts, BillDelivery(r) PROVE FALSE
  <2>1. DeliveryId(r) \in Ids /\ DeliveryId(r) # i
    BY IdTypes, IdsDiffer
  <2>. QED  BY <1>1, <1>2, <2>1 DEF BillDelivery, Exists
<1>3. ASSUME NEW n \in 1 .. MaxManual, NEW t \in Stores, NEW first \in Days, NEW last \in Days,
             DraftSettlement(n, t, first, last)
      PROVE  FALSE
  <2>1. ManualId(n) \in Ids /\ ManualId(n) # i
    BY IdTypes, IdsDiffer
  <2>. QED  BY <1>1, <1>3, <2>1 DEF DraftSettlement
<1>4. ASSUME NEW j \in Ids, \/ ReviewSettlement(j) \/ ApproveSettlement(j)
                           \/ MatchPayment(j) \/ ReversePaymentMatch(j)
      PROVE  FALSE
  BY <1>4, <1>t, MarkedRows
<1>5. ASSUME NEW h \in Handlers, CreateSettlement(h)
      PROVE  CloseId(h) = i
  <2>1. CloseId(h) \in Ids
    BY <1>5, CloseIdType DEF CreateSettlement
  <2>. QED  BY <1>1, <1>5, <2>1 DEF CreateSettlement
<1>6. settlement' # settlement
  BY DEF Exists
<1>. QED  BY <1>2, <1>3, <1>4, <1>5, <1>6
          DEF Next, Finance, Work, vars, Tick, ConfirmReceipt, RejectDelivery, RunScheduled,
              StartClose, ReadStore, AcceptExisting, RejectConflict, Finish, Fail

(* Once the settlement in hand exists, or one that was taken for it, its     *)
(* store is covered.                                                         *)
LEMMA CreateCovers ==
    ASSUME TypeInv, RowsInv, CoverInv, [Next]_vars, NEW h \in Handlers,
           CreateSettlement(h) \/ AcceptExisting(h),
           NEW m, NEW s, m = step[h].month, s = step[h].row.store
    PROVE  Covered(m, s)'
<1>r. PICK R : R = step[h].row.receipts
  OBVIOUS
<1>t. /\ TypeOK /\ step[h].at = "create" /\ m \in Months /\ s \in Monthly
      /\ CloseId(h) \in Ids /\ CloseId(h) = MonthId(s, m) /\ step[h].row \in SettlementRow
      /\ Requested(<<"close", m>>)
  <2>1. step[h].at = "create"
    BY DEF CreateSettlement, AcceptExisting
  <2>2. Requested(<<"close", m>>)
    BY <2>1 DEF TypeInv, StepOK, Requested
  <2>. QED  BY <2>1, <2>2, CloseIdType DEF TypeInv
<1>1. \A r \in DueOf(m, s) : Billed(r) \/ r \in R
  BY <1>t, <1>r DEF CoverInv, RunCovers
<1>2. CASE CreateSettlement(h)
  <2>0. PICK i \in Ids : i = CloseId(h)
    BY <1>t
  <2>1. settlement'[i].receipts = R
    BY <1>2, <1>t, <1>r, <2>0 DEF CreateSettlement, Create, TypeOK
  <2>2. \A r \in R : Billed(r)'
    BY <2>1 DEF Billed, Used
  <2>3. DueOf(m, s)' = DueOf(m, s)
    BY <1>t, DueStable
  <2>4. \A r \in DueOf(m, s) : Billed(r)'
    BY <1>1, <2>2, BilledStable
  <2>. QED  BY <2>3, <2>4 DEF Covered
<1>3. CASE AcceptExisting(h)
  <2>1. PICK j \in Ids : /\ Exists(j)
                         /\ j = MonthId(s, m) \/ settlement[j].receipts = R
    BY <1>3, <1>t, <1>r DEF AcceptExisting, Resolved, Existing, Exists
  <2>2. CASE j = MonthId(s, m)
    BY <2>1, <2>2, <1>t, CoveredStable DEF CoverInv, MonthsCovered
  <2>3. CASE settlement[j].receipts = R
    <3>1. \A r \in R : Billed(r)
      BY <2>3 DEF Billed, Used
    <3>2. Covered(m, s)
      BY <1>1, <3>1 DEF Covered
    <3>. QED  BY <3>2, <1>t, CoveredStable
  <2>. QED  BY <2>1, <2>2, <2>3
<1>. QED  BY <1>2, <1>3

LEMMA MonthsCoveredNext == TypeInv /\ RowsInv /\ CoverInv /\ [Next]_vars => MonthsCovered'
<1>. SUFFICES ASSUME TypeInv, RowsInv, CoverInv, [Next]_vars,
                     NEW m \in Months, NEW s \in Monthly, Exists(MonthId(s, m))'
              PROVE  Covered(m, s)'
  BY DEF MonthsCovered
<1>1. CASE Exists(MonthId(s, m))
  <2>1. IdFits(MonthId(s, m), settlement[MonthId(s, m)])
    BY <1>1, IdTypes DEF RowsInv
  <2>2. Requested(<<"close", m>>)
    BY <2>1 DEF IdFits
  <2>. QED  BY <1>1, <2>2, CoveredStable DEF CoverInv, MonthsCovered
<1>2. CASE ~Exists(MonthId(s, m))
  <2>1. PICK h \in Handlers : CreateSettlement(h) /\ CloseId(h) = MonthId(s, m)
    BY <1>2, MonthCreated
  <2>2. CloseId(h) = MonthId(step[h].row.store, step[h].month)
    BY DEF CloseId
  <2>3. step[h].row.store = s /\ step[h].month = m
    <3>1. MonthId(step[h].row.store, step[h].month) = MonthId(s, m)
      BY <2>1, <2>2
    <3>. QED  BY <3>1 DEF MonthId
  <2>. QED  BY <2>1, <2>3, CreateCovers
<1>. QED  BY <1>1, <1>2

LEMMA RunCoversNext ==
    ASSUME TypeInv, RowsInv, CoverInv, [Next]_vars, NEW h \in Handlers
    PROVE  RunCovers(h)'
<1>t. /\ TypeOK /\ RunCovers(h)
      /\ step \in [Handlers -> Step]
  BY DEF TypeInv, TypeOK, CoverInv
<1>m. ASSUME step[h].at # "idle"
      PROVE  /\ step[h].month \in Months /\ step[h].todo \subseteq Monthly
             /\ Requested(<<"close", step[h].month>>)
  BY <1>m DEF TypeInv, StepOK, Requested
<1>1. CASE step'[h] = step[h]
  <2>m. PICK m : m = step[h].month
    OBVIOUS
  <2>1. SUFFICES ASSUME step[h].at # "idle" PROVE RunCovers(h)'
    BY <1>1 DEF RunCovers
  <2>2. ASSUME NEW s \in Monthly \ step[h].todo
        PROVE  Covered(m, s)' \/ CreatesFor(h, s)
    <3>1. Covered(m, s) \/ CreatesFor(h, s)
      BY <1>t, <2>1, <2>m DEF RunCovers
    <3>. QED  BY <1>m, <2>1, <2>m, <3>1, CoveredStable
  <2>3. ASSUME NEW s PROVE DueOf(m, s)' = DueOf(m, s)
    BY <1>m, <2>1, <2>m, DueStable
  <2>4. ASSUME step[h].at = "create", NEW r \in DueOf(m, step[h].row.store)
        PROVE  Billed(r)' \/ r \in step[h].row.receipts
    BY <1>t, <2>1, <2>4, <2>m, BilledStable DEF RunCovers
  <2>. QED  BY <1>1, <2>m, <2>2, <2>3, <2>4 DEF RunCovers, CreatesFor
<1>2. CASE step'[h].at = "idle"
  BY <1>2 DEF RunCovers
<1>3. ASSUME NEW m \in Months, StartClose(h, m) PROVE RunCovers(h)'
  <2>1. step'[h].at = "loop" /\ step'[h].todo = Monthly
    BY <1>3, <1>t DEF StartClose
  <2>. QED  BY <2>1 DEF RunCovers
<1>4. ASSUME NEW s \in Monthly, ReadStore(h, s) PROVE RunCovers(h)'
  <2>m. PICK m : m = step[h].month
    OBVIOUS
  <2>1. /\ step[h].at = "loop" /\ m \in Months /\ Requested(<<"close", m>>)
        /\ UNCHANGED <<receipt, settlement, due>>
    BY <2>m, <1>4, <1>m DEF ReadStore
  <2>2. \A t \in Monthly \ step[h].todo : Covered(m, t)
    BY <2>m, <1>t, <2>1 DEF RunCovers, CreatesFor
  <2>3. \A r \in DueOf(m, s) : Billed(r) \/ r \in Candidates(s, m)
    BY <2>1 DEF DueOf, Candidates, Confirmed, CoverInv, DueConfirmed
  <2>4. /\ \A t : Covered(m, t)' <=> Covered(m, t)
        /\ \A t : DueOf(m, t)' = DueOf(m, t)
        /\ \A r : Billed(r)' <=> Billed(r)
    BY <2>1 DEF Covered, DueOf, Billed, Used
  <2>5. CASE Candidates(s, m) = {}
    <3>1. step'[h].at = "loop" /\ step'[h].month = m /\ step'[h].todo = step[h].todo \ {s}
      BY <2>m, <1>4, <1>t, <2>5 DEF ReadStore
    <3>2. Covered(m, s)
      BY <2>3, <2>5 DEF Covered
    <3>3. \A t \in Monthly \ step'[h].todo : Covered(m, t)'
      BY <2>2, <2>4, <3>1, <3>2
    <3>. QED  BY <3>1, <3>3 DEF RunCovers
  <2>6. CASE Candidates(s, m) # {}
    <3>1. /\ step'[h].at = "create" /\ step'[h].month = m /\ step'[h].todo = step[h].todo \ {s}
          /\ step'[h].row = Draft(s, FirstDay(m), LastDay(m), Candidates(s, m))
      BY <2>m, <1>4, <1>t, <2>6 DEF ReadStore
    <3>2. step'[h].row.store = s /\ step'[h].row.receipts = Candidates(s, m)
      BY <3>1 DEF Draft
    <3>3. \A t \in Monthly \ step'[h].todo : Covered(m, t)' \/ t = s
      BY <2>2, <2>4, <3>1
    <3>4. \A r \in DueOf(m, s)' : Billed(r)' \/ r \in step'[h].row.receipts
      BY <2>3, <2>4, <3>2
    <3>. QED  BY <3>1, <3>2, <3>3, <3>4 DEF RunCovers, CreatesFor
  <2>. QED  BY <2>5, <2>6
<1>5. ASSUME CreateSettlement(h) \/ AcceptExisting(h) PROVE RunCovers(h)'
  <2>m. PICK m, q : m = step[h].month /\ q = step[h].row.store
    OBVIOUS
  <2>1. step[h].at = "create" /\ m \in Months /\ Requested(<<"close", m>>)
    BY <2>m, <1>5, <1>m DEF CreateSettlement, AcceptExisting
  <2>2. step'[h].at = "loop" /\ step'[h].month = m /\ step'[h].todo = step[h].todo
    BY <2>m, <1>5, <1>t DEF CreateSettlement, AcceptExisting, Continue
  <2>3. \A t \in Monthly \ step[h].todo : Covered(m, t) \/ t = q
    BY <2>m, <1>t, <2>1 DEF RunCovers, CreatesFor
  <2>4. Covered(m, q)'
    BY <1>5, <2>m, CreateCovers
  <2>5. ASSUME NEW t \in Monthly \ step[h].todo PROVE Covered(m, t)'
    <3>1. CASE Covered(m, t)
      BY <2>1, <3>1, CoveredStable
    <3>2. CASE t = q
      BY <2>4, <3>2
    <3>. QED  BY <2>3, <2>5, <3>1, <3>2
  <2>. QED  BY <2>2, <2>5 DEF RunCovers
<1>6. \/ step'[h] = step[h] \/ step'[h].at = "idle"
      \/ \E m \in Months : StartClose(h, m)
      \/ \E s \in Monthly : ReadStore(h, s)
      \/ CreateSettlement(h) \/ AcceptExisting(h)
  <2>1. ASSUME NEW g \in Handlers, Work(g) \/ Fail(g), g # h PROVE step'[h] = step[h]
    BY <2>1, <1>t DEF Work, Fail, StartClose, ReadStore, CreateSettlement, AcceptExisting,
                      RejectConflict, Finish, Continue
  <2>2. ASSUME RejectConflict(h) \/ Finish(h) \/ Fail(h) PROVE step'[h].at = "idle"
    BY <2>2, <1>t DEF RejectConflict, Finish, Fail, Idle
  <2>3. CASE UNCHANGED step
    BY <2>3
  <2>. QED  BY <2>1, <2>2, <2>3
            DEF Next, Finance, Work, vars, Tick, ConfirmReceipt, BillDelivery, RejectDelivery,
                DraftSettlement, ReviewSettlement, ApproveSettlement, MatchPayment,
                ReversePaymentMatch, RunScheduled
<1>. QED  BY <1>1, <1>2, <1>3, <1>4, <1>5, <1>6

LEMMA ClosedCoveredNext == TypeInv /\ RowsInv /\ CoverInv /\ [Next]_vars => ClosedCovered'
<1>. SUFFICES ASSUME TypeInv, RowsInv, CoverInv, [Next]_vars,
                     NEW m \in Months, Closed(m)', NEW s \in Monthly
              PROVE  Covered(m, s)'
  BY DEF ClosedCovered
<1>t. /\ event \in [Events -> EventRow] /\ \A h \in Handlers : RunCovers(h) /\ StepOK(h)
      /\ <<"close", m>> \in Events
  BY EventTypes DEF TypeInv, TypeOK, CoverInv
<1>1. CASE Closed(m)
  BY <1>1, CoveredStable DEF CoverInv, ClosedCovered, Closed, Requested
<1>2. CASE ~Closed(m)
  <2>1. PICK h \in Handlers : Finish(h) /\ step[h].month = m
    <3>1. ASSUME NEW h \in Handlers, NEW k \in Months, StartClose(h, k) PROVE FALSE
      <4>1. event' = [event EXCEPT ![<<"close", k>>].left = event[<<"close", k>>].left - 1]
        BY <3>1 DEF StartClose
      <4>2. \A e \in Events : event'[e].status = event[e].status
        BY <4>1, <1>t DEF EventRow
      <4>. QED  BY <4>2, <1>t, <1>2 DEF Closed
    <3>2. ASSUME NEW k \in Months, RunScheduled(k) PROVE FALSE
      BY <3>2, <1>t, <1>2 DEF RunScheduled, Closed
    <3>3. ASSUME NEW r \in Receipts, ConfirmReceipt(r) \/ BillDelivery(r) \/ RejectDelivery(r)
          PROVE  FALSE
      <4>1. <<"delivered", r>> \in Events /\ <<"delivered", r>> # <<"close", m>>
        BY EventTypes
      <4>2. event'[<<"close", m>>] = event[<<"close", m>>]
        BY <3>3, <4>1, <1>t DEF ConfirmReceipt, BillDelivery, RejectDelivery
      <4>. QED  BY <4>2, <1>2 DEF Closed
    <3>4. ASSUME NEW h \in Handlers, Finish(h) PROVE step[h].month = m
      <4>1. step[h].month \in Months /\ <<"close", step[h].month>> \in Events
        BY <3>4, <1>t, EventTypes DEF StepOK, Finish
      <4>2. step[h].month # m => event'[<<"close", m>>] = event[<<"close", m>>]
        BY <3>4, <4>1, <1>t DEF Finish
      <4>. QED  BY <4>2, <1>2 DEF Closed
    <3>5. event' # event
      BY <1>2 DEF Closed
    <3>. QED  BY <3>1, <3>2, <3>3, <3>4, <3>5
              DEF Next, Finance, Work, vars, Tick, DraftSettlement, ReviewSettlement,
                  ApproveSettlement, MatchPayment, ReversePaymentMatch, ReadStore,
                  CreateSettlement, AcceptExisting, RejectConflict, Fail
  <2>2. Covered(m, s)
    BY <2>1, <1>t DEF Finish, RunCovers, CreatesFor
  <2>3. Requested(<<"close", m>>)
    BY <2>1, <1>t DEF Finish, StepOK, Requested
  <2>. QED  BY <2>2, <2>3, CoveredStable
<1>. QED  BY <1>1, <1>2

LEMMA DeliveriesBilledNext ==
    TypeInv /\ RowsInv /\ CoverInv /\ [Next]_vars => DeliveriesBilled'
<1>. SUFFICES ASSUME TypeInv, RowsInv, CoverInv, [Next]_vars, NEW r \in Receipts,
                     event'[<<"delivered", r>>].status = "done"
              PROVE  Billed(r)'
  BY DEF DeliveriesBilled
<1>. DEFINE e == <<"delivered", r>>
<1>t. /\ TypeOK /\ event \in [Events -> EventRow] /\ e \in Events
      /\ \A q \in Receipts : <<"delivered", q>> \in Events /\ (<<"delivered", q>> = e => q = r)
      /\ \A m \in Months : <<"close", m>> \in Events /\ <<"close", m>> # e
  BY EventTypes DEF TypeInv, TypeOK
<1>1. CASE event[e].status = "done"
  BY <1>1, BilledStable DEF CoverInv, DeliveriesBilled
<1>2. ASSUME BillDelivery(r) PROVE Billed(r)'
  <2>1. /\ DeliveryId(r) \in Ids /\ DeliveryDraft(r).receipts = {r}
    BY <1>t, DeliveryDraftType
  <2>2. CASE ~Conflict(DeliveryDraft(r))
    <3>1. settlement'[DeliveryId(r)] = DeliveryDraft(r)
      BY <1>2, <2>1, <2>2, <1>t DEF BillDelivery, Create, TypeOK
    <3>. QED  BY <2>1, <3>1 DEF Billed, Used
  <2>3. CASE Conflict(DeliveryDraft(r))
    <3>1. PICK j \in Ids : /\ Exists(j)
                           /\ j = DeliveryId(r) \/ settlement[j].receipts = {r}
      BY <1>2, <2>1, <2>3 DEF BillDelivery, Resolved, Existing, Exists
    <3>2. r \in settlement[j].receipts
      BY <3>1 DEF RowsInv, IdFits
    <3>3. Billed(r)
      BY <3>2 DEF Billed, Used
    <3>. QED  BY <3>3, BilledStable
  <2>. QED  BY <2>2, <2>3
<1>3. CASE event[e].status # "done" /\ ~BillDelivery(r)
  <2>1. ASSUME NEW q \in Receipts, BillDelivery(q) PROVE FALSE
    <3>1. <<"delivered", q>> # e
      BY <1>3, <1>t, <2>1
    <3>2. event'[e] = event[e]
      BY <2>1, <3>1, <1>t DEF BillDelivery
    <3>. QED  BY <3>2, <1>3
  <2>2. ASSUME NEW q \in Receipts, ConfirmReceipt(q) PROVE FALSE
    BY <2>2, <1>3, <1>t DEF ConfirmReceipt
  <2>3. ASSUME NEW q \in Receipts, RejectDelivery(q) PROVE FALSE
    <3>1. event' = [event EXCEPT ![<<"delivered", q>>].left = event[<<"delivered", q>>].left - 1]
      BY <2>3 DEF RejectDelivery
    <3>2. \A f \in Events : event'[f].status = event[f].status
      BY <3>1, <1>t DEF EventRow
    <3>. QED  BY <3>2, <1>t, <1>3
  <2>4. ASSUME NEW m \in Months, RunScheduled(m) PROVE FALSE
    BY <2>4, <1>3, <1>t DEF RunScheduled
  <2>5. ASSUME NEW h \in Handlers, NEW m \in Months, StartClose(h, m) PROVE FALSE
    BY <2>5, <1>3, <1>t DEF StartClose
  <2>6. ASSUME NEW h \in Handlers, Finish(h) PROVE FALSE
    <3>1. <<"close", step[h].month>> # e
      OBVIOUS
    <3>. QED  BY <2>6, <3>1, <1>3, <1>t DEF Finish
  <2>7. event' # event
    BY <1>3
  <2>. QED  BY <2>1, <2>2, <2>3, <2>4, <2>5, <2>6, <2>7
            DEF Next, Finance, Work, vars, Tick, DraftSettlement, ReviewSettlement,
                ApproveSettlement, MatchPayment, ReversePaymentMatch, ReadStore,
                CreateSettlement, AcceptExisting, RejectConflict, Fail
<1>. QED  BY <1>1, <1>2, <1>3

LEMMA CoverNext == TypeInv /\ RowsInv /\ CoverInv /\ [Next]_vars => CoverInv'
  BY DueConfirmedNext, MonthsCoveredNext, ClosedCoveredNext, DeliveriesBilledNext, RunCoversNext
     DEF CoverInv

LEMMA CoverImplies == CoverInv => DoneMeansBilled
<1>. SUFFICES ASSUME CoverInv PROVE DoneMeansBilled
  OBVIOUS
<1>1. ASSUME NEW m \in Months, Closed(m), NEW r \in DueIn(m), UtcDay(receipt[r].at) \in DaysOf(m)
      PROVE  Billed(r)
  <2>1. StoreOf[r] \in Monthly /\ r \in DueOf(m, StoreOf[r])
    BY <1>1 DEF DueIn, DueOf
  <2>. QED  BY <1>1, <2>1 DEF CoverInv, ClosedCovered, Covered
<1>. QED  BY <1>1 DEF CoverInv, DeliveriesBilled, DoneMeansBilled

(* An event the worker completed has billed what it was for.                 *)
THEOREM CompletedWork == Spec => []DoneMeansBilled
  BY TypeInit, TypeNext, RowsInit, RowsNext, CoverInit, CoverNext, CoverImplies, PTL DEF Spec
=============================================================================
