-------------------------- MODULE OrderFulfilment --------------------------
(***************************************************************************)
(* A purchase order from draft to goods receipt, the prepayment attached   *)
(* to it, the bank credits that pay it, and the shipment that carries it:  *)
(* apps/api/src/service.ts, with the driver administration of              *)
(* apps/api/src/auth-service.ts and the bank synchronisation of            *)
(* apps/worker/src/worker.ts.                                              *)
(*                                                                         *)
(* Every mutation runs in one Postgres READ COMMITTED transaction: each    *)
(* SELECT sees the rows committed before it, and commit() re-checks only   *)
(* the versions of the rows it writes.  An operation that decides on rows  *)
(* it writes, or on rows nobody else can write while it holds the          *)
(* payment-match advisory lock, takes effect at its commit and is one      *)
(* action.  An operation that decides on any other row is split: read      *)
(* actions that keep what they saw in tx[p], then a commit action.         *)
(***************************************************************************)
EXTENDS Naturals, FiniteSets

CONSTANTS
    Orders,         \* purchase orders, each of one store
    Prepaid,        \* the orders whose store pays in advance
    Drivers,        \* driver accounts
    Txns,           \* credits on the approved bank account
    TxnAmount,      \* the amount of each credit
    InWindow,       \* <<order, credit>>: inAutomaticMatchWindow holds
    RefersTo,       \* <<order, credit>>: the memo names depositor or store
    Amounts,        \* totals a priced order can have
    Procs,          \* concurrent requests (API processes)
    Nobody,         \* no process holds the lock
    None,           \* no order, driver or credit
    MaxDay,         \* bound: last operational day explored
    MaxOrderVersion, \* bound: order.version, limits change requests
    MaxAuthVersion  \* bound: actor.authVersion, limits administration

ASSUME PrepaidAssumption == Prepaid \subseteq Orders
ASSUME OrdersAssumption == IsFiniteSet(Orders)
ASSUME NoneAssumption == None \notin Orders \cup Drivers \cup Txns
ASSUME BoundsAssumption == MaxDay \in Nat
ASSUME NobodyAssumption == Nobody \notin Procs
ASSUME AmountAssumption == TxnAmount \in [Txns -> Amounts]

VARIABLES
    order,      \* order[o]: status, due day, gross, version
    request,    \* request[o]: the order's payment_request
    txn,        \* txn[t]: bank_transaction not imported, free or matched
    shipment,   \* shipment[o]: the shipment of order o
    upload,     \* upload[o]: a delivery photo ticket is issued and valid
    receipt,    \* receipt[o]: goods receipt
    driver,     \* driver[d]: the actor row
    liveness,   \* liveness[d]: version of the row driver-liveness:<d>
    dismissed,  \* history: the accounts deactivated while they were drivers
    payLock,    \* holder of the payment-match advisory lock
    tx,         \* tx[p]: what a split operation has read
    today       \* the operational day in Seoul

vars == <<order, request, txn, shipment, upload, receipt, driver, liveness,
          dismissed, payLock, tx, today>>
money == <<request, txn>>
goods == <<shipment, upload, receipt>>
staff == <<driver, liveness, dismissed>>

OrderStatus == {"none", "draft", "submitted", "change_requested", "approved",
                "rejected", "cancelled"}
RequestStatus == {"none", "pending", "manual_review", "paid", "cancelled"}
ShipmentStatus == {"none", "preparing", "out_for_delivery", "delivered"}
Steps == {"idle", "cancel", "shipDriver", "shipInvariant", "shipCommit",
          "dispatch", "deliver", "deactivateInvariant", "deactivateCommit",
          "role"}

NoOrder == [status |-> "none", due |-> 0, gross |-> None, version |-> 0]
NoRequest == [status |-> "none", amount |-> None, txn |-> None]
NoShipment == [status |-> "none", driver |-> None, planned |-> 0]
NoReceipt == [exists |-> FALSE, gross |-> None, day |-> 0]
Idle == [step |-> "idle", order |-> None, driver |-> None, version |-> 0,
         liveness |-> 0]

Init ==
    /\ order = [o \in Orders |-> NoOrder]
    /\ request = [o \in Orders |-> NoRequest]
    /\ txn = [t \in Txns |-> "absent"]
    /\ shipment = [o \in Orders |-> NoShipment]
    /\ upload = [o \in Orders |-> FALSE]
    /\ receipt = [o \in Orders |-> NoReceipt]
    /\ driver \in [Drivers -> [active : {TRUE}, role : {"driver", "other"}, version : {1}]]
    /\ liveness = [d \in Drivers |-> 0]
    /\ dismissed = {}
    /\ payLock = Nobody
    /\ tx = [p \in Procs |-> Idle]
    /\ today = 0

Begin(p, step, o, d, version) ==
    tx' = [tx EXCEPT ![p] = [step |-> step, order |-> o, driver |-> d,
                             version |-> version, liveness |-> 0]]
Continue(p, step, seen) ==
    tx' = [tx EXCEPT ![p] = [step |-> step, order |-> tx[p].order,
                             driver |-> tx[p].driver, version |-> tx[p].version,
                             liveness |-> seen]]
Finish(p) == tx' = [tx EXCEPT ![p] = Idle]

-----------------------------------------------------------------------------
(* Orders: packages/domain/src/transitions.ts and the order commands.       *)

OrderMoves ==
    ({"draft", "change_requested"} \X {"submitted"})
    \cup ({"submitted"} \X {"change_requested", "approved", "rejected"})
    \cup ({"draft", "submitted", "change_requested", "approved"}
            \X {"cancelled"})

CanMove(o, s) == <<order[o].status, s>> \in OrderMoves

Moved(o, s) == [status |-> s, due |-> order[o].due, gross |-> order[o].gross,
                version |-> order[o].version + 1]

SetStatus(o, s) == order' = [order EXCEPT ![o] = Moved(o, s)]

(* exclusiveTransaction(paymentMatchLockKey()): waits for the lock; an       *)
(* action that completes its transaction frees it at once.                  *)
LockFree == payLock = Nobody

AllowedDeliveryDates == (today + 1) .. MaxDay

CreateOrder(o, due, gross) ==
    /\ order[o].status = "none"
    /\ due \in AllowedDeliveryDates
    /\ order' = [order EXCEPT ![o] = [status |-> "draft", due |-> due,
                                      gross |-> gross, version |-> 1]]
    /\ UNCHANGED <<money, goods, staff, payLock, tx, today>>

SubmitOrder(o) ==
    /\ CanMove(o, "submitted")
    /\ SetStatus(o, "submitted")
    /\ UNCHANGED <<money, goods, staff, payLock, tx, today>>

RequestOrderChange(o) ==
    /\ CanMove(o, "change_requested")
    /\ order[o].version < MaxOrderVersion
    /\ SetStatus(o, "change_requested")
    /\ UNCHANGED <<money, goods, staff, payLock, tx, today>>

ResubmitOrder(o, due, gross) ==
    /\ CanMove(o, "submitted")
    /\ due \in AllowedDeliveryDates
    /\ order' = [order EXCEPT ![o] =
                   [status |-> "submitted", due |-> due, gross |-> gross,
                    version |-> order[o].version + 1]]
    /\ UNCHANGED <<money, goods, staff, payLock, tx, today>>

RejectOrder(o) ==
    /\ CanMove(o, "rejected")
    /\ SetStatus(o, "rejected")
    /\ UNCHANGED <<money, goods, staff, payLock, tx, today>>

(* Approval of a prepaid store's order creates the payment request; the     *)
(* claim prepayment.order admits one request per order.                     *)
ApproveOrder(o) ==
    /\ LockFree
    /\ CanMove(o, "approved")
    /\ SetStatus(o, "approved")
    /\ IF o \in Prepaid
         THEN /\ request[o].status = "none"
              /\ request' = [request EXCEPT ![o] =
                   [status |-> "pending", amount |-> order[o].gross, txn |-> None]]
         ELSE UNCHANGED request
    /\ UNCHANGED <<txn, goods, staff, payLock, tx, today>>

(* Cancellation reads the shipments without writing them.                   *)
CancelOrderRead(p, o) ==
    /\ tx[p].step = "idle"
    /\ LockFree
    /\ CanMove(o, "cancelled")
    /\ shipment[o].status = "none"
    /\ request[o].status # "paid"
    /\ payLock' = p
    /\ Begin(p, "cancel", o, None, order[o].version)
    /\ UNCHANGED <<order, money, goods, staff, today>>

(* A slip of CancelRequest: the payment request is forgotten.                *)
ForgetRequest(o) == UNCHANGED request

CancelRequest(o) ==
    request' = IF request[o].status = "none" THEN request
               ELSE [request EXCEPT ![o].status = "cancelled"]

CancelOrderCommit(p) ==
    LET o == tx[p].order IN
    /\ tx[p].step = "cancel"
    /\ order[o].version = tx[p].version
    /\ SetStatus(o, "cancelled")
    /\ CancelRequest(o)
    /\ payLock' = Nobody
    /\ Finish(p)
    /\ UNCHANGED <<txn, goods, staff, today>>

-----------------------------------------------------------------------------
(* Payments: every operation here holds the payment-match lock.             *)

Paid(o, t) == [status |-> "paid", amount |-> request[o].amount, txn |-> t]

Candidate(o) == request[o].status \in {"pending", "manual_review"}

(* A slip of SameAmountAndTime: the amount is not compared.                  *)
AnyAmountInTime(o, credits) == {t \in credits : <<o, t>> \in InWindow}

(* Matching against the free credits: a request and a credit match when     *)
(* each is the other's only edge; other requests with a credit of the right *)
(* amount in the window go to manual review.                                *)
SameAmountAndTime(o, credits) ==
    {t \in credits : TxnAmount[t] = request[o].amount /\ <<o, t>> \in InWindow}
Edges(o, credits) == {t \in SameAmountAndTime(o, credits) : <<o, t>> \in RefersTo}

(* A slip of UniquePair: uniqueness is asked of the request's side only.     *)
UniqueForRequest(o, t, credits) ==
    Candidate(o) /\ Edges(o, credits) = {t}

UniquePair(o, t, credits) ==
    /\ Candidate(o)
    /\ Edges(o, credits) = {t}
    /\ \A u \in Orders : Candidate(u) /\ t \in Edges(u, credits) => u = o

AutoMatchedRequest(o, credits) ==
    IF \E t \in credits : UniquePair(o, t, credits)
    THEN Paid(o, CHOOSE t \in credits : UniquePair(o, t, credits))
    ELSE IF Candidate(o) /\ SameAmountAndTime(o, credits) # {}
         THEN [request[o] EXCEPT !.status = "manual_review"]
         ELSE request[o]

AutoMatch(imported) ==
    LET credits == {t \in Txns : txn[t] = "free"} \cup imported IN
    /\ request' = [o \in Orders |-> AutoMatchedRequest(o, credits)]
    /\ txn' = [t \in Txns |->
                 IF \E o \in Orders : t \in credits /\ UniquePair(o, t, credits)
                 THEN "matched"
                 ELSE IF t \in imported THEN "free" ELSE txn[t]]

AutoMatchPayments ==
    /\ LockFree
    /\ AutoMatch({})
    /\ UNCHANGED <<order, goods, staff, payLock, tx, today>>

(* The import and the matching are one transaction; a credit imported       *)
(* before fails the whole transaction (its claim bank.provider is taken).   *)
SyncBankTransactions(fetched) ==
    /\ LockFree
    /\ \A t \in fetched : txn[t] = "absent"
    /\ AutoMatch(fetched)
    /\ UNCHANGED <<order, goods, staff, payLock, tx, today>>

ManualMatchPayment(o, t) ==
    /\ LockFree
    /\ txn[t] = "free"
    /\ request[o].amount = TxnAmount[t]
    /\ Candidate(o)
    /\ request' = [request EXCEPT ![o] = Paid(o, t)]
    /\ txn' = [txn EXCEPT ![t] = "matched"]
    /\ UNCHANGED <<order, goods, staff, payLock, tx, today>>

(* paid -> reversed -> pending in one commit.                               *)
Matchable(o) ==
    [status |-> "pending", amount |-> request[o].amount, txn |-> None]

(* A slip of InWarehouse: goods that are on the road are not looked at.      *)
NotDelivered(o) == shipment[o].status # "delivered"

InWarehouse(o) == shipment[o].status \notin {"out_for_delivery", "delivered"}

ReversePaymentMatch(o) ==
    /\ LockFree
    /\ request[o].status = "paid"
    /\ InWarehouse(o)
    /\ request' = [request EXCEPT ![o] = Matchable(o)]
    /\ txn' = [txn EXCEPT ![request[o].txn] = "free"]
    /\ UNCHANGED <<order, goods, staff, payLock, tx, today>>

-----------------------------------------------------------------------------
(* Shipments.                                                               *)

ActiveDriver(d) == driver[d].active /\ driver[d].role = "driver"

(* A slip of Approved: anything submitted and not closed may be shipped.     *)
NotClosed(o) == order[o].status \in {"submitted", "approved"}

Approved(o) == order[o].status = "approved"

(* A slip of SameLiveness: the liveness row is overwritten unconditionally.  *)
AnyLiveness(p) == TRUE

SameLiveness(p) == liveness[tx[p].driver] = tx[p].liveness

CreateShipmentReadOrder(p, o, d) ==
    /\ tx[p].step = "idle"
    /\ Approved(o)
    /\ Begin(p, "shipDriver", o, d, 0)
    /\ UNCHANGED <<order, money, goods, staff, payLock, today>>

CreateShipmentReadDriver(p) ==
    /\ tx[p].step = "shipDriver"
    /\ ActiveDriver(tx[p].driver)
    /\ today <= order[tx[p].order].due
    /\ Continue(p, "shipInvariant", 0)
    /\ UNCHANGED <<order, money, goods, staff, payLock, today>>

CreateShipmentReadInvariant(p) ==
    /\ tx[p].step = "shipInvariant"
    /\ Continue(p, "shipCommit", liveness[tx[p].driver])
    /\ UNCHANGED <<order, money, goods, staff, payLock, today>>

(* The claim shipment.order admits one shipment per order.                  *)
CreateShipmentCommit(p) ==
    LET o == tx[p].order
        d == tx[p].driver IN
    /\ tx[p].step = "shipCommit"
    /\ shipment[o].status = "none"
    /\ SameLiveness(p)
    /\ shipment' = [shipment EXCEPT ![o] = [status |-> "preparing", driver |-> d,
                                            planned |-> order[o].due]]
    /\ liveness' = [liveness EXCEPT ![d] = tx[p].liveness + 1]
    /\ Finish(p)
    /\ UNCHANGED <<order, money, upload, receipt, driver, dismissed, payLock, today>>

DispatchShipmentRead(p, o) ==
    /\ tx[p].step = "idle"
    /\ LockFree
    /\ shipment[o].status = "preparing"
    /\ ActiveDriver(shipment[o].driver)
    /\ shipment[o].planned = today
    /\ o \in Prepaid => request[o].status = "paid"
    /\ payLock' = p
    /\ Begin(p, "dispatch", o, None, 0)
    /\ UNCHANGED <<order, money, goods, staff, today>>

DispatchShipmentCommit(p) ==
    LET o == tx[p].order IN
    /\ tx[p].step = "dispatch"
    /\ shipment[o].status = "preparing"
    /\ shipment' = [shipment EXCEPT ![o].status = "out_for_delivery"]
    /\ payLock' = Nobody
    /\ Finish(p)
    /\ UNCHANGED <<order, money, upload, receipt, staff, today>>

CreateDeliveryUpload(o) ==
    /\ shipment[o].status = "out_for_delivery"
    /\ ActiveDriver(shipment[o].driver)
    /\ shipment[o].planned = today
    /\ upload' = [upload EXCEPT ![o] = TRUE]
    /\ UNCHANGED <<order, money, shipment, receipt, staff, payLock, tx, today>>

(* The driver is authenticated and the day checked before the photo is      *)
(* verified in object storage; the receipt is stamped after it.             *)
CompleteDeliveryRead(p, o) ==
    /\ tx[p].step = "idle"
    /\ shipment[o].status = "out_for_delivery"
    /\ ActiveDriver(shipment[o].driver)
    /\ shipment[o].planned = today
    /\ upload[o]
    /\ Begin(p, "deliver", o, None, 0)
    /\ UNCHANGED <<order, money, goods, staff, payLock, today>>

CompleteDeliveryCommit(p) ==
    LET o == tx[p].order IN
    /\ tx[p].step = "deliver"
    /\ shipment[o].status = "out_for_delivery"
    /\ upload[o]
    /\ shipment' = [shipment EXCEPT ![o].status = "delivered"]
    /\ upload' = [upload EXCEPT ![o] = FALSE]
    /\ receipt' = [receipt EXCEPT ![o] = [exists |-> TRUE,
                                          gross |-> order[o].gross, day |-> today]]
    /\ Finish(p)
    /\ UNCHANGED <<order, money, staff, payLock, today>>

-----------------------------------------------------------------------------
(* Driver administration.                                                   *)

ActorRow(active, role, d) ==
    [active |-> active, role |-> role, version |-> driver[d].version + 1]

HasActiveShipment(d) ==
    \E o \in Orders : /\ shipment[o].driver = d
                      /\ shipment[o].status \in {"preparing", "out_for_delivery"}

DeactivateActorRead(p, d) ==
    /\ tx[p].step = "idle"
    /\ driver[d].version < MaxAuthVersion
    /\ ActiveDriver(d)
    /\ ~HasActiveShipment(d)
    /\ Begin(p, "deactivateInvariant", None, d, driver[d].version)
    /\ UNCHANGED <<order, money, goods, staff, payLock, today>>

DeactivateActorReadInvariant(p) ==
    /\ tx[p].step = "deactivateInvariant"
    /\ Continue(p, "deactivateCommit", liveness[tx[p].driver])
    /\ UNCHANGED <<order, money, goods, staff, payLock, today>>

DeactivateActorCommit(p) ==
    LET d == tx[p].driver IN
    /\ tx[p].step = "deactivateCommit"
    /\ driver[d].version = tx[p].version
    /\ SameLiveness(p)
    /\ driver' = [driver EXCEPT ![d] = ActorRow(FALSE, driver[d].role, d)]
    /\ liveness' = [liveness EXCEPT ![d] = tx[p].liveness + 1]
    /\ dismissed' = dismissed \cup {d}
    /\ Finish(p)
    /\ UNCHANGED <<order, money, goods, payLock, today>>

(* An account of another role has no driver-liveness row: the decision rests *)
(* on the row it writes.                                                     *)
DeactivateOther(d) ==
    /\ driver[d].version < MaxAuthVersion
    /\ driver[d].active
    /\ driver[d].role = "other"
    /\ driver' = [driver EXCEPT ![d] = ActorRow(FALSE, "other", d)]
    /\ UNCHANGED <<order, money, goods, liveness, dismissed, payLock, tx, today>>

(* Changing a driver into another role, and back, active or not; no          *)
(* driver-liveness row.                                                      *)
ChangeActorRoleRead(p, d) ==
    /\ tx[p].step = "idle"
    /\ driver[d].version < MaxAuthVersion
    /\ driver[d].role = "driver"
    /\ ~HasActiveShipment(d)
    /\ Begin(p, "role", None, d, driver[d].version)
    /\ UNCHANGED <<order, money, goods, staff, payLock, today>>

ChangeActorRoleCommit(p) ==
    LET d == tx[p].driver IN
    /\ tx[p].step = "role"
    /\ driver[d].version = tx[p].version
    /\ driver' = [driver EXCEPT ![d] = ActorRow(driver[d].active, "other", d)]
    /\ Finish(p)
    /\ UNCHANGED <<order, money, goods, liveness, dismissed, payLock, today>>

ChangeActorRoleToDriver(d) ==
    /\ driver[d].version < MaxAuthVersion
    /\ driver[d].role = "other"
    /\ driver' = [driver EXCEPT ![d] = ActorRow(driver[d].active, "driver", d)]
    /\ UNCHANGED <<order, money, goods, liveness, dismissed, payLock, tx, today>>

-----------------------------------------------------------------------------
(* A version conflict, any other error or a crash rolls a transaction back. *)
Rollback(p) ==
    /\ tx[p].step # "idle"
    /\ Finish(p)
    /\ payLock' = IF payLock = p THEN Nobody ELSE payLock
    /\ UNCHANGED <<order, money, goods, staff, today>>

NextDay ==
    /\ today < MaxDay
    /\ today' = today + 1
    /\ UNCHANGED <<order, money, goods, staff, payLock, tx>>

OrderStep ==
    \E o \in Orders :
      \/ \E due \in 1 .. MaxDay, gross \in Amounts :
            CreateOrder(o, due, gross) \/ ResubmitOrder(o, due, gross)
      \/ SubmitOrder(o)
      \/ RequestOrderChange(o)
      \/ RejectOrder(o)
      \/ ApproveOrder(o)
      \/ \E p \in Procs : CancelOrderRead(p, o)

PaymentStep ==
    \/ AutoMatchPayments
    \/ \E fetched \in SUBSET Txns : SyncBankTransactions(fetched)
    \/ \E o \in Orders, t \in Txns : ManualMatchPayment(o, t)
    \/ \E o \in Orders : ReversePaymentMatch(o)

ShipmentStep ==
    \E o \in Orders :
      \/ CreateDeliveryUpload(o)
      \/ \E p \in Procs : \/ DispatchShipmentRead(p, o)
                          \/ CompleteDeliveryRead(p, o)
                          \/ \E d \in Drivers : CreateShipmentReadOrder(p, o, d)

AdminStep ==
    \E d \in Drivers :
      \/ ChangeActorRoleToDriver(d)
      \/ DeactivateOther(d)
      \/ \E p \in Procs : DeactivateActorRead(p, d) \/ ChangeActorRoleRead(p, d)

ContinueStep(p) ==
    \/ CancelOrderCommit(p)
    \/ CreateShipmentReadDriver(p)
    \/ CreateShipmentReadInvariant(p)
    \/ CreateShipmentCommit(p)
    \/ DispatchShipmentCommit(p)
    \/ CompleteDeliveryCommit(p)
    \/ DeactivateActorReadInvariant(p)
    \/ DeactivateActorCommit(p)
    \/ ChangeActorRoleCommit(p)
    \/ Rollback(p)

Next ==
    \/ OrderStep
    \/ PaymentStep
    \/ ShipmentStep
    \/ AdminStep
    \/ \E p \in Procs : ContinueStep(p)
    \/ NextDay

Spec == Init /\ [][Next]_vars
-----------------------------------------------------------------------------
(* Properties.                                                              *)

OrderRows == [status : OrderStatus, due : Nat, gross : Amounts \cup {None},
              version : Nat]
RequestRows == [status : RequestStatus, amount : Amounts \cup {None},
                txn : Txns \cup {None}]
ShipmentRows == [status : ShipmentStatus, driver : Drivers \cup {None},
                 planned : Nat]
ReceiptRows == [exists : BOOLEAN, gross : Amounts \cup {None}, day : Nat]
ActorRows == [active : BOOLEAN, role : {"driver", "other"}, version : Nat]
OrderSteps == {"cancel", "dispatch", "deliver"}
ShipSteps == {"shipDriver", "shipInvariant", "shipCommit"}
AdminSteps == {"deactivateInvariant", "deactivateCommit", "role"}
Transactions == [step : Steps, order : Orders \cup {None},
                 driver : Drivers \cup {None}, version : Nat, liveness : Nat]

TypeOK ==
    /\ order \in [Orders -> OrderRows]
    /\ request \in [Orders -> RequestRows]
    /\ txn \in [Txns -> {"absent", "free", "matched"}]
    /\ shipment \in [Orders -> ShipmentRows]
    /\ upload \in [Orders -> BOOLEAN]
    /\ receipt \in [Orders -> ReceiptRows]
    /\ driver \in [Drivers -> ActorRows]
    /\ liveness \in [Drivers -> Nat]
    /\ dismissed \subseteq Drivers
    /\ payLock \in Procs \cup {Nobody}
    /\ tx \in [Procs -> Transactions]
    /\ \A p \in Procs :
         /\ tx[p].step \in OrderSteps \cup ShipSteps => tx[p].order \in Orders
         /\ tx[p].step \in AdminSteps \cup ShipSteps => tx[p].driver \in Drivers
    /\ today \in Nat

Left(o) == shipment[o].status \in {"out_for_delivery", "delivered"}

(* Goods of a prepaid store leave the warehouse only against a confirmed    *)
(* payment, and the payment stays confirmed while they are out and after:   *)
(* dispatchShipment, reversePaymentMatch, cancelOrder and the matching all  *)
(* race over payment_request and shipment rows.                             *)
PrepaidLeavesOnlyPaid ==
    \A o \in Prepaid : Left(o) => request[o].status = "paid"

(* Confirmed payments and matched credits pair up one to one, at the same   *)
(* amount, through matching by the system, by hand and back.                *)
MatchIsOneToOne ==
    /\ \A o \in Orders : request[o].status = "paid" =>
         /\ request[o].txn \in Txns
         /\ txn[request[o].txn] = "matched"
         /\ request[o].amount = TxnAmount[request[o].txn]
         /\ \A u \in Orders : request[u].status = "paid" /\ u # o
                             => request[u].txn # request[o].txn
    /\ \A t \in Txns : txn[t] = "matched" =>
         \E o \in Orders : request[o].status = "paid" /\ request[o].txn = t

(* A cancelled order never keeps a store's money or asks for it: its        *)
(* request is cancelled with it although createShipment and the matching    *)
(* run concurrently; and only cancellation cancels a request.               *)
CancelledOrderHoldsNoMoney ==
    \A o \in Orders :
      /\ order[o].status = "cancelled" => request[o].status \in {"none", "cancelled"}
      /\ request[o].status = "cancelled" => order[o].status = "cancelled"

(* What a goods receipt bills is what the store ordered when its order was  *)
(* approved and, for a prepaid store, the amount of the credit that paid.   *)
BilledAmountIsPaidAmount ==
    \A o \in Orders : receipt[o].exists =>
      /\ receipt[o].gross = order[o].gross
      /\ o \in Prepaid => /\ receipt[o].gross = request[o].amount
                         /\ receipt[o].gross = TxnAmount[request[o].txn]

(* No delivery is prepared without head office's approval, and it is        *)
(* planned for the day the approved order asks for.                         *)
ShipmentFollowsApproval ==
    \A o \in Orders : shipment[o].status # "none" =>
      /\ order[o].status \in {"approved", "cancelled"}
      /\ shipment[o].planned = order[o].due

(* The driver-liveness row serialises the decisions about a driver: each    *)
(* assignment and the deactivation of a driver is counted in it exactly     *)
(* once, whatever roles the account had before and has afterwards.          *)
LivenessCountsDecisions ==
    \A d \in Drivers :
      liveness[d] = Cardinality({o \in Orders : shipment[o].driver = d})
                    + (IF d \in dismissed THEN 1 ELSE 0)

(* What makes the money properties inductive: the lock is held exactly by   *)
(* the locked split operations, and what they read of the payment request   *)
(* stays true until they commit.                                            *)
LockHeldByReader ==
    \A p \in Procs : payLock = p <=> tx[p].step \in {"cancel", "dispatch"}

ReadsStayTrue ==
    \A p \in Procs :
      /\ tx[p].step = "cancel" => request[tx[p].order].status # "paid"
      /\ tx[p].step = "dispatch" /\ tx[p].order \in Prepaid
            => request[tx[p].order].status = "paid"

MoneyInv ==
    /\ TypeOK
    /\ LockHeldByReader
    /\ ReadsStayTrue
    /\ PrepaidLeavesOnlyPaid
    /\ MatchIsOneToOne
    /\ CancelledOrderHoldsNoMoney

(* What makes the properties of the goods inductive: a request asks for     *)
(* what was approved, what a shipment's creation has read stays closed, and *)
(* a receipt stands for goods delivered at the approved price.              *)
Closed(o) == order[o].status \in {"approved", "cancelled"}

GoodsInv ==
    /\ MoneyInv
    /\ ShipmentFollowsApproval
    /\ \A o \in Orders : request[o].status # "none" =>
         Closed(o) /\ request[o].amount = order[o].gross
    /\ \A p \in Procs : tx[p].step \in ShipSteps => Closed(tx[p].order)
    /\ \A o \in Orders : receipt[o].exists =>
         shipment[o].status = "delivered" /\ receipt[o].gross = order[o].gross

(* What makes LivenessCountsDecisions inductive: no driver before the       *)
(* assignment, no account is active again, and a deactivation whose version *)
(* still holds has found the driver active.                                 *)
LivenessInv ==
    /\ TypeOK
    /\ LivenessCountsDecisions
    /\ \A o \in Orders : shipment[o].status = "none" => shipment[o].driver = None
    /\ \A d \in dismissed : ~driver[d].active
    /\ \A p \in Procs : tx[p].step \in {"deactivateInvariant", "deactivateCommit"} =>
         /\ tx[p].version <= driver[tx[p].driver].version
         /\ driver[tx[p].driver].version = tx[p].version => driver[tx[p].driver].active

-----------------------------------------------------------------------------
(* What the code says of itself and does not keep.                          *)

(* service.ts:416 - an order whose delivery has started cannot be           *)
(* cancelled, so no cancelled order has a shipment.                         *)
CancelledOrderHasNoShipment ==
    \A o \in Orders : order[o].status = "cancelled" => shipment[o].status = "none"

=============================================================================
